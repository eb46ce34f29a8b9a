--------------------------- MODULE WebForms_proofs ---------------------------
(***************************************************************************)
(* Theorems about the pages of the client on which something is chosen,    *)
(* sent and answered late: the catalog (Catalog), the execution of actions *)
(* (ActionsPage), the wizard that changes one (ActionWizard), the          *)
(* references of a form (SchemaForm) and the configuration of a plugin     *)
(* (ConfigForm), for any kinds, actions, roles, rows and numbers of inputs.*)
(***************************************************************************)
EXTENDS WebBoard_proofs, WellFoundedInduction

-----------------------------------------------------------------------------
(* The catalog *)

CatalogOps == {"list", "plugins", "create"}

\* Every request is one of those the page sends.
CatalogAsks == \A c \in catCalls : "op" \in DOMAIN c /\ c.op \in CatalogOps

CatalogInv == CatalogAsks /\ List!FormIsAsChosen

LEMMA CatalogInit == List!Init => CatalogInv
<1> SUFFICES ASSUME List!Init PROVE CatalogInv
  OBVIOUS
<1>1. catStep = "closed"
  BY DEF List!Init
<1>2. catCalls = {[op |-> op, of |-> None, hidden |-> {}, read |-> FALSE, nr |-> 0] :
                    op \in {"list", "plugins"}}
  BY DEF List!Init
<1>3. CatalogAsks
  BY <1>2 DEF CatalogAsks, CatalogOps
<1> QED BY <1>1, <1>3 DEF CatalogInv, List!FormIsAsChosen

LEMMA CatalogAsksNext == CatalogAsks /\ List!Next => CatalogAsks'
<1> SUFFICES ASSUME CatalogAsks, List!Next PROVE CatalogAsks'
  OBVIOUS
<1>1. \A op, of : /\ "op" \in DOMAIN List!Request(op, of)
                  /\ List!Request(op, of).op = op
  BY DEF List!Request
<1>2. {"list", "plugins", "create"} \subseteq CatalogOps
  BY DEF CatalogOps
<1>3. CASE List!Navigate
  <2>1. PICK at : catCalls' \subseteq
                    catCalls \cup {List!Request("list", at), List!Request("list", None)}
    BY <1>3 DEF List!Navigate, List!LoadList
  <2> QED BY <1>1, <1>2, <2>1 DEF CatalogAsks
<1>4. CASE List!OpenCreate \/ List!CloseCreate \/ List!ChooseKind \/ List!Back
  BY <1>4 DEF List!OpenCreate, List!CloseCreate, List!ChooseKind, List!Back, CatalogAsks
<1>5. CASE List!HandleCreate
  BY <1>1, <1>2, <1>5 DEF List!HandleCreate, CatalogAsks
<1>6. CASE List!PluginChanges
  BY <1>1, <1>2, <1>6 DEF List!PluginChanges, CatalogAsks
<1>7. ASSUME NEW c \in catCalls, List!ListPlugins(c) PROVE CatalogAsks'
  <2>1. catCalls' = (catCalls \ {c})
                      \cup {[c EXCEPT !.read = TRUE, !.hidden = catDisabled]}
    BY <1>7 DEF List!ListPlugins
  <2> QED BY <2>1 DEF CatalogAsks
<1>8. ASSUME NEW c \in catCalls, List!Receive(c) PROVE CatalogAsks'
  <2>1. c.op \in CatalogOps
    BY DEF CatalogAsks
  <2>2. catCalls' \subseteq catCalls \cup {List!Request("list", None)}
    BY <1>8, <2>1 DEF CatalogOps, List!Receive, List!ReceiveList, List!ReceivePlugins,
                      List!ReceiveCreate, List!LeaveHiddenKind, List!LoadList
  <2> QED BY <1>1, <1>2, <2>2 DEF CatalogAsks
<1> QED BY <1>3, <1>4, <1>5, <1>6, <1>7, <1>8 DEF List!Next

\* The kinds offered are as before where what is known of the plugins is.
LEMMA SameOffer ==
  UNCHANGED <<catKnown, catHidden>> => List!VisibleKinds' = List!VisibleKinds
  BY Zenon DEF List!VisibleKinds

LEMMA ReceivePluginsKeeps ==
  ASSUME List!FormIsAsChosen, NEW c, NEW ok, List!ReceivePlugins(c, ok)
  PROVE  List!FormIsAsChosen'
<1>1. CASE ~ok
  <2>1. UNCHANGED <<catKnown, catHidden, catStep, catKind, catChosen>>
    BY <1>1 DEF List!ReceivePlugins, List!known, List!panel
  <2> QED BY <2>1, SameOffer DEF List!FormIsAsChosen
<1>2. CASE ok
  <2> DEFINE visible == List!FilterEntityKindsByPlugins(TRUE, c.hidden)
  <2>1. List!VisibleKinds' = visible
    BY <1>2, Zenon DEF List!ReceivePlugins, List!VisibleKinds
  <2>2. List!ResetCreateKind(visible)
    BY <1>2 DEF List!ReceivePlugins
  <2> HIDE DEF visible
  <2>3. CASE catKind \in visible
    <3>1. UNCHANGED <<catStep, catKind, catChosen>>
      BY <2>2, <2>3 DEF List!ResetCreateKind, List!panel
    <3>2. catKind' \in List!VisibleKinds'
      BY <2>1, <2>3, <3>1
    <3> QED BY <3>1, <3>2 DEF List!FormIsAsChosen
  <2>4. CASE catKind \notin visible
    BY <2>2, <2>4 DEF List!ResetCreateKind, List!FormIsAsChosen
  <2> QED BY <2>3, <2>4
<1> QED BY <1>1, <1>2

LEMMA FormIsAsChosenNext ==
  ASSUME CatalogInv, List!Next PROVE List!FormIsAsChosen'
<1> USE DEF CatalogInv
<1>1. CASE List!Navigate \/ List!PluginChanges \/ \E c \in catCalls : List!ListPlugins(c)
  <2>1. UNCHANGED <<catKnown, catHidden, catStep, catKind, catChosen>>
    BY <1>1 DEF List!Navigate, List!PluginChanges, List!ListPlugins, List!known, List!panel
  <2> QED BY <2>1, SameOffer DEF List!FormIsAsChosen
<1>2. CASE List!OpenCreate \/ List!CloseCreate \/ List!Back
  BY <1>2 DEF List!OpenCreate, List!CloseCreate, List!Back, List!FormIsAsChosen
<1>3. CASE List!ChooseKind \/ List!HandleCreate
  <2>1. UNCHANGED <<catKnown, catHidden>>
    BY <1>3 DEF List!ChooseKind, List!HandleCreate, List!Panel, List!known
  <2> QED BY <1>3, <2>1, SameOffer
          DEF List!ChooseKind, List!HandleCreate, List!panel, List!FormIsAsChosen
<1>4. ASSUME NEW c \in catCalls, List!Receive(c) PROVE List!FormIsAsChosen'
  <2>1. c.op \in CatalogOps
    BY DEF CatalogAsks
  <2>2. PICK ok \in BOOLEAN :
          List!ReceiveList(c, ok) \/ List!ReceivePlugins(c, ok) \/ List!ReceiveCreate(c, ok)
    BY <1>4, <2>1 DEF List!Receive, CatalogOps
  <2>3. CASE List!ReceiveList(c, ok)
    <3>1. UNCHANGED <<catKnown, catHidden, catStep, catKind, catChosen>>
      BY <2>3 DEF List!ReceiveList, List!known, List!panel
    <3> QED BY <3>1, SameOffer DEF List!FormIsAsChosen
  <2>4. CASE List!ReceiveCreate(c, ok)
    <3>1. /\ UNCHANGED <<catKnown, catHidden, catKind, catChosen>>
          /\ catStep' \in {catStep, "closed"}
      BY <2>4 DEF List!ReceiveCreate, List!known
    <3> QED BY <3>1, SameOffer DEF List!FormIsAsChosen
  <2> QED BY <2>2, <2>3, <2>4, ReceivePluginsKeeps
<1> QED BY <1>1, <1>2, <1>3, <1>4 DEF List!Next

\* A step of the window is a step of the catalog, or none, if it is open there.
LEMMA CatalogStep ==
  [Next]_vars => page' = page /\ (page = "catalog" => List!Next \/ UNCHANGED catVars)
  BY Zenon DEF Next, Alone, vars

LEMMA CatalogStutter == CatalogInv /\ UNCHANGED catVars => CatalogInv'
<1> SUFFICES ASSUME CatalogInv, UNCHANGED catVars PROVE CatalogInv'
  OBVIOUS
<1>1. UNCHANGED <<catKnown, catHidden, catStep, catKind, catChosen, catCalls>>
  BY DEF catVars
<1> QED BY <1>1, SameOffer DEF CatalogInv, CatalogAsks, List!FormIsAsChosen

\* The form in the panel is for the kind that was chosen, and that kind is offered,
\* whatever lists of plugins come while it is open.
THEOREM FormStaysAsChosen == Spec => []FormIsAsChosen
<1> DEFINE Inv == page = "catalog" => CatalogInv
<1>1. Init => Inv
  BY CatalogInit DEF Init
<1>2. Inv /\ [Next]_vars => Inv'
  BY CatalogStep, CatalogAsksNext, FormIsAsChosenNext, CatalogStutter DEF CatalogInv
<1>3. Inv => FormIsAsChosen
  BY DEF FormIsAsChosen, CatalogInv
<1> QED BY <1>1, <1>2, <1>3, PTL DEF Spec

-----------------------------------------------------------------------------
(* The execution of actions *)

AskFields == {"op", "of", "token", "nr"}
ForGitHub  == {"config", "popup", "message"}

\* What is asked for before an action that needs a token is executed is of such an
\* action, and the token is one that GitHub gave.
ExecutionsAsk ==
  \A c \in actCalls :
    /\ AskFields \subseteq DOMAIN c
    /\ c.op \in {"config", "popup"} => c.of \in UserActions
    /\ c.op \in ForGitHub => c.nr # 0
    /\ c.op = "message" => c.token \in {0, c.nr}
    /\ c.op = "execute" =>
         /\ c.token # 0 <=> c.of \in UserActions
         /\ c.token \in {0, c.nr} \/ c.nr \in actShared

\* Executions that wait for GitHub at once are known to.
WaitsAreShared ==
  \A c, d \in actCalls :
    c.op \in ForGitHub /\ d.op \in ForGitHub => c.nr = d.nr \/ {c.nr, d.nr} \subseteq actShared

\* The window is open as long as an execution that opened it waits for it, and for one
\* of those.
WindowIsHeld ==
  /\ actWindow # Runs!Closed => actWindow.of \in actWindow.by
  /\ \A n \in actWindow.by : \E c \in actCalls : c.op = "popup" /\ c.nr = n

ActionAsks == actInputs \in Nat /\ ExecutionsAsk /\ WaitsAreShared /\ WindowIsHeld

RunsInv == ActionAsks /\ Runs!StatusIsFollowed

LEMMA RunsInit == Runs!Init => RunsInv
<1> SUFFICES ASSUME Runs!Init PROVE RunsInv
  OBVIOUS
<1>1. actRun.id = 0
  BY DEF Runs!Init, Runs!NoRun
<1>2. /\ actCalls = {[op |-> "list", of |-> None, token |-> 0, id |-> 0, got |-> "none", nr |-> 0]}
      /\ actWindow = Runs!Closed /\ actInputs = 0
  BY Zenon DEF Runs!Init
<1>3. ActionAsks
  BY <1>2 DEF ActionAsks, ExecutionsAsk, WaitsAreShared, WindowIsHeld, AskFields, ForGitHub,
              Runs!Closed
<1> QED BY <1>1, <1>3 DEF RunsInv, Runs!StatusIsFollowed

\* A step that is not about GitHub
LEMMA AsideKeeps ==
  ASSUME ActionAsks, UNCHANGED <<actWindow, actShared>>, actInputs' \in Nat,
         \A c \in actCalls' : \/ c \in actCalls
                             \/ /\ AskFields \subseteq DOMAIN c
                                /\ c.op \notin ForGitHub \cup {"execute"},
         \A c \in actCalls : c.op = "popup" => c \in actCalls'
  PROVE  ActionAsks'
<1>1. ExecutionsAsk'
  BY DEF ActionAsks, ExecutionsAsk, ForGitHub
<1>2. WaitsAreShared'
  BY DEF ActionAsks, WaitsAreShared
<1>3. WindowIsHeld'
  BY DEF ActionAsks, WindowIsHeld
<1> QED BY <1>1, <1>2, <1>3 DEF ActionAsks

LEMMA ExecuteAsks == ASSUME ActionAsks, Runs!HandleExecute PROVE ActionAsks'
<1>1. actInputs' \in Nat /\ actInputs' # 0 /\ UNCHANGED actWindow
  BY DEF Runs!HandleExecute, Runs!Input, ActionAsks
<1>2. PICK op \in {"config", "execute"} :
        /\ op = "config" <=> actExecuting \in UserActions
        /\ actCalls' = actCalls \cup {Runs!Request(op, actExecuting)}
        /\ actShared' = actShared \cup
             (IF op = "execute" \/ Runs!Asking = {} THEN {}
              ELSE {actInputs'} \cup {c.nr : c \in Runs!Asking})
  BY DEF Runs!HandleExecute
<1>3. PICK d : d = Runs!Request(op, actExecuting)
  OBVIOUS
<1>4. /\ AskFields \subseteq DOMAIN d /\ d.op = op /\ d.of = actExecuting /\ d.token = 0
      /\ d.nr = actInputs'
  BY <1>3 DEF Runs!Request, AskFields
<1>5. /\ actShared \subseteq actShared'
      /\ \A c \in actCalls : c.op \in ForGitHub /\ op = "config" => {c.nr, d.nr} \subseteq actShared'
  BY <1>2, <1>4 DEF Runs!Asking, ForGitHub
<1>6. ExecutionsAsk'
  BY <1>1, <1>2, <1>3, <1>4, <1>5 DEF ActionAsks, ExecutionsAsk, ForGitHub
<1>7. WaitsAreShared'
  BY <1>2, <1>3, <1>4, <1>5 DEF ActionAsks, WaitsAreShared, ForGitHub
<1>8. WindowIsHeld'
  BY <1>1, <1>2 DEF ActionAsks, WindowIsHeld
<1> QED BY <1>1, <1>6, <1>7, <1>8 DEF ActionAsks

\* A request for GitHub fails: the window it opened, if it did, is closed.
LEMMA FailKeeps ==
  ASSUME ActionAsks, NEW c \in actCalls, actCalls' = actCalls \ {c},
         UNCHANGED <<actShared, actInputs>>,
         \/ c.op # "popup" /\ UNCHANGED actWindow
         \/ actWindow' = IF c.nr \in actWindow.by THEN Runs!Closed ELSE actWindow
  PROVE  ActionAsks'
<1>1. ExecutionsAsk' /\ WaitsAreShared'
  BY DEF ActionAsks, ExecutionsAsk, WaitsAreShared
<1>2. WindowIsHeld'
  BY DEF ActionAsks, WindowIsHeld, Runs!Closed
<1> QED BY <1>1, <1>2 DEF ActionAsks

LEMMA ConfigKeeps ==
  ASSUME ActionAsks, NEW c \in actCalls, Runs!ReceiveConfig(c) PROVE ActionAsks'
<1>1. c.op = "config" /\ UNCHANGED <<actShared, actInputs>>
  BY DEF Runs!ReceiveConfig
<1>2. CASE Runs!Fail(c) /\ UNCHANGED actWindow
  BY <1>1, <1>2, FailKeeps DEF Runs!Fail
<1>3. CASE /\ actCalls' = (actCalls \ {c}) \cup {Runs!NextStep(c, "popup", 0)}
           /\ actWindow' = [of |-> c.nr, by |-> actWindow.by \cup {c.nr}]
  <2>1. PICK d : d = Runs!NextStep(c, "popup", 0)
    OBVIOUS
  <2>2. AskFields \subseteq DOMAIN d /\ d.op = "popup" /\ d.of = c.of /\ d.nr = c.nr
    BY <2>1 DEF Runs!NextStep, ActionAsks, ExecutionsAsk, AskFields
  <2>3. ExecutionsAsk'
    BY <1>1, <1>3, <2>1, <2>2 DEF ActionAsks, ExecutionsAsk, ForGitHub
  <2>4. WaitsAreShared'
    BY <1>1, <1>3, <2>1, <2>2 DEF ActionAsks, WaitsAreShared, ForGitHub
  <2>5. WindowIsHeld'
    BY <1>1, <1>3, <2>1, <2>2 DEF ActionAsks, WindowIsHeld
  <2> QED BY <1>1, <2>3, <2>4, <2>5 DEF ActionAsks
<1> QED BY <1>2, <1>3 DEF Runs!ReceiveConfig

LEMMA WindowKeeps == ASSUME ActionAsks, Runs!WindowCloses PROVE ActionAsks'
<1>1. /\ actWindow # Runs!Closed /\ actWindow' = Runs!Closed
      /\ UNCHANGED <<actShared, actInputs>>
  BY DEF Runs!WindowCloses
<1>2. PICK p \in actCalls : p.op = "popup" /\ p.nr = actWindow.of
  BY <1>1 DEF ActionAsks, WindowIsHeld
<1>3. CASE UNCHANGED actCalls
  BY <1>1, <1>3 DEF ActionAsks, ExecutionsAsk, WaitsAreShared, WindowIsHeld, Runs!Closed
<1>4. ASSUME NEW token \in {0, actWindow.of},
             actCalls' = actCalls \cup
               {[op |-> "message", of |-> None, token |-> token, id |-> 0, got |-> "none",
                 nr |-> actWindow.of]}
      PROVE  ActionAsks'
  <2>1. PICK m : m = [op |-> "message", of |-> None, token |-> token, id |-> 0, got |-> "none",
                      nr |-> actWindow.of]
    OBVIOUS
  <2>2. AskFields \subseteq DOMAIN m /\ m.op = "message" /\ m.nr = p.nr /\ m.token = token
    BY <1>2, <2>1 DEF AskFields
  <2>3. ExecutionsAsk'
    BY <1>1, <1>2, <1>4, <2>1, <2>2 DEF ActionAsks, ExecutionsAsk, ForGitHub
  <2>4. WaitsAreShared'
    BY <1>1, <1>2, <1>4, <2>1, <2>2 DEF ActionAsks, WaitsAreShared, ForGitHub
  <2>5. WindowIsHeld'
    BY <1>1 DEF WindowIsHeld, Runs!Closed
  <2> QED BY <1>1, <2>3, <2>4, <2>5 DEF ActionAsks
<1> QED BY <1>3, <1>4, Zenon DEF Runs!WindowCloses

\* A token that comes is of every execution that waits, or they are known to share it.
LEMMA MessageKeeps ==
  ASSUME ActionAsks, NEW m \in actCalls, Runs!ReceiveMessage(m) PROVE ActionAsks'
<1> DEFINE waiting == {c \in actCalls : c.op = "popup"}
<1>1. /\ m.op = "message" /\ UNCHANGED <<actShared, actInputs>>
      /\ actCalls' = (actCalls \ ({m} \cup waiting)) \cup
           {Runs!NextStep(c, "execute", m.token) : c \in IF m.token = 0 THEN {} ELSE waiting}
      /\ actWindow' = IF waiting = {} THEN actWindow ELSE Runs!Closed
  BY DEF Runs!ReceiveMessage
<1>2. ASSUME NEW d \in actCalls'
      PROVE  \/ d \in actCalls /\ d.op # "popup"
             \/ /\ AskFields \subseteq DOMAIN d /\ d.op = "execute" /\ d.token = m.token
                /\ d.token # 0
                /\ \E c \in actCalls : c.op = "popup" /\ d.of = c.of /\ d.nr = c.nr
  <2>1. CASE d \in actCalls \ ({m} \cup waiting)
    BY <2>1
  <2>2. ASSUME NEW c \in waiting, d = Runs!NextStep(c, "execute", m.token), m.token # 0
        PROVE  /\ AskFields \subseteq DOMAIN d /\ d.op = "execute" /\ d.token = m.token
               /\ d.of = c.of /\ d.nr = c.nr
    BY <2>2 DEF Runs!NextStep, ActionAsks, ExecutionsAsk, AskFields
  <2> QED BY <1>1, <2>1, <2>2
<1>3. ExecutionsAsk'
  <2>1. m.nr # 0 /\ m.token \in {0, m.nr}
    BY <1>1 DEF ActionAsks, ExecutionsAsk, ForGitHub
  <2>2. ASSUME NEW c \in actCalls, c.op = "popup"
        PROVE  c.of \in UserActions /\ (c.nr = m.nr \/ c.nr \in actShared)
    BY <1>1, <2>2 DEF ActionAsks, ExecutionsAsk, WaitsAreShared, ForGitHub
  <2> QED BY <1>1, <1>2, <2>1, <2>2 DEF ActionAsks, ExecutionsAsk, ForGitHub
<1>4. WaitsAreShared'
  BY <1>1, <1>2 DEF ActionAsks, WaitsAreShared, ForGitHub
<1>5. WindowIsHeld'
  BY <1>1 DEF ActionAsks, WindowIsHeld, Runs!Closed
<1> QED BY <1>1, <1>3, <1>4, <1>5 DEF ActionAsks

\* A run that is shown anew is polled, unless it has ended.
LEMMA ShowFollows ==
  ASSUME Runs!StatusIsFollowed, NEW id, NEW status, Runs!Show(id, status)
  PROVE  Runs!StatusIsFollowed'
<1>1. CASE actRun' = actRun
  BY <1>1 DEF Runs!Show, Runs!StatusIsFollowed
<1>2. CASE actRun' # actRun
  <2>1. actRun'.id = id /\ actRun'.status = status
    BY DEF Runs!Show
  <2>2. actTimer' = IF status \in Runs!Terminal THEN 0 ELSE id
    BY <1>2 DEF Runs!Show
  <2> QED BY <2>1, <2>2 DEF Runs!StatusIsFollowed
<1> QED BY <1>1, <1>2

LEMMA StatusIsFollowedNext ==
  ASSUME Runs!StatusIsFollowed, Runs!Next PROVE Runs!StatusIsFollowed'
<1>1. CASE UNCHANGED Runs!running
  BY <1>1 DEF Runs!running, Runs!StatusIsFollowed
<1>2. CASE Runs!CloseRun
  <2>1. actRun'.id = 0
    BY <1>2 DEF Runs!CloseRun, Runs!NoRun
  <2> QED BY <2>1 DEF Runs!StatusIsFollowed
<1>3. ASSUME NEW c \in actCalls, Runs!ReceiveExecute(c) \/ Runs!ReceivePoll(c)
      PROVE  Runs!StatusIsFollowed'
  <2>1. \/ UNCHANGED Runs!running
        \/ \E id, status : Runs!Show(id, status)
        \/ actPollFailed' = TRUE
    BY <1>3, Zenon DEF Runs!ReceiveExecute, Runs!ReceivePoll
  <2>2. CASE actPollFailed' = TRUE
    BY <2>2 DEF Runs!StatusIsFollowed
  <2> QED BY <1>1, <2>1, <2>2, ShowFollows
<1>4. CASE Runs!ChooseCategory \/ Runs!PressCard \/ Runs!NewAction \/ Runs!CloseDialog
           \/ Runs!HandleExecute \/ Runs!WindowCloses \/ Runs!Poll \/ Runs!RunGoesOn
           \/ Runs!HandleWizardSave
  BY <1>1, <1>4, Zenon DEF Runs!ChooseCategory, Runs!PressCard, Runs!NewAction,
       Runs!CloseDialog, Runs!HandleExecute, Runs!WindowCloses, Runs!Poll, Runs!RunGoesOn,
       Runs!HandleWizardSave, Runs!running
<1>5. ASSUME NEW c \in actCalls,
             \/ Runs!ReceiveConfig(c) \/ Runs!PopupEnds(c) \/ Runs!ReceiveMessage(c)
             \/ Runs!ReceiveList(c)
      PROVE  Runs!StatusIsFollowed'
  BY <1>1, <1>5, Zenon DEF Runs!ReceiveConfig, Runs!PopupEnds, Runs!ReceiveMessage,
       Runs!ReceiveList, Runs!running
<1> QED BY <1>2, <1>3, <1>4, <1>5, Zenon DEF Runs!Next

LEMMA ActionAsksNext ==
  ASSUME ActionAsks, Runs!Next PROVE ActionAsks'
<1> USE DEF Runs!github
<1>1. ASSUME Runs!Input PROVE actInputs' \in Nat
  BY <1>1 DEF Runs!Input, ActionAsks
<1>2. actInputs \in Nat
  BY DEF ActionAsks
<1>3. CASE Runs!ChooseCategory \/ Runs!PressCard \/ Runs!NewAction \/ Runs!CloseDialog
           \/ Runs!CloseRun \/ Runs!RunGoesOn
  <2>1. UNCHANGED <<actCalls, actWindow, actShared>> /\ (UNCHANGED actInputs \/ Runs!Input)
    BY <1>3, Zenon DEF Runs!ChooseCategory, Runs!PressCard, Runs!NewAction,
         Runs!CloseDialog, Runs!CloseRun, Runs!RunGoesOn
  <2>2. actInputs' \in Nat
    BY <1>1, <1>2, <2>1
  <2> QED BY <2>1, <2>2, AsideKeeps
<1>4. CASE Runs!Poll
  <2>1. PICK d : d = [op |-> "poll", of |-> None, token |-> 0, id |-> actTimer,
                      got |-> actRuns[actTimer], nr |-> 0]
    OBVIOUS
  <2>2. actCalls' = actCalls \cup {d} /\ UNCHANGED <<actWindow, actShared, actInputs>>
    BY <1>4, <2>1 DEF Runs!Poll
  <2>3. AskFields \subseteq DOMAIN d /\ d.op \notin ForGitHub \cup {"execute"}
    BY <2>1 DEF AskFields, ForGitHub
  <2> QED BY <1>2, <2>2, <2>3, AsideKeeps
<1>5. CASE Runs!HandleWizardSave
  <2>1. PICK d : d = Runs!Request("list", None)
    OBVIOUS
  <2>2. actCalls' = actCalls \cup {d} /\ UNCHANGED <<actWindow, actShared>> /\ Runs!Input
    BY <1>5, <2>1 DEF Runs!HandleWizardSave
  <2>3. AskFields \subseteq DOMAIN d /\ d.op \notin ForGitHub \cup {"execute"}
    BY <2>1 DEF AskFields, ForGitHub, Runs!Request
  <2> QED BY <1>1, <2>2, <2>3, AsideKeeps
<1>6. ASSUME NEW c \in actCalls, Runs!PopupEnds(c) PROVE ActionAsks'
  BY <1>6, FailKeeps DEF Runs!PopupEnds, Runs!Fail
<1>7. ASSUME NEW c \in actCalls,
             Runs!ReceiveExecute(c) \/ Runs!ReceivePoll(c) \/ Runs!ReceiveList(c)
      PROVE  ActionAsks'
  <2>1. /\ actCalls' = actCalls \ {c} /\ c.op # "popup"
        /\ UNCHANGED <<actWindow, actShared, actInputs>>
    BY <1>7 DEF Runs!ReceiveExecute, Runs!ReceivePoll, Runs!ReceiveList, Runs!Fail
  <2> QED BY <1>2, <2>1, FailKeeps
<1> QED BY <1>3, <1>4, <1>5, <1>6, <1>7, ExecuteAsks, ConfigKeeps, WindowKeeps, MessageKeeps, Zenon
        DEF Runs!Next

\* A step of the window is a step of the page of the actions, or none, if it is open
\* there.
LEMMA RunsStep ==
  [Next]_vars => page' = page /\ (page = "actions" => Runs!Next \/ UNCHANGED actVars)
  BY Zenon DEF Next, Alone, vars

LEMMA RunsStutter == RunsInv /\ UNCHANGED actVars => RunsInv'
  BY DEF RunsInv, ActionAsks, ExecutionsAsk, WaitsAreShared, WindowIsHeld,
         Runs!StatusIsFollowed, actVars

LEMMA RunsInvariant == Spec => [](page = "actions" => RunsInv)
<1>1. Init => (page = "actions" => RunsInv)
  BY RunsInit DEF Init
<1>2. (page = "actions" => RunsInv) /\ [Next]_vars => (page = "actions" => RunsInv)'
  BY RunsStep, ActionAsksNext, StatusIsFollowedNext, RunsStutter DEF RunsInv
<1> QED BY <1>1, <1>2, PTL DEF Spec

\* An action that needs a token never goes without, nor another one with it, and the
\* token is the one given for it unless GitHub was asked for several executions at once,
\* whatever dialogs are closed and opened, and however late GitHub's messages come.
THEOREM TokensGoWithTheirAction == Spec => []TokensGoWhereNeeded
<1>1. (page = "actions" => RunsInv) => TokensGoWhereNeeded
  <2>1. ExecutionsAsk => Runs!TokensGoWhereNeeded
    BY DEF ExecutionsAsk, Runs!TokensGoWhereNeeded
  <2> QED BY <2>1 DEF TokensGoWhereNeeded, RunsInv, ActionAsks
<1> QED BY <1>1, RunsInvariant, PTL

\* A run that has not ended is polled, in whatever order the polls are answered, unless
\* one has failed.
THEOREM UnfinishedRunsAreFollowed == Spec => []StatusIsFollowed
<1>1. (page = "actions" => RunsInv) => StatusIsFollowed
  BY DEF StatusIsFollowed, RunsInv
<1> QED BY <1>1, RunsInvariant, PTL

-----------------------------------------------------------------------------
(* The wizard of the actions *)

LEMMA WizardConstants ==
  /\ BuiltIn \subseteq Roles /\ None \notin Roles
  /\ Level \in [Roles -> Nat]
  BY PagesAssumption DEF Wizard!WizardAssumption

\* Of the numbers in a set one is the least.
LEMMA LeastNumber ==
  ASSUME NEW S, S \subseteq Nat, S # {} PROVE \E m \in S : \A n \in S : m <= n
<1> DEFINE less == OpToRel(<, Nat)
<1>1. IsWellFoundedOn(less, Nat)
  BY NatLessThanWellFounded
<1>2. \A x, y \in Nat : <<x, y>> \in less <=> x < y
  BY DEF OpToRel
<1> HIDE DEF less
<1>3. \E m \in S : \A n \in S : ~ (<<n, m>> \in less)
  BY <1>1, WFMin
<1>4. PICK m \in S : \A n \in S : ~ (<<n, m>> \in less)
  BY <1>3
<1>5. \A n \in S : n \in Nat /\ m \in Nat /\ ~ (n < m)
  BY <1>2, <1>4
<1> QED BY <1>4, <1>5

\* The least of any roles is one of them, if any of them is known.
LEMMA LeastRole ==
  ASSUME NEW allowed, NEW known \in SUBSET Roles
  PROVE  LET found == allowed \cap known
             least == Wizard!MinRole(allowed, known)
         IN  IF found = {} THEN least = None
             ELSE least \in found /\ \A q \in found : Level[least] <= Level[q]
<1> DEFINE found == allowed \cap known
           levels == {Level[r] : r \in found}
           least == CHOOSE r \in found : \A q \in found : Level[r] <= Level[q]
<1>1. CASE found = {}
  BY <1>1 DEF Wizard!MinRole
<1>2. CASE found # {}
  <2>1. levels \subseteq Nat /\ levels # {}
    BY <1>2, WizardConstants
  <2>2. PICK m \in levels : \A n \in levels : m <= n
    <3> HIDE DEF levels
    <3> QED BY <2>1, LeastNumber
  <2>3. \E r \in found : \A q \in found : Level[r] <= Level[q]
    BY <2>2
  <2>4. Wizard!MinRole(allowed, known) = least
    BY <1>2 DEF Wizard!MinRole
  <2>5. least \in found /\ \A q \in found : Level[least] <= Level[q]
    <3> HIDE DEF found
    <3> QED BY <2>3, Zenon
  <2> HIDE DEF least
  <2> QED BY <1>2, <2>4, <2>5
<1> QED BY <1>1, <1>2

\* So those known at and above it are roles that are kept.
LEMMA LeastRoleKeeps ==
  ASSUME NEW known \in SUBSET Roles,
         NEW least, least = Wizard!MinRole(wizExisting.allowed, known)
  PROVE  /\ least \in Roles \cup {None}
         /\ least = None => Wizard!Kept({}, known)
         /\ least # None => Wizard!Kept(Wizard!AtLeast(least) \cap known, known)
<1> DEFINE found == wizExisting.allowed \cap known
<1>1. CASE found = {}
  BY <1>1, LeastRole DEF Wizard!Kept
<1>2. CASE found # {}
  <2>1. least \in found /\ \A q \in found : Level[least] <= Level[q]
    BY <1>2, LeastRole
  <2>2. Wizard!Kept(Wizard!AtLeast(least) \cap known, known)
    BY <2>1, WizardConstants DEF Wizard!Kept, Wizard!AtLeast
  <2> QED BY <2>1, <2>2, WizardConstants
<1> QED BY <1>1, <1>2

\* Before the roles have come nothing is chosen, as there is nothing to choose from;
\* the least role stands for the roles the action has, until the user chooses another.
RoleIsKept ==
  /\ Wizard!Request("roles") \in wizCalls =>
       wizRoles = {} /\ wizMinRole = None /\ ~wizChosen
  /\ ~wizChosen => Wizard!Kept(Wizard!AllowedRoles, wizRoles)

WizardTyped ==
  \A c \in wizCalls : /\ c.op \in {"roles", "sso", "import", "save"}
                      /\ c.op = "roles" => c = Wizard!Request("roles")

WizardInv == WizardTyped /\ RoleIsKept /\ Wizard!RestrictionKept

LEMMA WizardInit == Wizard!Init => WizardInv
<1> SUFFICES ASSUME Wizard!Init PROVE WizardInv
  OBVIOUS
<1>1. /\ wizRoles = {} /\ wizMinRole = None /\ ~wizChosen
      /\ wizCalls = {Wizard!Request("roles"), Wizard!Request("sso")}
  BY Zenon DEF Wizard!Init
<1>2. WizardTyped
  BY <1>1 DEF WizardTyped, Wizard!Request
<1>3. RoleIsKept
  BY <1>1 DEF RoleIsKept, Wizard!AllowedRoles, Wizard!Kept
<1>4. Wizard!RestrictionKept
  BY <1>1 DEF Wizard!RestrictionKept, Wizard!Request
<1> QED BY <1>2, <1>3, <1>4 DEF WizardInv

\* The roles come, or those assumed in their place.
LEMMA ReceiveRolesKeeps ==
  ASSUME WizardInv, NEW c \in wizCalls, c.op = "roles",
         NEW roles \in {Roles, BuiltIn}, Wizard!ReceiveRoles(roles),
         wizCalls' = wizCalls \ {c}
  PROVE  WizardInv'
<1> USE WizardConstants
<1>1. c = Wizard!Request("roles") /\ wizRoles = {} /\ ~wizChosen
  BY DEF WizardInv, WizardTyped, RoleIsKept
<1>2. /\ wizExisting' = wizExisting /\ wizRoles' = roles
      /\ IF Wizard!MinRole(wizExisting.allowed, roles) = None
         THEN wizMinRole' = wizMinRole /\ wizChosen' = wizChosen
         ELSE /\ wizMinRole' = Wizard!MinRole(wizExisting.allowed, roles)
              /\ wizChosen' = FALSE
  BY Zenon DEF Wizard!ReceiveRoles, Wizard!Stay
<1>3. WizardTyped'
  BY <1>1 DEF WizardInv, WizardTyped
<1>4. Wizard!Request("roles") \notin wizCalls'
  BY <1>1
<1>5. Wizard!Kept(Wizard!AllowedRoles, wizRoles)'
  <2> DEFINE least == Wizard!MinRole(wizExisting.allowed, roles)
  <2>1. roles \subseteq Roles /\ None \notin roles
    OBVIOUS
  <2>2. wizMinRole' = least
    <3> HIDE DEF least
    <3> QED BY <1>1, <1>2 DEF least, WizardInv, RoleIsKept
  <2>3. Wizard!Kept(Wizard!AllowedRoles', roles)
    <3>1. CASE least = None
      <4>1. Wizard!AllowedRoles' = {}
        BY <1>2, <2>1, <2>2, <3>1 DEF Wizard!AllowedRoles
      <4> QED BY <2>1, <3>1, <4>1, LeastRoleKeeps
    <3>2. CASE least # None
      <4>1. least \in roles
        BY <2>1, <3>2, LeastRole
      <4>2. Wizard!AllowedRoles' = Wizard!AtLeast(least) \cap roles
        BY <1>2, <2>2, <4>1 DEF Wizard!AllowedRoles, Wizard!AtLeast
      <4> QED BY <2>1, <3>2, <4>2, LeastRoleKeeps
    <3> QED BY <3>1, <3>2
  <2> QED BY <1>2, <2>3 DEF Wizard!Kept
<1>6. RoleIsKept'
  BY <1>4, <1>5 DEF RoleIsKept
<1>7. Wizard!RestrictionKept'
  BY <1>1, <1>2 DEF WizardInv, Wizard!RestrictionKept, Wizard!Kept
<1> QED BY <1>3, <1>6, <1>7 DEF WizardInv

LEMMA WizardUndisturbed ==
  ASSUME WizardInv, UNCHANGED <<wizExisting, wizRoles, wizMinRole, wizChosen>>,
         wizCalls' \subseteq wizCalls \cup {Wizard!Request("import"), Wizard!BuildEntity}
  PROVE  WizardInv'
<1>1. /\ Wizard!Request("import").op = "import"
      /\ Wizard!Request("import") # Wizard!Request("roles")
  BY DEF Wizard!Request
<1>2. /\ Wizard!BuildEntity.op = "save" /\ Wizard!BuildEntity.known = wizRoles
      /\ Wizard!BuildEntity.allowed = Wizard!AllowedRoles
      /\ Wizard!BuildEntity # Wizard!Request("roles")
  BY DEF Wizard!BuildEntity, Wizard!Request
<1>3. WizardTyped'
  BY <1>1, <1>2 DEF WizardInv, WizardTyped
<1>4. Wizard!AllowedRoles' = Wizard!AllowedRoles
  BY DEF Wizard!AllowedRoles
<1>5. RoleIsKept'
  BY <1>1, <1>2, <1>4 DEF WizardInv, RoleIsKept, Wizard!Kept
<1>6. Wizard!RestrictionKept'
  BY <1>1, <1>2 DEF WizardInv, RoleIsKept, Wizard!RestrictionKept, Wizard!Kept
<1> QED BY <1>3, <1>5, <1>6 DEF WizardInv

LEMMA WizardNext == ASSUME WizardInv, Wizard!Next PROVE WizardInv'
<1>1. CASE Wizard!GoTo \/ Wizard!Close \/ Wizard!EditBasic \/ Wizard!ChooseType
           \/ Wizard!EditGitHub \/ Wizard!EditWebhook
  <2>1. UNCHANGED <<wizExisting, wizRoles, wizMinRole, wizChosen, wizCalls>>
    BY <1>1, Zenon DEF Wizard!GoTo, Wizard!Close, Wizard!EditBasic, Wizard!ChooseType,
         Wizard!EditGitHub, Wizard!EditWebhook, Wizard!Stay, Wizard!access
  <2> QED BY <2>1, WizardUndisturbed
<1>2. CASE Wizard!ImportWorkflowInputs
  BY <1>2, WizardUndisturbed DEF Wizard!ImportWorkflowInputs, Wizard!Stay, Wizard!access
<1>3. CASE Wizard!HandleSave
  <2>1. /\ UNCHANGED <<wizExisting, wizRoles, wizMinRole, wizChosen>>
        /\ wizCalls' \in {wizCalls, wizCalls \cup {Wizard!BuildEntity}}
    BY <1>3, Zenon DEF Wizard!HandleSave, Wizard!access
  <2> QED BY <2>1, WizardUndisturbed
<1>4. CASE Wizard!ChooseMinRole
  <2>1. /\ UNCHANGED <<wizExisting, wizRoles, wizCalls>> /\ wizChosen'
        /\ wizMinRole' \in (wizRoles \cup {None}) \ {wizMinRole}
    BY <1>4, Zenon DEF Wizard!ChooseMinRole, Wizard!Stay
  <2>2. Wizard!Request("roles") \notin wizCalls
    BY <2>1, WizardConstants DEF WizardInv, RoleIsKept
  <2> QED BY <2>1, <2>2 DEF WizardInv, WizardTyped, RoleIsKept, Wizard!RestrictionKept
<1>5. ASSUME NEW c \in wizCalls, Wizard!Receive(c) PROVE WizardInv'
  <2>1. c.op \in {"roles", "sso", "import", "save"} /\ wizCalls' = wizCalls \ {c}
    BY <1>5 DEF WizardInv, WizardTyped, Wizard!Receive
  <2>2. CASE c.op = "roles"
    <3>1. PICK roles \in {Roles, BuiltIn} : Wizard!ReceiveRoles(roles)
      BY <1>5, <2>2 DEF Wizard!Receive
    <3> QED BY <2>1, <2>2, <3>1, ReceiveRolesKeeps
  <2>3. CASE c.op # "roles"
    <3>1. UNCHANGED <<wizExisting, wizRoles, wizMinRole, wizChosen>>
      <4>1. PICK ok \in BOOLEAN :
              Wizard!ReceiveSSO(ok) \/ Wizard!ReceiveImport(ok) \/ Wizard!ReceiveSave(ok)
        BY <1>5, <2>1, <2>3 DEF Wizard!Receive
      <4> QED BY <4>1, Zenon DEF Wizard!ReceiveSSO, Wizard!ReceiveImport,
                                 Wizard!ReceiveSave, Wizard!Stay, Wizard!access
    <3> QED BY <2>1, <3>1, WizardUndisturbed
  <2> QED BY <2>2, <2>3
<1> QED BY <1>1, <1>2, <1>3, <1>4, <1>5, Zenon DEF Wizard!Next

\* A step of the window is a step of the wizard, or none, if it is open there.
LEMMA WizardStep ==
  [Next]_vars => page' = page /\ (page = "wizard" => Wizard!Next \/ UNCHANGED wizVars)
  BY Zenon DEF Next, Alone, vars

LEMMA WizardStutter == WizardInv /\ UNCHANGED wizVars => WizardInv'
  BY WizardUndisturbed DEF wizVars

\* Changing an action leaves it to the known ones of its roles and to those above them,
\* unless the user chooses others: for any roles, several of which may be equally high,
\* for any list of them and of names there are no roles of, and also when the roles cannot
\* be listed or have not been yet.
THEOREM RestrictionStays == Spec => []RestrictionKept
<1> DEFINE Inv == page = "wizard" => WizardInv
<1>1. Init => Inv
  BY WizardInit DEF Init
<1>2. Inv /\ [Next]_vars => Inv'
  BY WizardStep, WizardNext, WizardStutter
<1>3. Inv => RestrictionKept
  BY DEF RestrictionKept, WizardInv
<1> QED BY <1>1, <1>2, <1>3, PTL DEF Spec

-----------------------------------------------------------------------------
(* The references of a form *)

PickerFields == {"query", "open", "list", "wait", "mounted"}

\* One picker for each row
PickersTyped ==
  /\ refRows \in Seq(References!Row)
  /\ DOMAIN refPickers = DOMAIN refRows
  /\ \A i \in DOMAIN refRows :
       /\ PickerFields \subseteq DOMAIN refPickers[i]
       /\ {refPickers[i].list, refPickers[i].wait} \subseteq RefKinds \cup {Blank}

\* What a picker has or waits for is of the kind of its row.
PickersAskTheirKind ==
  \A i \in DOMAIN refRows :
    refPickers[i].mounted =>
      {refPickers[i].list, refPickers[i].wait} \subseteq {Blank, refRows[i].kind}

PickersInv ==
  /\ PickersTyped /\ References!PickersShowTheirValue
  /\ ~refRetyped => PickersAskTheirKind

LEMMA PickersInit == References!Init => PickersInv
<1> SUFFICES ASSUME References!Init PROVE PickersInv
  OBVIOUS
<1>1. refRows = <<>> /\ refPickers = <<>>
  BY DEF References!Init
<1> QED BY <1>1 DEF PickersInv, PickersTyped, PickersAskTheirKind,
                    References!PickersShowTheirValue

\* A picker as it is drawn shows the name of its row, and keeps what it has and waits
\* for or starts without.
LEMMA DrawnShows ==
  ASSUME NEW p, PickerFields \subseteq DOMAIN p, NEW old, NEW new,
         p.mounted /\ old.name = new.name => p.query = new.name
  PROVE  LET d == References!Drawn(p, old, new)
         IN  /\ PickerFields \subseteq DOMAIN d
             /\ d.mounted => d.query = new.name /\ new.kind # Blank
             /\ \/ d.list = Blank /\ d.wait = Blank
                \/ p.mounted /\ d.list = p.list /\ d.wait = p.wait
<1> DEFINE d == References!Drawn(p, old, new)
<1> USE DEF PickerFields
<1>1. CASE new.kind = Blank
  <2>1. d = References!NoPicker
    BY <1>1 DEF References!Drawn
  <2>2. /\ ~References!NoPicker.mounted /\ PickerFields \subseteq DOMAIN References!NoPicker
        /\ References!NoPicker.list = Blank /\ References!NoPicker.wait = Blank
    BY DEF References!NoPicker, References!NewPicker
  <2> QED BY <2>1, <2>2
<1>2. CASE new.kind # Blank /\ ~p.mounted
  <2>1. d = References!NewPicker(new.name)
    BY <1>2 DEF References!Drawn
  <2> QED BY <1>2, <2>1 DEF References!NewPicker
<1>3. CASE new.kind # Blank /\ p.mounted /\ old.name # new.name
  <2>1. d = [p EXCEPT !.query = new.name]
    BY <1>3 DEF References!Drawn
  <2> QED BY <1>3, <2>1
<1>4. CASE new.kind # Blank /\ p.mounted /\ old.name = new.name
  <2>1. d = p
    BY <1>4 DEF References!Drawn
  <2> QED BY <1>4, <2>1
<1> QED BY <1>1, <1>2, <1>3, <1>4

\* Rows come, go and change: the pickers follow.
LEMMA SetRowsKeeps ==
  ASSUME PickersInv, NEW rows \in Seq(References!Row), NEW kept,
         \A i \in DOMAIN rows \cap DOMAIN refRows :
           /\ PickerFields \subseteq DOMAIN kept[i]
           /\ kept[i].mounted /\ refRows[i].name = rows[i].name => kept[i].query = rows[i].name
           /\ kept[i].mounted => refPickers[i].mounted
           /\ kept[i].list = refPickers[i].list /\ kept[i].wait = refPickers[i].wait,
         References!SetRows(rows, kept)
  PROVE  PickersInv'
<1> DEFINE p(i) == IF i \in DOMAIN refRows THEN kept[i] ELSE References!NoPicker
           old(i) == IF i \in DOMAIN refRows THEN refRows[i] ELSE rows[i]
<1>1. /\ refRows' = rows
      /\ refPickers' = [i \in DOMAIN rows |->
           IF i \in DOMAIN refRows THEN References!Drawn(kept[i], refRows[i], rows[i])
           ELSE References!Drawn(References!NoPicker, rows[i], rows[i])]
  BY Zenon DEF References!SetRows
<1>2. ~refRetyped' => /\ ~refRetyped
                      /\ \A i \in DOMAIN rows \cap DOMAIN refRows :
                           \/ rows[i].kind \in {refRows[i].kind, Blank}
                           \/ {kept[i].list, kept[i].wait} = {Blank}
  BY Zenon DEF References!SetRows
<1>3. ~References!NoPicker.mounted /\ PickerFields \subseteq DOMAIN References!NoPicker
  BY DEF References!NoPicker, References!NewPicker, PickerFields
<1>4. ASSUME NEW i \in DOMAIN rows
      PROVE  /\ PickerFields \subseteq DOMAIN refPickers'[i]
             /\ refPickers'[i].mounted => /\ refPickers'[i].query = rows[i].name
                                          /\ rows[i].kind # Blank
             /\ \/ refPickers'[i].list = Blank /\ refPickers'[i].wait = Blank
                \/ /\ i \in DOMAIN refRows /\ kept[i].mounted
                   /\ refPickers'[i].list = kept[i].list
                   /\ refPickers'[i].wait = kept[i].wait
  <2>1. CASE i \in DOMAIN refRows
    BY <1>1, <2>1, DrawnShows
  <2>2. CASE i \notin DOMAIN refRows
    BY <1>1, <1>3, <2>2, DrawnShows
  <2> QED BY <2>1, <2>2
<1>5. PickersTyped' /\ References!PickersShowTheirValue'
  <2>1. \A i \in DOMAIN rows :
          {refPickers'[i].list, refPickers'[i].wait} \subseteq RefKinds \cup {Blank}
    BY <1>4 DEF PickersInv, PickersTyped
  <2> QED BY <1>1, <1>4, <2>1 DEF PickersTyped, References!PickersShowTheirValue
<1>6. ASSUME ~refRetyped' PROVE PickersAskTheirKind'
  <2> SUFFICES ASSUME NEW i \in DOMAIN rows, refPickers'[i].mounted
               PROVE  {refPickers'[i].list, refPickers'[i].wait} \subseteq {Blank, rows[i].kind}
    BY <1>1 DEF PickersAskTheirKind
  <2>1. CASE refPickers'[i].list = Blank /\ refPickers'[i].wait = Blank
    BY <2>1
  <2>2. CASE /\ i \in DOMAIN refRows /\ kept[i].mounted
             /\ refPickers'[i].list = kept[i].list /\ refPickers'[i].wait = kept[i].wait
    <3>1. {kept[i].list, kept[i].wait} \subseteq {Blank, refRows[i].kind}
      BY <1>2, <1>6, <2>2 DEF PickersInv, PickersAskTheirKind
    <3>2. rows[i].kind = refRows[i].kind \/ {kept[i].list, kept[i].wait} = {Blank}
      BY <1>2, <1>4, <1>6, <2>2
    <3> QED BY <2>2, <3>1, <3>2
  <2> QED BY <1>4, <2>1, <2>2
<1> QED BY <1>5, <1>6 DEF PickersInv

LEMMA RemovedIsSeq ==
  ASSUME NEW S, NEW s \in Seq(S), NEW i \in DOMAIN s
  PROVE  References!RemoveAt(s, i) \in Seq(S)
  BY DEF References!RemoveAt

\* The rows of the form
LEMMA FormRowsKeeps ==
  ASSUME PickersInv, References!FormRows PROVE PickersInv'
<1>1. ASSUME NEW rows \in Seq(References!Row), References!SetRows(rows, refPickers)
      PROVE  PickersInv'
  BY <1>1, SetRowsKeeps DEF PickersInv, PickersTyped, References!PickersShowTheirValue
<1>2. refRows \in Seq(References!Row)
  BY DEF PickersInv, PickersTyped
<1>3. CASE References!AddItem
  <2> DEFINE r == [kind |-> Blank, name |-> Blank]
             rows == Append(refRows, r)
  <2>1. References!SetRows(rows, refPickers)
    BY <1>3 DEF References!AddItem
  <2>2. r \in References!Row
    BY DEF References!Row
  <2> HIDE DEF r
  <2>3. rows \in Seq(References!Row)
    BY <1>2, <2>2
  <2> HIDE DEF rows
  <2> QED BY <1>1, <2>1, <2>3
<1>4. ASSUME NEW i \in DOMAIN refRows, References!RemoveItem(i) PROVE PickersInv'
  BY <1>1, <1>2, <1>4, RemovedIsSeq DEF References!RemoveItem
<1>5. ASSUME NEW i \in DOMAIN refRows, References!ChooseKind(i) PROVE PickersInv'
  <2>1. PICK k \in RefKinds \cup {Blank} :
          References!SetRows([refRows EXCEPT ![i] = [kind |-> k, name |-> Blank]], refPickers)
    BY <1>5, Zenon DEF References!ChooseKind
  <2> DEFINE r == [kind |-> k, name |-> Blank]
             rows == [refRows EXCEPT ![i] = r]
  <2>2. r \in References!Row
    BY DEF References!Row
  <2>3. References!SetRows(rows, refPickers)
    BY <2>1
  <2> HIDE DEF r
  <2>4. rows \in Seq(References!Row)
    BY <1>2, <2>2
  <2> HIDE DEF rows
  <2> QED BY <1>1, <2>3, <2>4
<1> QED BY <1>3, <1>4, <1>5, Zenon DEF References!FormRows

\* What the user does with a picker
LEMMA PickerKeeps ==
  ASSUME PickersInv, NEW i \in DOMAIN refRows, References!EntityPicker(i)
  PROVE  PickersInv'
<1> DEFINE p == refPickers[i]
<1>1. /\ PickersTyped /\ PickerFields \subseteq DOMAIN p /\ p.mounted
      /\ p.query = refRows[i].name
  BY DEF PickersInv, PickersTyped, References!EntityPicker, References!PickersShowTheirValue
<1>2. ASSUME UNCHANGED <<refRows, refRetyped>>, NEW q,
             refPickers' = [refPickers EXCEPT ![i] = q],
             PickerFields \subseteq DOMAIN q, q.query = p.query,
             {q.list, q.wait} \subseteq {p.list, p.wait, Blank, refRows[i].kind}
      PROVE  PickersInv'
  <2>1. refRows[i] \in References!Row
    BY <1>1 DEF PickersTyped
  <2>2. refRows[i].kind \in RefKinds \cup {Blank}
    BY <2>1 DEF References!Row
  <2> QED BY <1>1, <1>2, <2>2 DEF PickersInv, PickersTyped, PickersAskTheirKind,
                                  References!PickersShowTheirValue
<1>3. CASE References!Open(i)
  <2> DEFINE o == [p EXCEPT !.open = TRUE]
             q == References!LoadKind(o, refRows[i].kind)
  <2>1. UNCHANGED <<refRows, refRetyped>> /\ refPickers' = [refPickers EXCEPT ![i] = q]
    BY <1>3, Zenon DEF References!Open
  <2>2. /\ PickerFields \subseteq DOMAIN o /\ o.query = p.query
        /\ o.list = p.list /\ o.wait = p.wait
    BY <1>1 DEF PickerFields
  <2> HIDE DEF o
  <2>3. \/ q = o
        \/ q = [o EXCEPT !.list = refRows[i].kind]
        \/ q = [o EXCEPT !.wait = refRows[i].kind]
    BY DEF References!LoadKind
  <2>4. /\ PickerFields \subseteq DOMAIN q /\ q.query = p.query
        /\ {q.list, q.wait} \subseteq {p.list, p.wait, Blank, refRows[i].kind}
    BY <2>2, <2>3 DEF PickerFields
  <2> QED BY <1>2, <2>1, <2>4
<1>4. CASE References!CloseList(i)
  <2> DEFINE q == [p EXCEPT !.open = FALSE]
  <2>1. UNCHANGED <<refRows, refRetyped>> /\ refPickers' = [refPickers EXCEPT ![i] = q]
    BY <1>4 DEF References!CloseList
  <2>2. /\ PickerFields \subseteq DOMAIN q /\ q.query = p.query
        /\ q.list = p.list /\ q.wait = p.wait
    BY <1>1 DEF PickerFields
  <2> QED BY <1>2, <2>1, <2>2
<1>5. ASSUME NEW n, n \in References!Names \cup {Blank}, NEW q,
             PickerFields \subseteq DOMAIN q, q.query = n,
             q.list = p.list, q.wait = p.wait, NEW kept,
             kept = [refPickers EXCEPT ![i] = q],
             References!SetRows([refRows EXCEPT ![i].name = n], kept)
      PROVE  PickersInv'
  <2> DEFINE r == [refRows[i] EXCEPT !.name = n]
             rows == [refRows EXCEPT ![i].name = n]
  <2>4. refRows[i] \in References!Row
    BY <1>1 DEF PickersTyped
  <2>5. r \in References!Row /\ r.name = n
    BY <1>5, <2>4 DEF References!Row
  <2>6. rows = [refRows EXCEPT ![i] = r]
    OBVIOUS
  <2> HIDE DEF r, rows
  <2>1. rows \in Seq(References!Row)
    BY <1>1, <2>5, <2>6 DEF PickersTyped
  <2>2. /\ DOMAIN rows = DOMAIN refRows /\ rows[i].name = n
        /\ \A j \in DOMAIN refRows \ {i} : rows[j] = refRows[j] /\ kept[j] = refPickers[j]
        /\ kept[i] = q
    BY <1>1, <1>5, <2>5, <2>6 DEF PickersTyped
  <2>3. ASSUME NEW j \in DOMAIN rows \cap DOMAIN refRows
        PROVE  /\ PickerFields \subseteq DOMAIN kept[j]
               /\ kept[j].mounted /\ refRows[j].name = rows[j].name
                    => kept[j].query = rows[j].name
               /\ kept[j].mounted => refPickers[j].mounted
               /\ kept[j].list = refPickers[j].list /\ kept[j].wait = refPickers[j].wait
    BY <1>1, <1>5, <2>2 DEF PickersInv, PickersTyped, References!PickersShowTheirValue
  <2> QED BY <1>5, <2>1, <2>3, SetRowsKeeps DEF rows
<1>6. CASE References!Select(i)
  <2>1. PICK n \in References!Filtered(p) :
          References!SetRows([refRows EXCEPT ![i].name = n],
                             [refPickers EXCEPT ![i].query = n, ![i].open = FALSE])
    BY <1>6 DEF References!Select
  <2> DEFINE q == [[p EXCEPT !.query = n] EXCEPT !.open = FALSE]
             kept == [refPickers EXCEPT ![i].query = n, ![i].open = FALSE]
  <2>2. n \in References!Names
    <3>1. p.list \in RefKinds \cup {Blank}
      BY <1>1 DEF PickersTyped
    <3> QED BY <2>1, <3>1 DEF References!Filtered, References!Names
  <2>3. kept = [refPickers EXCEPT ![i] = q]
    BY <1>1 DEF PickersTyped
  <2>4. /\ PickerFields \subseteq DOMAIN q /\ q.query = n
        /\ q.list = p.list /\ q.wait = p.wait
    BY <1>1 DEF PickerFields
  <2> HIDE DEF q, kept
  <2> QED BY <1>5, <2>1, <2>2, <2>3, <2>4 DEF kept
<1>7. CASE References!Write(i)
  <2>1. PICK n \in References!Names \cup {Blank} :
          References!SetRows([refRows EXCEPT ![i].name = n], [refPickers EXCEPT ![i].query = n])
    BY <1>7 DEF References!Write
  <2> DEFINE q == [p EXCEPT !.query = n]
             kept == [refPickers EXCEPT ![i].query = n]
  <2>2. kept = [refPickers EXCEPT ![i] = q]
    BY <1>1 DEF PickersTyped
  <2>3. /\ PickerFields \subseteq DOMAIN q /\ q.query = n
        /\ q.list = p.list /\ q.wait = p.wait
    BY <1>1 DEF PickerFields
  <2> HIDE DEF q, kept
  <2> QED BY <1>5, <2>1, <2>2, <2>3 DEF kept
<1> QED BY <1>3, <1>4, <1>6, <1>7, Zenon DEF References!EntityPicker

\* A list comes, or does not: for the pickers that wait for it.
LEMMA AnswerKindKeeps ==
  ASSUME PickersInv, NEW k \in RefKinds, References!AnswerKind(k) PROVE PickersInv'
<1>1. UNCHANGED <<refRows, refRetyped>>
  BY DEF References!AnswerKind
<1>2. PICK done \in BOOLEAN :
        refPickers' = [i \in DOMAIN refPickers |->
          IF refPickers[i].wait # k THEN refPickers[i]
          ELSE [refPickers[i] EXCEPT !.wait = Blank, !.list = IF done THEN k ELSE @]]
  BY DEF References!AnswerKind
<1>3. k # Blank
  BY PagesAssumption DEF References!SchemaFormAssumption
<1>4. ASSUME NEW i \in DOMAIN refRows
      PROVE  /\ PickerFields \subseteq DOMAIN refPickers'[i]
             /\ refPickers'[i].mounted = refPickers[i].mounted
             /\ refPickers'[i].query = refPickers[i].query
             /\ refPickers'[i].list \in {refPickers[i].list, refPickers[i].wait}
             /\ refPickers'[i].wait \in {refPickers[i].wait, Blank}
  <2>1. PickerFields \subseteq DOMAIN refPickers[i] /\ i \in DOMAIN refPickers
    BY DEF PickersInv, PickersTyped
  <2>2. CASE refPickers[i].wait # k
    BY <1>2, <2>1, <2>2
  <2>3. CASE refPickers[i].wait = k
    <3>1. refPickers'[i] = [refPickers[i] EXCEPT !.wait = Blank,
                                                 !.list = IF done THEN k ELSE @]
      BY <1>2, <2>1, <2>3
    <3> QED BY <2>1, <2>3, <3>1 DEF PickerFields
  <2> QED BY <2>2, <2>3
<1>5. DOMAIN refPickers' = DOMAIN refRows
  BY <1>2 DEF PickersInv, PickersTyped
<1> QED BY <1>1, <1>4, <1>5 DEF PickersInv, PickersTyped, PickersAskTheirKind,
                              References!PickersShowTheirValue

LEMMA PickersNext == ASSUME PickersInv, References!Next PROVE PickersInv'
<1>1. CASE References!FormField \/ References!HandleSubmit
  <2>1. UNCHANGED <<refRows, refPickers, refRetyped>>
    BY <1>1, Zenon DEF References!FormField, References!HandleSubmit
  <2> QED BY <2>1 DEF PickersInv, PickersTyped, PickersAskTheirKind,
                      References!PickersShowTheirValue
<1> QED BY <1>1, FormRowsKeeps, PickerKeeps, AnswerKindKeeps DEF References!Next

\* A step of the window is a step of the form, or none, if it is open there.
LEMMA ReferencesStep ==
  [Next]_vars =>
    page' = page /\ (page = "references" => References!Next \/ UNCHANGED refVars)
  BY Zenon DEF Next, Alone, vars

LEMMA PickersStutter == PickersInv /\ UNCHANGED refVars => PickersInv'
  BY DEF PickersInv, PickersTyped, PickersAskTheirKind, References!PickersShowTheirValue,
         refVars

LEMMA PickersInvariant == Spec => [](page = "references" => PickersInv)
<1>1. Init => (page = "references" => PickersInv)
  BY PickersInit DEF Init
<1>2. (page = "references" => PickersInv) /\ [Next]_vars
        => (page = "references" => PickersInv)'
  BY ReferencesStep, PickersNext, PickersStutter
<1> QED BY <1>1, <1>2, PTL DEF Spec

\* What a picker shows is what its row is sent with, for any number of rows, although
\* pickers stay where they are when a row before them goes.
THEOREM PickersShowWhatIsSent == Spec => []PickersShowTheirValue
<1>1. (page = "references" => PickersInv) => PickersShowTheirValue
  BY DEF PickersShowTheirValue, PickersInv
<1> QED BY <1>1, PickersInvariant, PTL

\* A picker lists entities of the kind of its row, whatever is loaded for the others and
\* in whatever order it comes, unless a picker that had a list has got another kind.
THEOREM PickersListTheirKind == Spec => []ListsAreOfTheKind
<1>1. (page = "references" => PickersInv) => ListsAreOfTheKind
  BY DEF ListsAreOfTheKind, References!ListsAreOfTheKind, PickersInv, PickersAskTheirKind
<1> QED BY <1>1, PickersInvariant, PTL

-----------------------------------------------------------------------------
(* The rows of a plugin's configuration *)

LEMMA FormConstants ==
  /\ FirstRows \in Seq(RowNames)
  /\ \A i, j \in DOMAIN FirstRows : FirstRows[i] = FirstRows[j] => i = j
  /\ Blank \notin RowNames /\ Redacted \notin RowNames /\ Redacted # Blank
  BY PagesAssumption DEF Form!FormAssumption, Form!IsInjective

\* An identity is that of one row.
Distinct(rows) ==
  \A i, j \in DOMAIN rows : rows[i].id = rows[j].id => i = j

FormTyped ==
  /\ formStored \in Seq(Form!Row) /\ formRows \in Seq(Form!Row)
  /\ {"rows", "phase"} \subseteq DOMAIN formSave
  /\ formSave.rows \in Seq(Form!Row)
  /\ formOpen \subseteq Nat
  /\ Distinct(formStored) /\ Distinct(formRows) /\ Distinct(formSave.rows)

\* A row that has no secret of its own and is not redacted has none; a redacted one has
\* in the other rows the same number.
Known(rows, others) ==
  \A i \in DOMAIN rows :
    /\ rows[i].secret \in {Blank, Redacted, rows[i].id}
    /\ rows[i].secret = Redacted => i \in DOMAIN others /\ others[i].id = rows[i].id

OwnSecrets(rows) ==
  \A i \in DOMAIN rows : rows[i].secret \in {Blank, rows[i].id}

\* What is redacted in the form, or in a save under way, is stored with the same number
\* as that row; what is redacted in the form will still be when the save is done.
SecretsInv ==
  /\ OwnSecrets(formStored)
  /\ Known(formRows, formStored)
  /\ formSave.phase = "sent" => /\ Known(formSave.rows, formStored)
                                /\ Known(formRows, formSave.rows)

FormInv == FormTyped /\ (~formShifted => SecretsInv)

LEMMA RedactedRows ==
  ASSUME NEW rows \in Seq(Form!Row), Distinct(rows)
  PROVE  /\ Form!RedactSecretValues(rows) \in Seq(Form!Row)
         /\ Distinct(Form!RedactSecretValues(rows))
         /\ OwnSecrets(rows) => Known(Form!RedactSecretValues(rows), rows)
<1> DEFINE new == Form!RedactSecretValues(rows)
<1>1. /\ DOMAIN new = DOMAIN rows
      /\ \A i \in DOMAIN rows : /\ new[i] \in Form!Row /\ new[i].id = rows[i].id
                                /\ new[i].secret = IF rows[i].secret = Blank THEN Blank
                                                   ELSE Redacted
  <2>1. \A i \in DOMAIN rows : rows[i] \in Form!Row
    OBVIOUS
  <2> QED BY <2>1 DEF Form!RedactSecretValues, Form!Row
<1>2. new \in Seq(Form!Row)
  <2>1. DOMAIN rows = 1..Len(rows) /\ Len(rows) \in Nat
    OBVIOUS
  <2>2. new \in [1..Len(rows) -> Form!Row]
    BY <1>1, <2>1 DEF Form!RedactSecretValues
  <2> HIDE DEF new
  <2> QED BY <2>1, <2>2
<1> HIDE DEF new
<1>3. Distinct(new)
  BY <1>1 DEF Distinct
<1>4. OwnSecrets(rows) => Known(new, rows)
  BY <1>1 DEF OwnSecrets, Known
<1> QED BY <1>2, <1>3, <1>4 DEF new

LEMMA PreservedRows ==
  ASSUME NEW existing \in Seq(Form!Row), NEW updated \in Seq(Form!Row), Distinct(updated)
  PROVE  LET new == Form!PreserveSecretValues(existing, updated)
         IN  /\ new \in Seq(Form!Row) /\ Distinct(new)
             /\ OwnSecrets(existing) /\ Known(updated, existing) =>
                  /\ OwnSecrets(new)
                  /\ DOMAIN new = DOMAIN updated
                  /\ \A i \in DOMAIN new : new[i].id = updated[i].id
<1> DEFINE new == Form!PreserveSecretValues(existing, updated)
<1>1. /\ DOMAIN new = DOMAIN updated
      /\ \A i \in DOMAIN updated :
           /\ new[i] \in Form!Row /\ new[i].id = updated[i].id
           /\ new[i].secret = IF updated[i].secret # Redacted THEN updated[i].secret
                              ELSE IF i \in DOMAIN existing THEN existing[i].secret ELSE Blank
  <2>1. /\ \A i \in DOMAIN updated : updated[i] \in Form!Row
        /\ \A i \in DOMAIN existing : existing[i] \in Form!Row
    OBVIOUS
  <2> QED BY <2>1 DEF Form!PreserveSecretValues, Form!Row
<1>2. new \in Seq(Form!Row)
  BY <1>1 DEF Form!PreserveSecretValues
<1> HIDE DEF new
<1>3. Distinct(new)
  BY <1>1 DEF Distinct
<1>4. ASSUME OwnSecrets(existing), Known(updated, existing) PROVE OwnSecrets(new)
  BY <1>1, <1>4 DEF OwnSecrets, Known
<1> QED BY <1>1, <1>2, <1>3, <1>4 DEF new

LEMMA FormInit == Form!Init => FormInv
<1> SUFFICES ASSUME Form!Init PROVE FormInv
  OBVIOUS
<1>1. formStored \in Seq(Form!Row) /\ Distinct(formStored) /\ OwnSecrets(formStored)
  <2>1. PICK n \in 0..Len(FirstRows) :
          formStored = [i \in 1..n |-> [id |-> FirstRows[i], secret |-> FirstRows[i]]]
    BY DEF Form!Init
  <2>2. n \in Nat /\ 1..n \subseteq DOMAIN FirstRows
    BY FormConstants
  <2>3. \A i \in 1..n : [id |-> FirstRows[i], secret |-> FirstRows[i]] \in Form!Row
    BY <2>2, FormConstants DEF Form!Row
  <2>4. formStored \in Seq(Form!Row) /\ DOMAIN formStored = 1..n
    BY <2>1, <2>2, <2>3
  <2> QED BY <2>1, <2>2, <2>4, FormConstants DEF Distinct, OwnSecrets
<1>2. formRows = Form!RedactSecretValues(formStored)
  BY DEF Form!Init
<1>3. /\ formSave = [rows |-> <<>>, phase |-> "idle"] /\ formOpen = {1}
  BY DEF Form!Init, Form!NotSaving
<1>4. Distinct(<<>>) /\ <<>> \in Seq(Form!Row)
  BY DEF Distinct
<1> QED BY <1>1, <1>2, <1>3, <1>4, RedactedRows DEF FormInv, FormTyped, SecretsInv

\* What leaves the rows, the stored ones and the save alone
LEMMA FormUndisturbed ==
  ASSUME FormInv, UNCHANGED <<formStored, formRows, formOpen, formSave, formShifted>>
  PROVE  FormInv'
  BY DEF FormInv, FormTyped, SecretsInv, Distinct, Known, OwnSecrets

\* The rows of the form change, and perhaps which are open.
LEMMA RowsChange ==
  ASSUME FormInv, formRows' \in Seq(Form!Row), Distinct(formRows)', formOpen' \subseteq Nat,
         UNCHANGED <<formStored, formSave>>,
         \/ formShifted'
         \/ /\ ~formShifted /\ ~formShifted'
            /\ \A others : Known(formRows, others) => Known(formRows', others)
  PROVE  FormInv'
<1>1. FormTyped'
  BY DEF FormInv, FormTyped, Distinct
<1>2. CASE formShifted'
  BY <1>1, <1>2 DEF FormInv
<1>3. CASE ~formShifted /\ \A others : Known(formRows, others) => Known(formRows', others)
  <2>1. SecretsInv
    BY <1>3 DEF FormInv
  <2>2. Known(formRows', formStored) /\ (formSave.phase = "sent" => Known(formRows', formSave.rows))
    BY <1>3, <2>1 DEF SecretsInv
  <2>3. SecretsInv'
    BY <2>1, <2>2 DEF SecretsInv, OwnSecrets, Known
  <2> QED BY <1>1, <2>3 DEF FormInv
<1> QED BY <1>2, <1>3

LEMMA RowAdded == ASSUME FormInv, Form!AddRow, Form!OnlyRows PROVE FormInv'
<1>0. PICK n \in RowNames \ Form!IdsOf(formRows) :
        formRows' = Append(formRows, [id |-> n, secret |-> Blank])
  BY DEF Form!AddRow
<1> DEFINE r == [id |-> n, secret |-> Blank]
<1>1. /\ formRows' = Append(formRows, r) /\ formOpen' = formOpen \cup {Len(formRows) + 1}
      /\ UNCHANGED <<formStored, formSave, formShifted>>
  BY <1>0 DEF Form!AddRow, Form!OnlyRows, Form!Rest
<1>2. /\ formRows \in Seq(Form!Row) /\ Distinct(formRows) /\ formOpen \subseteq Nat
      /\ Len(formRows) \in Nat
  BY DEF FormInv, FormTyped
<1>3. r \in Form!Row /\ r.secret = Blank /\ \A i \in DOMAIN formRows : formRows[i].id # r.id
  BY <1>0 DEF Form!Row, Form!IdsOf
<1> HIDE DEF r
<1>4. /\ formRows' \in Seq(Form!Row)
      /\ \A i \in DOMAIN formRows' : \/ i \in DOMAIN formRows /\ formRows'[i] = formRows[i]
                                     \/ i = Len(formRows) + 1 /\ formRows'[i] = r
  BY <1>1, <1>2, <1>3
<1>5. Distinct(formRows)'
  BY <1>2, <1>3, <1>4 DEF Distinct
<1>6. \A others : Known(formRows, others) => Known(formRows', others)
  BY <1>3, <1>4, FormConstants DEF Known
<1>7. formOpen' \subseteq Nat
  <2>1. Len(formRows) + 1 \in Nat
    BY <1>2
  <2> QED BY <1>1, <1>2, <2>1
<1>8. CASE formShifted
  <2>1. formShifted'
    BY <1>1, <1>8
  <2> QED BY <1>1, <1>4, <1>5, <1>7, <2>1, RowsChange
<1>9. CASE ~formShifted
  <2>1. ~formShifted'
    BY <1>1, <1>9
  <2> QED BY <1>1, <1>4, <1>5, <1>6, <1>7, <1>9, <2>1, RowsChange
<1> QED BY <1>8, <1>9

LEMMA SecondPart ==
  ASSUME NEW S, NEW s \in Seq(S), NEW t \in Seq(S), NEW j \in 1..(Len(s) + Len(t)),
         j > Len(s)
  PROVE  (s \o t)[j] = t[j - Len(s)]
  OBVIOUS

\* Without the row at i, each is what it was or what the next one was.
LEMMA WithoutRow ==
  ASSUME NEW rows \in Seq(Form!Row), NEW i \in DOMAIN rows
  PROVE  LET new == Form!RemoveAt(rows, i)
         IN  /\ new \in Seq(Form!Row) /\ Len(new) = Len(rows) - 1
             /\ \A j \in DOMAIN new :
                  /\ j \in 1..(Len(rows) - 1)
                  /\ new[j] = IF j < i THEN rows[j] ELSE rows[j + 1]
<1> DEFINE s1 == SubSeq(rows, 1, i - 1)
           s2 == SubSeq(rows, i + 1, Len(rows))
<1>1. Len(rows) \in Nat /\ i \in 1..Len(rows)
  OBVIOUS
<1>2. /\ s1 \in Seq(Form!Row) /\ Len(s1) = i - 1
      /\ \A j \in 1..(i - 1) : s1[j] = rows[j]
  BY <1>1
<1>3. /\ s2 \in Seq(Form!Row) /\ Len(s2) = Len(rows) - i
      /\ \A j \in 1..(Len(rows) - i) : s2[j] = rows[j + i]
  BY <1>1
<1> HIDE DEF s1, s2
<1> DEFINE new == s1 \o s2
<1>4. /\ new \in Seq(Form!Row) /\ Len(new) = Len(rows) - 1
      /\ DOMAIN new = 1..(Len(rows) - 1)
  BY <1>1, <1>2, <1>3
<1>5. \A j \in 1..(Len(rows) - 1) :
        new[j] = IF j < i THEN rows[j] ELSE rows[j + 1]
  <2> SUFFICES ASSUME NEW j \in 1..(Len(rows) - 1)
               PROVE  new[j] = IF j < i THEN rows[j] ELSE rows[j + 1]
    OBVIOUS
  <2>1. CASE j < i
    BY <1>1, <1>2, <1>3, <2>1
  <2>2. CASE ~(j < i)
    <3>1. j - (i - 1) \in 1..(Len(rows) - i) /\ (j - (i - 1)) + i = j + 1
      BY <1>1, <2>2
    <3>2. new[j] = s2[j - (i - 1)]
      <4>1. j \in 1..(Len(s1) + Len(s2)) /\ j > Len(s1)
        BY <1>1, <1>2, <1>3, <2>2
      <4>2. (s1 \o s2)[j] = s2[j - Len(s1)]
        BY <1>2, <1>3, <4>1, SecondPart
      <4> QED BY <1>2, <4>2
    <3> QED BY <1>3, <2>2, <3>1, <3>2
  <2> QED BY <2>1, <2>2
<1>6. Form!RemoveAt(rows, i) = new
  BY DEF Form!RemoveAt, s1, s2
<1> HIDE DEF new
<1> QED BY <1>4, <1>5, <1>6

LEMMA RowRemoved ==
  ASSUME FormInv, NEW i \in DOMAIN formRows, Form!RemoveRow(i), Form!OnlyRows
  PROVE  FormInv'
<1>1. /\ formRows' = Form!RemoveAt(formRows, i)
      /\ formOpen' = {v \in formOpen : v < i} \cup {v - 1 : v \in {w \in formOpen : w > i}}
      /\ formShifted' = (formShifted \/ i < Len(formRows))
      /\ UNCHANGED <<formStored, formSave>>
  BY DEF Form!RemoveRow, Form!OnlyRows, Form!Rest
<1>2. /\ formRows \in Seq(Form!Row) /\ Distinct(formRows) /\ formOpen \subseteq Nat
      /\ Len(formRows) \in Nat /\ i \in 1..Len(formRows)
  BY DEF FormInv, FormTyped
<1>3. /\ formRows' \in Seq(Form!Row) /\ Len(formRows') = Len(formRows) - 1
      /\ \A j \in DOMAIN formRows' :
           /\ j \in 1..(Len(formRows) - 1)
           /\ formRows'[j] = IF j < i THEN formRows[j] ELSE formRows[j + 1]
  BY <1>1, <1>2, WithoutRow
<1>4. formOpen' \subseteq Nat
  <2>1. \A w \in formOpen : w > i => w - 1 \in Nat
    BY <1>2
  <2> QED BY <1>1, <1>2, <2>1
<1>5. Distinct(formRows)'
  <2> SUFFICES ASSUME NEW j \in DOMAIN formRows', NEW k \in DOMAIN formRows',
                      formRows'[j].id = formRows'[k].id
               PROVE  j = k
    BY DEF Distinct
  <2> DEFINE was(n) == IF n < i THEN n ELSE n + 1
  <2>1. /\ j \in Nat /\ k \in Nat /\ was(j) \in DOMAIN formRows /\ was(k) \in DOMAIN formRows
        /\ formRows'[j] = formRows[was(j)] /\ formRows'[k] = formRows[was(k)]
    BY <1>2, <1>3
  <2>2. was(j) = was(k)
    BY <1>2, <2>1 DEF Distinct
  <2> QED BY <1>2, <2>1, <2>2
<1>6. \/ formShifted'
      \/ /\ ~formShifted /\ ~formShifted'
         /\ \A others : Known(formRows, others) => Known(formRows', others)
  <2>1. CASE i < Len(formRows) \/ formShifted
    BY <1>1, <2>1
  <2>2. CASE i = Len(formRows) /\ ~formShifted
    <3>0. ~formShifted'
      <4>1. ~(i < Len(formRows))
        BY <1>2, <2>2
      <4> QED BY <1>1, <2>2, <4>1
    <3>1. \A j \in DOMAIN formRows' : j \in DOMAIN formRows /\ formRows'[j] = formRows[j]
      BY <1>2, <1>3, <2>2
    <3> QED BY <2>2, <3>0, <3>1 DEF Known
  <2> QED BY <1>2, <2>1, <2>2
<1> QED BY <1>1, <1>3, <1>4, <1>5, <1>6, RowsChange

LEMMA RowUpdated ==
  ASSUME FormInv, NEW i \in DOMAIN formRows, Form!UpdateField(i), Form!OnlyRows
  PROVE  FormInv'
<1>1. UNCHANGED <<formStored, formSave, formShifted, formOpen>>
  BY DEF Form!UpdateField, Form!OnlyRows, Form!Rest
<1>2. /\ formRows \in Seq(Form!Row) /\ Distinct(formRows) /\ formOpen \subseteq Nat
      /\ formRows[i] \in Form!Row
  BY DEF FormInv, FormTyped
<1>3. PICK s \in {Blank, formRows[i].id} : formRows' = [formRows EXCEPT ![i].secret = s]
  BY DEF Form!UpdateField
<1> DEFINE r == [formRows[i] EXCEPT !.secret = s]
<1>4. r \in Form!Row /\ r.id = formRows[i].id /\ r.secret = s /\ s # Redacted
  BY <1>2, FormConstants DEF Form!Row
<1>5. formRows' = [formRows EXCEPT ![i] = r]
  BY <1>3
<1> HIDE DEF r
<1>6. /\ formRows' \in Seq(Form!Row) /\ DOMAIN formRows' = DOMAIN formRows
      /\ formRows'[i] = r /\ \A j \in DOMAIN formRows \ {i} : formRows'[j] = formRows[j]
  BY <1>2, <1>4, <1>5
<1>7. Distinct(formRows)'
  BY <1>2, <1>4, <1>6 DEF Distinct
<1>8. \A others : Known(formRows, others) => Known(formRows', others)
  BY <1>4, <1>6 DEF Known
<1> QED BY <1>1, <1>2, <1>6, <1>7, <1>8, RowsChange DEF FormInv

LEMMA FieldChanges ==
  ASSUME FormInv, NEW f \in Form!ShownFields, Form!ConfigField(f) PROVE FormInv'
<1>1. CASE Form!StringArraySortField
  BY <1>1, FormUndisturbed DEF Form!StringArraySortField, Form!OnlyItems, Form!Rest
<1>2. CASE Form!ArrayObjectField
  <2>1. Form!OnlyRows
    BY <1>2 DEF Form!ArrayObjectField
  <2>2. ASSUME NEW i \in DOMAIN formRows, Form!ToggleExpand(i) PROVE FormInv'
    <3>1. /\ UNCHANGED <<formRows, formShifted, formStored, formSave>>
          /\ formOpen' \subseteq Nat
      <4>1. i \in Nat /\ formOpen \subseteq Nat
        BY DEF FormInv, FormTyped
      <4> QED BY <2>1, <2>2, <4>1 DEF Form!ToggleExpand, Form!OnlyRows, Form!Rest
    <3>2. Distinct(formRows)' /\ formRows' \in Seq(Form!Row)
      BY <3>1 DEF FormInv, FormTyped, Distinct
    <3> QED BY <3>1, <3>2, RowsChange DEF FormInv
  <2> QED BY <1>2, <2>1, <2>2, RowAdded, RowRemoved, RowUpdated DEF Form!ArrayObjectField
<1>3. CASE Form!Rest(<<formRows, formOpen, formItems, formNew, formDrag, formShifted>>)
  BY <1>3, FormUndisturbed DEF Form!Rest
<1> QED BY <1>1, <1>2, <1>3, Zenon DEF Form!ConfigField

LEMMA SaveKeeps ==
  ASSUME FormInv, Form!HandleSave \/ Form!UpdatePluginConfig \/ Form!SaveAnswered
  PROVE  FormInv'
<1>1. FormTyped /\ UNCHANGED <<formRows, formOpen, formShifted>>
  BY DEF FormInv, Form!HandleSave, Form!UpdatePluginConfig, Form!SaveAnswered
<1>2. CASE Form!HandleSave
  <2>1. formSave' = [rows |-> formRows, phase |-> "sent"] /\ UNCHANGED formStored
    BY <1>2 DEF Form!HandleSave
  <2>2. FormTyped'
    BY <1>1, <2>1 DEF FormTyped, Distinct
  <2>3. Known(formRows, formStored) => Known(formRows, formRows)
    BY DEF Known
  <2> QED BY <1>1, <2>1, <2>2, <2>3 DEF FormInv, SecretsInv, Known, OwnSecrets
<1>3. CASE Form!UpdatePluginConfig
  <2>1. /\ formSave.phase = "sent" /\ formSave' = [formSave EXCEPT !.phase = "answered"]
        /\ formStored' \in {formStored, Form!PreserveSecretValues(formStored, formSave.rows)}
    BY <1>3 DEF Form!UpdatePluginConfig
  <2>2. /\ formSave'.rows = formSave.rows /\ formSave'.phase = "answered"
        /\ {"rows", "phase"} \subseteq DOMAIN formSave'
    BY <1>1, <2>1 DEF FormTyped
  <2>3. CASE formStored' = formStored
    BY <1>1, <2>2, <2>3 DEF FormInv, FormTyped, SecretsInv, Known, OwnSecrets, Distinct
  <2>4. CASE formStored' = Form!PreserveSecretValues(formStored, formSave.rows)
    <3>1. /\ formStored \in Seq(Form!Row) /\ formSave.rows \in Seq(Form!Row)
          /\ Distinct(formSave.rows)
      BY <1>1 DEF FormTyped
    <3>2. /\ formStored' \in Seq(Form!Row) /\ Distinct(formStored')
          /\ OwnSecrets(formStored) /\ Known(formSave.rows, formStored) =>
               /\ OwnSecrets(formStored')
               /\ DOMAIN formStored' = DOMAIN formSave.rows
               /\ \A i \in DOMAIN formStored' : formStored'[i].id = formSave.rows[i].id
      BY <2>4, <3>1, PreservedRows
    <3>3. FormTyped'
      BY <1>1, <2>2, <3>2 DEF FormTyped, Distinct
    <3>4. ~formShifted => OwnSecrets(formStored') /\ Known(formRows, formStored')
      BY <2>1, <3>2 DEF FormInv, SecretsInv, Known
    <3>5. ~formShifted => SecretsInv'
      BY <1>1, <2>2, <3>4 DEF SecretsInv, Known, OwnSecrets
    <3> QED BY <1>1, <3>3, <3>5 DEF FormInv
  <2> QED BY <2>1, <2>3, <2>4
<1>4. CASE Form!SaveAnswered
  <2>1. formSave' = [rows |-> <<>>, phase |-> "idle"] /\ UNCHANGED formStored
    BY <1>4 DEF Form!SaveAnswered, Form!NotSaving
  <2>2. FormTyped'
    BY <1>1, <2>1 DEF FormTyped, Distinct
  <2> QED BY <1>1, <2>1, <2>2 DEF FormInv, SecretsInv, Known, OwnSecrets
<1> QED BY <1>2, <1>3, <1>4

LEMMA ReopenKeeps == ASSUME FormInv, Form!Reopen PROVE FormInv'
<1>1. /\ formRows' = Form!RedactSecretValues(formStored) /\ formOpen' = {1}
      /\ formShifted' = (formShifted \/ formSave.phase = "sent")
      /\ UNCHANGED <<formStored, formSave>>
  BY DEF Form!Reopen
<1>2. /\ formStored \in Seq(Form!Row) /\ Distinct(formStored) /\ FormTyped
  BY DEF FormInv, FormTyped
<1>3. /\ formRows' \in Seq(Form!Row) /\ Distinct(formRows')
      /\ OwnSecrets(formStored) => Known(formRows', formStored)
  BY <1>1, <1>2, RedactedRows
<1>4. FormTyped'
  BY <1>1, <1>2, <1>3 DEF FormTyped, Distinct
<1>5. ~formShifted' => SecretsInv'
  BY <1>1, <1>3 DEF FormInv, SecretsInv, Known, OwnSecrets
<1> QED BY <1>4, <1>5 DEF FormInv

LEMMA FormNext == ASSUME FormInv, Form!Next PROVE FormInv'
<1>1. CASE Form!AnswerRoles
  BY <1>1, FormUndisturbed DEF Form!AnswerRoles
<1> QED BY <1>1, FieldChanges, SaveKeeps, ReopenKeeps, Zenon DEF Form!Next

\* A step of the window is a step of the form, or none, if it is open there.
LEMMA FormStep ==
  [Next]_vars => page' = page /\ (page = "form" => Form!Next \/ UNCHANGED formVars)
  BY Zenon DEF Next, Alone, vars

LEMMA FormStutter == FormInv /\ UNCHANGED formVars => FormInv'
  BY FormUndisturbed DEF formVars

LEMMA FormInvariant == Spec => [](page = "form" => FormInv)
<1>1. Init => (page = "form" => FormInv)
  BY FormInit DEF Init
<1>2. (page = "form" => FormInv) /\ [Next]_vars => (page = "form" => FormInv)'
  BY FormStep, FormNext, FormStutter
<1> QED BY <1>1, <1>2, PTL DEF Spec

\* No row is stored with the secret of another one, nor with the placeholder, for any
\* rows, through saves that fail and forms opened again, as long as none is removed from
\* among them and the form is not opened while a save is under way.
THEOREM SecretsStay == Spec => []SecretsStayWithTheirRow
<1>1. (page = "form" => FormInv) => SecretsStayWithTheirRow
  BY DEF SecretsStayWithTheirRow, Form!SecretsStayWithTheirRow, FormInv, SecretsInv, OwnSecrets
<1> QED BY <1>1, FormInvariant, PTL

\* Rows that stay are open as they were when another one comes or goes, although what is
\* open is kept by number.
THEOREM OpenRowsFollow == Spec => OpenFollowsRows
<1>1. ASSUME FormInv, Form!Next PROVE Form!OpenFollowsRows
  <2>1. FormTyped
    BY <1>1 DEF FormInv
  <2>2. CASE Form!AddRow
    <3>0. PICK id \in RowNames \ Form!IdsOf(formRows) :
            formRows' = Append(formRows, [id |-> id, secret |-> Blank])
      BY <2>2 DEF Form!AddRow
    <3>1. /\ formOpen' = formOpen \cup {Len(formRows) + 1} /\ formRows \in Seq(Form!Row)
      BY <2>1, <2>2 DEF Form!AddRow, FormTyped
    <3>2. /\ DOMAIN formRows = 1..Len(formRows) /\ Len(formRows) \in Nat
          /\ DOMAIN formRows' = DOMAIN formRows \cup {Len(formRows) + 1}
          /\ \A i \in DOMAIN formRows : formRows'[i] = formRows[i]
          /\ formRows'[Len(formRows) + 1].id = id
      BY <3>0, <3>1
    <3>3. \A n \in Form!OpenRows : n \in Form!OpenRows'
      BY <3>1, <3>2 DEF Form!OpenRows
    <3>4. \A n \in Form!OpenRows' : n = id \/ n \in Form!OpenRows
      BY <3>1, <3>2 DEF Form!OpenRows
    <3> QED BY <3>0, <3>3, <3>4 DEF Form!OpenFollowsRows
  <2>3. ASSUME NEW i \in DOMAIN formRows, Form!RemoveRow(i) PROVE Form!OpenFollowsRows
    <3>1. /\ formRows' = Form!RemoveAt(formRows, i)
          /\ formOpen' = {v \in formOpen : v < i} \cup {v - 1 : v \in {w \in formOpen : w > i}}
      BY <2>3 DEF Form!RemoveRow
    <3>2. /\ formRows \in Seq(Form!Row) /\ Distinct(formRows) /\ formOpen \subseteq Nat
          /\ Len(formRows) \in Nat /\ i \in 1..Len(formRows)
          /\ DOMAIN formRows = 1..Len(formRows)
      BY <2>1 DEF FormTyped
    <3>3. /\ formRows' \in Seq(Form!Row) /\ Len(formRows') = Len(formRows) - 1
          /\ \A j \in DOMAIN formRows' :
               /\ j \in 1..(Len(formRows) - 1)
               /\ formRows'[j] = IF j < i THEN formRows[j] ELSE formRows[j + 1]
      BY <3>1, <3>2, WithoutRow
    <3>4. DOMAIN formRows' = 1..(Len(formRows) - 1)
      BY <3>2, <3>3
    <3>5. ASSUME NEW j \in formOpen \cap DOMAIN formRows, NEW k \in DOMAIN formRows',
                 formRows'[k].id = formRows[j].id
          PROVE  formRows[j].id \in Form!OpenRows'
      <4>1. j = IF k < i THEN k ELSE k + 1
        BY <3>2, <3>3, <3>4, <3>5 DEF Distinct
      <4>2. k \in formOpen'
        BY <3>1, <3>2, <3>4, <4>1
      <4> QED BY <3>5, <4>2 DEF Form!OpenRows
    <3>6. ASSUME NEW k \in formOpen' \cap DOMAIN formRows'
          PROVE  formRows'[k].id \in Form!OpenRows
      <4>1. (IF k < i THEN k ELSE k + 1) \in formOpen \cap DOMAIN formRows
        BY <3>1, <3>2, <3>4
      <4> QED BY <3>3, <4>1 DEF Form!OpenRows
    <3>7. \A n \in Form!OpenRows \cap Form!IdsOf(formRows') : n \in Form!OpenRows'
      BY <3>5 DEF Form!OpenRows, Form!IdsOf
    <3>8. Form!OpenRows' \subseteq Form!OpenRows
      BY <3>6 DEF Form!OpenRows
    <3> QED BY <3>7, <3>8 DEF Form!OpenFollowsRows
  <2>4. CASE Len(formRows') = Len(formRows)
    BY <2>4 DEF Form!OpenFollowsRows
  <2>5. CASE Form!Reopen
    BY <2>5 DEF Form!OpenFollowsRows
  <2>6. ASSUME NEW i \in DOMAIN formRows, Form!UpdateField(i)
        PROVE  Len(formRows') = Len(formRows)
    <3>1. formRows \in Seq(Form!Row) /\ formRows[i] \in Form!Row
      BY <2>1 DEF FormTyped
    <3>2. PICK r : formRows' = [formRows EXCEPT ![i] = r]
      BY <2>6 DEF Form!UpdateField
    <3> QED BY <3>1, <3>2
  <2>7. ASSUME NEW f, Form!ConfigField(f) PROVE Form!OpenFollowsRows
    <3>1. CASE UNCHANGED formRows
      BY <2>4, <3>1
    <3>2. CASE Form!ArrayObjectField
      <4>1. ASSUME NEW i \in DOMAIN formRows, Form!ToggleExpand(i) PROVE UNCHANGED formRows
        BY <4>1 DEF Form!ToggleExpand
      <4> QED BY <2>2, <2>3, <2>4, <2>6, <3>2, <4>1, Zenon DEF Form!ArrayObjectField
    <3>3. UNCHANGED formRows \/ Form!ArrayObjectField
      BY <2>7 DEF Form!ConfigField, Form!StringArraySortField, Form!OnlyItems, Form!Rest
    <3> QED BY <3>1, <3>2, <3>3
  <2>8. CASE UNCHANGED formRows
    BY <2>4, <2>8
  <2>9. \/ \E f \in Form!ShownFields : Form!ConfigField(f)
        \/ Form!Reopen \/ UNCHANGED formRows
    BY <1>1, Zenon DEF Form!Next, Form!AnswerRoles, Form!HandleSave,
                       Form!UpdatePluginConfig, Form!SaveAnswered
  <2> QED BY <2>5, <2>7, <2>8, <2>9
<1>2. UNCHANGED formVars => Form!OpenFollowsRows
  BY DEF formVars, Form!OpenFollowsRows
<1>3. (page = "form" => FormInv) /\ [Next]_vars => (page = "form" => Form!OpenFollowsRows)
  BY <1>1, <1>2, FormStep
<1> QED BY <1>3, FormInvariant, PTL DEF Spec, OpenFollowsRows

-----------------------------------------------------------------------------
(* The types of the wizard *)

LEMMA WizardRequestTyped ==
  ASSUME NEW op \in {"roles", "sso", "import"} PROVE Wizard!Request(op) \in Wizard!Call
  BY DEF Wizard!Request, Wizard!Call

LEMMA WizardTypedInit == Wizard!Init => Wizard!TypeOK
<1> SUFFICES ASSUME Wizard!Init PROVE Wizard!TypeOK
  OBVIOUS
<1>1. /\ wizOpen = TRUE /\ wizStep = 0 /\ wizSaving = FALSE /\ wizError = FALSE
      /\ wizMode = "service_account" /\ wizUserMode = FALSE /\ wizRoles = {} /\ wizMinRole = None
      /\ wizChosen = FALSE /\ wizCalls = {Wizard!Request("roles"), Wizard!Request("sso")}
      /\ wizInputs = 0
  BY Zenon DEF Wizard!Init
<1>2. wizExisting \in [new : BOOLEAN, allowed : SUBSET (Roles \cup Unlisted)]
  BY DEF Wizard!Init
<1>3. wizType \in Wizard!Types
  BY DEF Wizard!Init, Wizard!Types
<1>4. wizFilled \subseteq Wizard!Texts
  BY <1>3 DEF Wizard!Init, Wizard!Types, Wizard!Texts
<1>5. wizCalls \subseteq Wizard!Call
  BY <1>1, WizardRequestTyped
<1>6. MaxWizInputs \in Nat
  BY PagesAssumption DEF Wizard!WizardAssumption
<1>7. {wizOpen, wizSaving, wizError, wizUserMode, wizChosen} \subseteq BOOLEAN
  BY <1>1
<1>8. /\ wizStep \in 0..3 /\ wizMode \in Wizard!Modes /\ wizRoles \subseteq Roles
      /\ wizMinRole \in Roles \cup {None} /\ wizInputs \in 0..MaxWizInputs
  BY <1>1, <1>6 DEF Wizard!Modes
<1> QED BY <1>2, <1>3, <1>4, <1>5, <1>7, <1>8 DEF Wizard!TypeOK

LEMMA WizardTypedNext == ASSUME Wizard!TypeOK, Wizard!Next PROVE Wizard!TypeOK'
<1>1. MaxWizInputs \in Nat
  BY PagesAssumption DEF Wizard!WizardAssumption
<1> USE DEF Wizard!Stay, Wizard!config, Wizard!access
<1>2. CASE Wizard!GoTo \/ Wizard!Close
  BY <1>2 DEF Wizard!GoTo, Wizard!Close, Wizard!TypeOK
<1>3. ASSUME Wizard!Input PROVE wizInputs' \in 0..MaxWizInputs
  BY <1>1, <1>3 DEF Wizard!Input, Wizard!TypeOK
<1>4. CASE Wizard!EditBasic \/ Wizard!EditWebhook
  <2>1. wizFilled' \subseteq Wizard!Texts
    BY <1>4 DEF Wizard!EditBasic, Wizard!EditWebhook, Wizard!TypeOK, Wizard!Texts
  <2> QED BY <1>3, <1>4, <2>1 DEF Wizard!EditBasic, Wizard!EditWebhook, Wizard!TypeOK
<1>5. CASE Wizard!ChooseType
  BY <1>3, <1>5 DEF Wizard!ChooseType, Wizard!TypeOK
<1>6. CASE Wizard!EditGitHub
  <2>1. wizFilled' \subseteq Wizard!Texts /\ wizMode' \in Wizard!Modes
    BY <1>6 DEF Wizard!EditGitHub, Wizard!TypeOK, Wizard!Texts, Wizard!Modes
  <2> QED BY <1>3, <1>6, <2>1 DEF Wizard!EditGitHub, Wizard!TypeOK
<1>7. CASE Wizard!ImportWorkflowInputs
  BY <1>3, <1>7, WizardRequestTyped DEF Wizard!ImportWorkflowInputs, Wizard!TypeOK
<1>8. CASE Wizard!ChooseMinRole
  BY <1>3, <1>8 DEF Wizard!ChooseMinRole, Wizard!TypeOK
<1>9. CASE Wizard!HandleSave
  <2>1. Wizard!BuildEntity \in Wizard!Call
    BY DEF Wizard!BuildEntity, Wizard!AllowedRoles, Wizard!AtLeast, Wizard!Call, Wizard!TypeOK
  <2>2. /\ {wizError', wizSaving'} \subseteq BOOLEAN /\ wizStep' \in 0..3
        /\ wizCalls' \subseteq Wizard!Call
    <3>1. CASE "title" \in wizFilled
      <4>1. wizError' = FALSE /\ wizSaving' = TRUE /\ wizStep' = wizStep
            /\ wizCalls' = wizCalls \cup {Wizard!BuildEntity}
        BY <1>9, <3>1 DEF Wizard!HandleSave
      <4> QED BY <2>1, <4>1 DEF Wizard!TypeOK
    <3>2. CASE "title" \notin wizFilled
      <4>1. wizError' = TRUE /\ wizSaving' = wizSaving /\ wizStep' = 0 /\ wizCalls' = wizCalls
        BY <1>9, <3>2 DEF Wizard!HandleSave
      <4> QED BY <4>1 DEF Wizard!TypeOK
    <3> QED BY <3>1, <3>2
  <2> QED BY <1>3, <1>9, <2>2 DEF Wizard!HandleSave, Wizard!TypeOK
<1>10. ASSUME NEW c \in wizCalls, Wizard!Receive(c) PROVE Wizard!TypeOK'
  <2>1. /\ c.op \in {"roles", "sso", "import", "save"}
        /\ wizCalls' \subseteq Wizard!Call /\ wizInputs' = wizInputs
    BY <1>10 DEF Wizard!Receive, Wizard!TypeOK, Wizard!Call
  <2>2. \/ \E known \in {Roles, BuiltIn} : Wizard!ReceiveRoles(known)
        \/ \E ok \in BOOLEAN :
             Wizard!ReceiveSSO(ok) \/ Wizard!ReceiveImport(ok) \/ Wizard!ReceiveSave(ok)
    BY <1>10, <2>1 DEF Wizard!Receive
  <2>3. ASSUME NEW known \in {Roles, BuiltIn}, Wizard!ReceiveRoles(known) PROVE Wizard!TypeOK'
    <3>1. known \subseteq Roles
      BY WizardConstants
    <3>2. wizMinRole' \in Roles \cup {None} /\ wizChosen' \in BOOLEAN /\ wizRoles' = known
      BY <2>3, <3>1, LeastRoleKeeps DEF Wizard!ReceiveRoles, Wizard!TypeOK
    <3> QED BY <2>1, <2>3, <3>1, <3>2 DEF Wizard!ReceiveRoles, Wizard!TypeOK
  <2>4. ASSUME NEW ok \in BOOLEAN,
               Wizard!ReceiveSSO(ok) \/ Wizard!ReceiveImport(ok) \/ Wizard!ReceiveSave(ok)
        PROVE  Wizard!TypeOK'
    <3>1. CASE Wizard!ReceiveSSO(ok)
      BY <2>1, <3>1 DEF Wizard!ReceiveSSO, Wizard!TypeOK, Wizard!Modes
    <3>2. CASE Wizard!ReceiveImport(ok)
      <4>1. UNCHANGED <<wizExisting, wizOpen, wizSaving, wizFilled, wizType, wizMode, wizUserMode,
                        wizRoles, wizMinRole, wizChosen>>
        BY <3>2 DEF Wizard!ReceiveImport, Wizard!config, Wizard!access
      <4>2. wizStep' \in 0..3 /\ wizError' \in {wizError, TRUE}
        <5>1. CASE ok
          BY <3>2, <5>1 DEF Wizard!ReceiveImport, Wizard!TypeOK
        <5>2. CASE ~ok
          BY <3>2, <5>2 DEF Wizard!ReceiveImport, Wizard!TypeOK
        <5> QED BY <5>1, <5>2
      <4> QED BY <2>1, <4>1, <4>2 DEF Wizard!TypeOK
    <3>3. CASE Wizard!ReceiveSave(ok)
      BY <2>1, <3>3 DEF Wizard!ReceiveSave, Wizard!TypeOK
    <3> QED BY <2>4, <3>1, <3>2, <3>3
  <2> QED BY <2>2, <2>3, <2>4
<1> QED BY <1>2, <1>4, <1>5, <1>6, <1>7, <1>8, <1>9, <1>10, Zenon DEF Wizard!Next

LEMMA WizardTypedCorrectly == Spec => [](page = "wizard" => Wizard!TypeOK)
<1> DEFINE Inv == page = "wizard" => Wizard!TypeOK
<1>1. Init => Inv
  BY WizardTypedInit DEF Init
<1>2. Wizard!TypeOK /\ UNCHANGED wizVars => Wizard!TypeOK'
  BY DEF Wizard!TypeOK, wizVars
<1>3. Inv /\ [Next]_vars => Inv'
  BY <1>2, WizardStep, WizardTypedNext
<1> QED BY <1>1, <1>3, PTL DEF Spec

-----------------------------------------------------------------------------
(* The types of the catalog *)

LEMMA CatalogConstants ==
  /\ KindSeq \in Seq(List!Kinds) /\ Hideable \subseteq List!Kinds /\ Hideable # List!Kinds
  /\ None \notin List!Kinds /\ MaxCatInputs \in Nat
  BY PagesAssumption DEF List!CatalogAssumption

LEMMA CatalogRequestTyped ==
  ASSUME NEW op \in CatalogOps, NEW of \in List!Kinds \cup {None}, catInputs' \in 0..MaxCatInputs,
         op = "create" => of # None
  PROVE  List!Request(op, of) \in List!Call
  BY DEF List!Request, List!Call, CatalogOps

\* Some kind is always offered, and so there is a first one.
LEMMA FallbackOffered ==
  ASSUME NEW known, NEW hidden \in SUBSET Hideable
  PROVE  /\ List!FallbackCreateKind(List!FilterEntityKindsByPlugins(known, hidden)) \in List!Kinds
         /\ List!FilterEntityKindsByPlugins(known, hidden) \subseteq List!Kinds
<1> DEFINE visible == List!FilterEntityKindsByPlugins(known, hidden)
           places == {i \in DOMAIN KindSeq : KindSeq[i] \in visible}
<1>1. /\ visible \subseteq List!Kinds /\ visible # {}
      /\ \A k \in visible : \E i \in DOMAIN KindSeq : KindSeq[i] = k
  BY CatalogConstants DEF List!FilterEntityKindsByPlugins, List!Kinds
<1> HIDE DEF visible
<1>2. places \subseteq Nat /\ places # {} /\ DOMAIN KindSeq = 1..Len(KindSeq) /\ Len(KindSeq) \in Nat
  BY <1>1, CatalogConstants
<1>3. PICK m \in places : \A n \in places : m <= n
  BY <1>2, LeastNumber
<1>4. m \in 1..Len(KindSeq) /\ KindSeq[m] \in visible /\ \A j \in 1..(m - 1) : KindSeq[j] \notin visible
  BY <1>2, <1>3
<1>5. \E k \in visible :
        \E i \in DOMAIN KindSeq :
          KindSeq[i] = k /\ \A j \in 1..(i - 1) : KindSeq[j] \notin visible
  BY <1>2, <1>4
<1>6. List!FallbackCreateKind(visible) \in visible
  BY <1>5, Zenon DEF List!FallbackCreateKind
<1>7. List!FallbackCreateKind(visible) \in List!Kinds
  BY <1>1, <1>6
<1> USE DEF visible
<1> QED BY <1>1, <1>7

LEMMA CatalogTypedInit == List!Init => List!TypeOK
<1> SUFFICES ASSUME List!Init PROVE List!TypeOK
  OBVIOUS
<1>1. /\ catLoading = TRUE /\ catError = FALSE /\ catKnown = FALSE
      /\ catDisabled \subseteq Hideable /\ catHidden = {} /\ catAt = None /\ catList = {}
      /\ catStep = "closed" /\ catKind = KindSeq[1] /\ catChosen = None /\ catInputs = 0
  BY DEF List!Init
<1>2. KindSeq[1] \in List!Kinds
  BY CatalogConstants DEF List!Kinds
<1>3. catCalls \subseteq List!Call
  <2>1. \A op \in {"list", "plugins"} :
          [op |-> op, of |-> None, hidden |-> {}, read |-> FALSE, nr |-> 0] \in List!Call
    BY CatalogConstants DEF List!Call
  <2> QED BY <2>1 DEF List!Init
<1>4. catKind \in List!Kinds /\ catInputs \in 0..MaxCatInputs
  BY <1>1, <1>2, CatalogConstants
<1>5. {catLoading, catError, catKnown} \subseteq BOOLEAN
  BY <1>1
<1> QED BY <1>1, <1>3, <1>4, <1>5 DEF List!TypeOK

LEMMA CatalogTypedNext == ASSUME List!TypeOK, List!Next PROVE List!TypeOK'
<1>1. /\ KindSeq \in Seq(List!Kinds) /\ Hideable \subseteq List!Kinds
      /\ None \notin List!Kinds /\ MaxCatInputs \in Nat
  BY CatalogConstants
<1> USE DEF List!shown, List!known, List!panel
<1>2. ASSUME List!Input PROVE catInputs' \in 0..MaxCatInputs
  BY <1>1, <1>2 DEF List!Input, List!TypeOK
<1>3. List!VisibleKinds \subseteq List!Kinds /\ List!FallbackCreateKind(List!VisibleKinds) \in List!Kinds
  BY FallbackOffered DEF List!VisibleKinds, List!TypeOK
<1>4. CASE List!Navigate
  <2>1. PICK at \in List!Kinds \cup {None} :
          IF at \in catHidden THEN List!LoadList(None, catCalls \cup {List!Request("list", at)})
          ELSE List!LoadList(at, catCalls)
    BY <1>4 DEF List!Navigate
  <2>2. List!Request("list", at) \in List!Call /\ List!Request("list", None) \in List!Call
    BY <1>2, <1>4, CatalogRequestTyped DEF List!Navigate, CatalogOps
  <2>3. catAt' \in List!Kinds \cup {None} /\ catCalls' \subseteq List!Call
    BY <2>1, <2>2 DEF List!LoadList, List!TypeOK
  <2>4. catLoading' = TRUE /\ catError' = FALSE
    BY <2>1 DEF List!LoadList
  <2> QED BY <1>2, <1>4, <2>3, <2>4 DEF List!Navigate, List!TypeOK
<1>5. CASE List!OpenCreate \/ List!CloseCreate \/ List!ChooseKind \/ List!Back
  BY <1>2, <1>3, <1>5
     DEF List!OpenCreate, List!CloseCreate, List!ChooseKind, List!Back, List!Panel, List!TypeOK
<1>6. CASE List!HandleCreate
  <2>1. catInputs' \in 0..MaxCatInputs /\ catKind \in List!Kinds /\ catKind # None
    BY <1>1, <1>2, <1>6 DEF List!HandleCreate, List!Panel, List!TypeOK
  <2>2. List!Request("create", catKind) \in List!Call
    BY <2>1, CatalogRequestTyped DEF CatalogOps
  <2> QED BY <1>6, <2>1, <2>2 DEF List!HandleCreate, List!Panel, List!TypeOK
<1>7. CASE List!PluginChanges
  <2>1. List!Request("plugins", None) \in List!Call
    BY <1>2, <1>7, CatalogRequestTyped DEF List!PluginChanges, CatalogOps
  <2>2. catCalls' \subseteq List!Call /\ catDisabled' \subseteq Hideable
    BY <1>7, <2>1 DEF List!PluginChanges, List!TypeOK
  <2> QED BY <1>2, <1>7, <2>2 DEF List!PluginChanges, List!TypeOK
<1>8. ASSUME NEW c \in catCalls, List!ListPlugins(c) PROVE List!TypeOK'
  <2>1. c \in List!Call
    BY DEF List!TypeOK
  <2>2. [c EXCEPT !.read = TRUE, !.hidden = catDisabled] \in List!Call
    BY <2>1 DEF List!Call, List!TypeOK
  <2> QED BY <1>8, <2>2 DEF List!ListPlugins, List!TypeOK
<1>9. ASSUME NEW c \in catCalls, List!Receive(c) PROVE List!TypeOK'
  <2>1. /\ c.op \in CatalogOps /\ c.of \in List!Kinds \cup {None} /\ c.hidden \in SUBSET Hideable
        /\ c \in List!Call
    BY DEF List!TypeOK, List!Call, CatalogOps
  <2>2. PICK ok \in BOOLEAN : \/ c.op = "list" /\ List!ReceiveList(c, ok)
                              \/ c.op = "plugins" /\ List!ReceivePlugins(c, ok)
                              \/ c.op = "create" /\ List!ReceiveCreate(c, ok)
    BY <1>9, <2>1 DEF List!Receive, CatalogOps
  <2>3. catDisabled' = catDisabled /\ catInputs' = catInputs
    BY <1>9 DEF List!Receive
  <2>4. CASE List!ReceiveList(c, ok)
    <3>1. /\ catList' \subseteq List!Kinds /\ catCalls' \subseteq List!Call
          /\ catError' \in BOOLEAN /\ catLoading' = FALSE
          /\ UNCHANGED <<catAt, catKnown, catHidden, catStep, catKind, catChosen>>
      BY <2>1, <2>4 DEF List!ReceiveList, List!TypeOK
    <3> QED BY <2>3, <3>1 DEF List!TypeOK
  <2>5. CASE c.op = "create" /\ List!ReceiveCreate(c, ok)
    <3>1. c.of \in List!Kinds
      BY <2>1, <2>5 DEF List!Call
    <3>2. CASE ok
      BY <2>3, <2>5, <3>1, <3>2 DEF List!ReceiveCreate, List!TypeOK
    <3>3. CASE ~ok
      <4>1. catError' = TRUE /\ UNCHANGED <<catList, catStep, catAt, catLoading, catKnown, catHidden,
                                            catKind, catChosen>>
        BY <2>5, <3>3 DEF List!ReceiveCreate
      <4>2. {catLoading', catError', catKnown'} \subseteq BOOLEAN
        BY <4>1 DEF List!TypeOK
      <4> QED BY <2>3, <2>5, <4>1, <4>2 DEF List!ReceiveCreate, List!TypeOK
    <3> QED BY <3>2, <3>3
  <2>6. CASE List!ReceivePlugins(c, ok)
    <3>1. CASE ok
      <4> DEFINE visible == List!FilterEntityKindsByPlugins(TRUE, c.hidden)
      <4>1. visible \subseteq List!Kinds /\ List!FallbackCreateKind(visible) \in List!Kinds
        BY <2>1, FallbackOffered
      <4>2. List!ResetCreateKind(visible)
        BY <2>6, <3>1 DEF List!ReceivePlugins
      <4> HIDE DEF visible
      <4>3. /\ catKind' \in List!Kinds /\ catChosen' = catChosen
            /\ catStep' \in {"closed", "kind", "form"}
        BY <4>1, <4>2 DEF List!ResetCreateKind, List!TypeOK
      <4>4. List!Request("list", None) \in List!Call
        BY <2>3, CatalogRequestTyped DEF CatalogOps, List!TypeOK
      <4>5. /\ catCalls' \subseteq List!Call /\ catAt' \in {catAt, None}
            /\ catLoading' \in {catLoading, TRUE} /\ catError' \in {catError, FALSE}
        BY <2>6, <3>1, <4>4
           DEF List!ReceivePlugins, List!LeaveHiddenKind, List!LoadList, List!TypeOK
      <4>6. catKnown' = TRUE /\ catHidden' = c.hidden /\ catList' = catList
        BY <2>6, <3>1 DEF List!ReceivePlugins
      <4>7. {catLoading', catError', catKnown'} \subseteq BOOLEAN
        BY <4>5, <4>6 DEF List!TypeOK
      <4> QED BY <2>1, <2>3, <4>3, <4>5, <4>6, <4>7 DEF List!TypeOK
    <3>2. CASE ~ok
      BY <2>3, <2>6, <3>2 DEF List!ReceivePlugins, List!TypeOK
    <3> QED BY <3>1, <3>2
  <2> QED BY <2>2, <2>4, <2>5, <2>6
<1> QED BY <1>4, <1>5, <1>6, <1>7, <1>8, <1>9, Zenon DEF List!Next

LEMMA CatalogTypedCorrectly == Spec => [](page = "catalog" => List!TypeOK)
<1> DEFINE Inv == page = "catalog" => List!TypeOK
<1>1. Init => Inv
  BY CatalogTypedInit DEF Init
<1>2. List!TypeOK /\ UNCHANGED catVars => List!TypeOK'
  BY DEF List!TypeOK, catVars
<1>3. Inv /\ [Next]_vars => Inv'
  BY <1>2, CatalogStep, CatalogTypedNext
<1> QED BY <1>1, <1>3, PTL DEF Spec

-----------------------------------------------------------------------------
(* The types of the actions *)

LEMMA RunsConstants ==
  /\ MaxActInputs \in Nat /\ Runs!Ids = 1..MaxActInputs /\ 0 \notin Runs!Ids
  BY PagesAssumption DEF Runs!ActionsAssumption, Runs!Ids

LEMMA RunRequestTyped ==
  ASSUME NEW op \in {"list", "config", "execute"}, NEW of \in Actions \cup {None},
         actInputs' \in 0..MaxActInputs
  PROVE  Runs!Request(op, of) \in Runs!Call
  BY RunsConstants DEF Runs!Request, Runs!Call

\* A list maps some actions to their categories.
LEMMA ListsAre ==
  ASSUME NEW l
  PROVE  l \in Runs!Lists
           <=> DOMAIN l \subseteq Actions /\ l \in [DOMAIN l -> Categories \cup {None}]
  BY DEF Runs!Lists, Runs!PartialFunctions

LEMMA EmptyFunction == ASSUME NEW T PROVE <<>> \in [{} -> T]
<1>1. <<>> \in Seq(T) /\ Len(<<>>) = 0
  OBVIOUS
<1>2. <<>> \in [1..0 -> T] /\ 1..0 = {}
  BY <1>1
<1> QED BY <1>2

LEMMA RunsTypedInit == Runs!Init => Runs!TypeOK
<1> SUFFICES ASSUME Runs!Init PROVE Runs!TypeOK
  OBVIOUS
<1>1. /\ actLoading = TRUE /\ actError = FALSE /\ actPollFailed = FALSE
      /\ actList = <<>> /\ actStored \in [Actions -> Categories \cup {None}]
      /\ actRuns = [i \in Runs!Ids |-> "none"] /\ actInputs = 0 /\ actTimer = 0
      /\ actRun = Runs!NoRun /\ actCategory = "all" /\ actExecuting = None /\ actDialog = "none"
      /\ actCan \subseteq {"write", "execute"}
  BY DEF Runs!Init
<1>2. {actStored, actList} \subseteq Runs!Lists
  <2>1. actList \in [{} -> Categories \cup {None}]
    BY <1>1, EmptyFunction
  <2>2. actList \in Runs!Lists
    BY <2>1, ListsAre
  <2> QED BY <1>1, <2>2, ListsAre
<1>3. {actLoading, actError, actPollFailed} \subseteq BOOLEAN
  BY <1>1
<1>4. actCalls \subseteq Runs!Call
  BY RunsConstants DEF Runs!Init, Runs!Call
<1>5. actRuns \in [Runs!Ids -> Runs!Statuses \cup {"none"}]
  BY <1>1
<1>6. actRun \in [id : {0} \cup Runs!Ids, status : Runs!Statuses \cup {"none"}]
  BY <1>1 DEF Runs!NoRun
<1>7. actWindow \in [of : {0} \cup Runs!Ids, by : SUBSET Runs!Ids] /\ actShared \subseteq Runs!Ids
  BY DEF Runs!Init, Runs!Closed
<1> QED BY <1>1, <1>2, <1>3, <1>4, <1>5, <1>6, <1>7, RunsConstants DEF Runs!TypeOK

LEMMA ShowTyped ==
  ASSUME Runs!TypeOK, NEW id \in {0} \cup Runs!Ids, NEW status \in Runs!Statuses \cup {"none"},
         Runs!Show(id, status)
  PROVE  /\ actRun' \in [id : {0} \cup Runs!Ids, status : Runs!Statuses \cup {"none"}]
         /\ actTimer' \in {0} \cup Runs!Ids
         /\ actPollFailed' \in {actPollFailed, FALSE}
  BY DEF Runs!Show, Runs!TypeOK

LEMMA RunsTypedNext == ASSUME Runs!TypeOK, ActionAsks, Runs!Next PROVE Runs!TypeOK'
<1> USE DEF Runs!server, Runs!list, Runs!running, Runs!github
<1>1. ASSUME Runs!Input PROVE actInputs' \in 0..MaxActInputs
  BY <1>1, RunsConstants DEF Runs!Input, Runs!TypeOK
<1>2. CASE Runs!ChooseCategory
  <2>1. actCategory' \in {"all", "uncategorized"} \cup Categories
    BY <1>2 DEF Runs!ChooseCategory, Runs!Chips
  <2> QED BY <1>2, <2>1 DEF Runs!ChooseCategory, Runs!TypeOK
<1>3. CASE Runs!PressCard
  <2>1. Runs!Cards \subseteq Actions
    <3>1. DOMAIN actList \subseteq Actions
      BY ListsAre DEF Runs!TypeOK
    <3>2. \A c : Runs!Of(c) \subseteq DOMAIN actList
      BY DEF Runs!Of
    <3> QED BY <3>1, <3>2 DEF Runs!Cards, Runs!Sections, Runs!Filtered
  <2>2. actExecuting' \in Actions \cup {None} /\ actDialog' \in {"none", "history", "wizard"}
    BY <1>3, <2>1 DEF Runs!PressCard, Runs!TypeOK
  <2> QED BY <1>1, <1>3, <2>2 DEF Runs!PressCard, Runs!TypeOK
<1>4. CASE Runs!NewAction
  BY <1>1, <1>4 DEF Runs!NewAction, Runs!TypeOK
<1>5. CASE Runs!CloseDialog
  BY <1>5 DEF Runs!CloseDialog, Runs!TypeOK
<1>6. CASE Runs!HandleExecute
  <2>1. actCalls' \subseteq Runs!Call
    BY <1>1, <1>6, RunRequestTyped DEF Runs!HandleExecute, Runs!TypeOK
  <2>2. \A c \in Runs!Asking : c.nr \in Runs!Ids
    BY DEF Runs!Asking, Runs!Call, Runs!TypeOK, ActionAsks, ExecutionsAsk, ForGitHub
  <2>3. actInputs' \in Runs!Ids
    BY <1>6, RunsConstants DEF Runs!HandleExecute, Runs!Input, ActionAsks
  <2>4. actShared' \subseteq Runs!Ids
    BY <1>6, <2>2, <2>3 DEF Runs!HandleExecute, Runs!TypeOK
  <2> QED BY <1>1, <1>6, <2>1, <2>4 DEF Runs!HandleExecute, Runs!TypeOK
<1>7. CASE Runs!Poll
  <2>1. actTimer \in Runs!Ids /\ actRuns[actTimer] \in Runs!Statuses \cup {"none"}
    BY <1>7 DEF Runs!Poll, Runs!TypeOK
  <2>2. [op |-> "poll", of |-> None, token |-> 0, id |-> actTimer, got |-> actRuns[actTimer],
         nr |-> 0] \in Runs!Call
    BY <2>1 DEF Runs!Call
  <2> QED BY <1>7, <2>2 DEF Runs!Poll, Runs!TypeOK
<1>8. CASE Runs!CloseRun
  BY <1>8 DEF Runs!CloseRun, Runs!NoRun, Runs!TypeOK
<1>9. CASE Runs!RunGoesOn
  <2>1. actRuns' \in [Runs!Ids -> Runs!Statuses \cup {"none"}]
    BY <1>9 DEF Runs!RunGoesOn, Runs!Terminal, Runs!Statuses, Runs!TypeOK
  <2> QED BY <1>9, <2>1 DEF Runs!RunGoesOn, Runs!TypeOK
<1>10. CASE Runs!HandleWizardSave
  <2>1. actStored' \in Runs!Lists
    BY <1>10, ListsAre DEF Runs!HandleWizardSave, Runs!TypeOK
  <2>2. actCalls' \subseteq Runs!Call
    BY <1>1, <1>10, RunRequestTyped DEF Runs!HandleWizardSave, Runs!TypeOK
  <2>3. actLoading' = TRUE /\ UNCHANGED <<actError, actPollFailed>>
    BY <1>10 DEF Runs!HandleWizardSave
  <2>4. {actLoading', actError', actPollFailed'} \subseteq BOOLEAN
    BY <2>3 DEF Runs!TypeOK
  <2> QED BY <1>1, <1>10, <2>1, <2>2, <2>4 DEF Runs!HandleWizardSave, Runs!TypeOK
<1>11. ASSUME NEW c \in actCalls,
              \/ Runs!ReceiveConfig(c) \/ Runs!PopupEnds(c) \/ Runs!ReceiveMessage(c)
              \/ Runs!ReceiveExecute(c) \/ Runs!ReceivePoll(c) \/ Runs!ReceiveList(c)
       PROVE  Runs!TypeOK'
  <2>1. c \in Runs!Call
    BY DEF Runs!TypeOK
  <2>2. ASSUME NEW d \in actCalls, NEW op \in {"popup", "execute"}, NEW token \in {0} \cup Runs!Ids
        PROVE  Runs!NextStep(d, op, token) \in Runs!Call
    <3>1. d \in Runs!Call
      BY DEF Runs!TypeOK
    <3> QED BY <3>1 DEF Runs!NextStep, Runs!Call
  <2>3. CASE Runs!ReceiveConfig(c) \/ Runs!PopupEnds(c)
    <3>1. actError' \in {actError, TRUE} /\ actCalls' \subseteq Runs!Call
      BY <2>2, <2>3 DEF Runs!ReceiveConfig, Runs!PopupEnds, Runs!Fail, Runs!TypeOK
    <3>2. {actLoading, actError', actPollFailed} \subseteq BOOLEAN
      BY <3>1 DEF Runs!TypeOK
    <3>3. c.op = "config" => c.nr \in Runs!Ids
      BY <2>1 DEF Runs!Call, ActionAsks, ExecutionsAsk, ForGitHub
    <3>4. actWindow' \in [of : {0} \cup Runs!Ids, by : SUBSET Runs!Ids]
      BY <2>3, <3>3 DEF Runs!ReceiveConfig, Runs!PopupEnds, Runs!TypeOK, Runs!Closed
    <3> QED BY <2>3, <3>1, <3>2, <3>4 DEF Runs!ReceiveConfig, Runs!PopupEnds, Runs!TypeOK
  <2>7. CASE Runs!ReceiveMessage(c)
    <3>1. c.token \in {0} \cup Runs!Ids
      BY <2>1 DEF Runs!Call
    <3>2. actCalls' \subseteq Runs!Call
      BY <2>2, <2>7, <3>1 DEF Runs!ReceiveMessage, Runs!TypeOK
    <3>3. {actLoading, actError', actPollFailed} \subseteq BOOLEAN
      BY <2>7 DEF Runs!ReceiveMessage, Runs!TypeOK
    <3>4. actWindow' \in [of : {0} \cup Runs!Ids, by : SUBSET Runs!Ids]
      BY <2>7 DEF Runs!ReceiveMessage, Runs!TypeOK, Runs!Closed
    <3> QED BY <2>7, <3>2, <3>3, <3>4 DEF Runs!ReceiveMessage, Runs!TypeOK
  <2>4. CASE Runs!ReceiveExecute(c)
    <3>1. actError' \in {actError, TRUE} /\ actCalls' \subseteq Runs!Call
      BY <2>4 DEF Runs!ReceiveExecute, Runs!Fail, Runs!TypeOK
    <3>2. /\ actRun' \in [id : {0} \cup Runs!Ids, status : Runs!Statuses \cup {"none"}]
          /\ actTimer' \in {0} \cup Runs!Ids
          /\ actPollFailed' \in {actPollFailed, FALSE}
          /\ actExecuting' \in {actExecuting, None}
      BY <2>4, ShowTyped DEF Runs!ReceiveExecute, Runs!Statuses, Runs!TypeOK
    <3>3. {actLoading, actError', actPollFailed'} \subseteq BOOLEAN
      BY <3>1, <3>2 DEF Runs!TypeOK
    <3>4. actRuns' \in [Runs!Ids -> Runs!Statuses \cup {"none"}]
      BY <2>4 DEF Runs!ReceiveExecute, Runs!Statuses, Runs!TypeOK
    <3> QED BY <2>4, <3>1, <3>2, <3>3, <3>4 DEF Runs!ReceiveExecute, Runs!TypeOK
  <2>5. CASE Runs!ReceivePoll(c)
    <3>1. /\ actRun' \in [id : {0} \cup Runs!Ids, status : Runs!Statuses \cup {"none"}]
          /\ actTimer' \in {0} \cup Runs!Ids
          /\ actPollFailed' \in {actPollFailed, FALSE, TRUE}
      BY <2>1, <2>5, ShowTyped DEF Runs!ReceivePoll, Runs!Call, Runs!TypeOK
    <3>2. {actLoading, actError, actPollFailed'} \subseteq BOOLEAN
      BY <3>1 DEF Runs!TypeOK
    <3> QED BY <2>5, <3>1, <3>2 DEF Runs!ReceivePoll, Runs!TypeOK
  <2>6. CASE Runs!ReceiveList(c)
    <3>1. actError' \in {actError, TRUE} /\ actLoading' = FALSE /\ actList' \in {actList, actStored}
      BY <2>6 DEF Runs!ReceiveList
    <3>2. {actLoading', actError', actPollFailed} \subseteq BOOLEAN
      BY <3>1 DEF Runs!TypeOK
    <3> QED BY <2>6, <3>1, <3>2 DEF Runs!ReceiveList, Runs!TypeOK
  <2> QED BY <1>11, <2>3, <2>4, <2>5, <2>6, <2>7
<1>12. CASE Runs!WindowCloses
  <2>1. actWindow.of \in {0} \cup Runs!Ids
    BY DEF Runs!TypeOK
  <2>2. actCalls' \subseteq Runs!Call
    BY <1>12, <2>1 DEF Runs!WindowCloses, Runs!Call, Runs!TypeOK
  <2>3. actWindow' \in [of : {0} \cup Runs!Ids, by : SUBSET Runs!Ids]
    BY <1>12 DEF Runs!WindowCloses, Runs!Closed
  <2> QED BY <1>12, <2>2, <2>3 DEF Runs!WindowCloses, Runs!TypeOK
<1> QED BY <1>2, <1>3, <1>4, <1>5, <1>6, <1>7, <1>8, <1>9, <1>10, <1>11, <1>12, Zenon
        DEF Runs!Next

LEMMA RunsTypedCorrectly == Spec => [](page = "actions" => Runs!TypeOK)
<1> DEFINE Inv == page = "actions" => Runs!TypeOK
<1>1. Init => Inv
  BY RunsTypedInit DEF Init
<1>2. Runs!TypeOK /\ UNCHANGED actVars => Runs!TypeOK'
  BY DEF Runs!TypeOK, actVars
<1>3. Inv /\ (page = "actions" => RunsInv) /\ [Next]_vars => Inv'
  BY <1>2, RunsStep, RunsTypedNext DEF RunsInv
<1> QED BY <1>1, <1>3, RunsInvariant, PTL DEF Spec

-----------------------------------------------------------------------------
(* The types of the references *)

\* The types, and that no more is sent than is pressed
PickersTypes == References!TypeOK /\ refSent <= refInputs

LEMMA PickersTypesInit == References!Init => PickersTypes
<1> SUFFICES ASSUME References!Init PROVE PickersTypes
  OBVIOUS
<1>1. /\ refText = FALSE /\ refSubmitted = FALSE /\ refRetyped = FALSE
      /\ refRows = <<>> /\ refPickers = <<>> /\ refCache \subseteq RefKinds
      /\ refInflight \in [RefKinds -> {"no", "sent", "failed"}] /\ refSent = 0 /\ refInputs = 0
      /\ MaxRefInputs \in Nat /\ MaxRows \in Nat
  BY PagesAssumption DEF References!Init, References!SchemaFormAssumption
<1>2. /\ refRows \in Seq(References!Row) /\ refPickers \in Seq(References!Picker)
      /\ Len(refRows) = 0 /\ Len(refPickers) = 0
  BY <1>1
<1>3. refText \in BOOLEAN /\ refSubmitted \in BOOLEAN /\ refRetyped \in BOOLEAN
  BY <1>1, Zenon
<1>4. refSent \in 0..MaxRefInputs /\ refInputs \in 0..MaxRefInputs /\ refSent <= refInputs
  BY <1>1
<1>5. Len(refRows) <= MaxRows /\ Len(refPickers) = Len(refRows)
  BY <1>1, <1>2
<1> QED BY <1>1, <1>2, <1>3, <1>4, <1>5 DEF PickersTypes, References!TypeOK

LEMMA DrawnTyped ==
  ASSUME NEW p \in References!Picker, NEW old, NEW new \in References!Row
  PROVE  References!Drawn(p, old, new) \in References!Picker
<1>1. \A n \in References!Names \cup {Blank} : References!NewPicker(n) \in References!Picker
  BY DEF References!NewPicker, References!Picker
<1>2. References!NoPicker \in References!Picker
  BY <1>1 DEF References!NoPicker, References!Picker
<1>3. new.name \in References!Names \cup {Blank}
  BY DEF References!Row
<1>4. [p EXCEPT !.query = new.name] \in References!Picker
  BY <1>3 DEF References!Picker
<1> QED BY <1>1, <1>2, <1>3, <1>4 DEF References!Drawn

LEMMA NoPickerTyped == References!NoPicker \in References!Picker
  BY DEF References!NoPicker, References!NewPicker, References!Picker

\* Rows come, go and change.
LEMMA SetRowsTyped ==
  ASSUME References!TypeOK, NEW rows \in Seq(References!Row), Len(rows) <= MaxRows,
         NEW kept \in Seq(References!Picker), Len(kept) = Len(refRows),
         References!SetRows(rows, kept)
  PROVE  /\ refRows' \in Seq(References!Row) /\ Len(refRows') <= MaxRows
         /\ refPickers' \in Seq(References!Picker) /\ Len(refPickers') = Len(refRows')
         /\ refRetyped' \in BOOLEAN
<1> DEFINE drawn(i) == IF i \in DOMAIN refRows THEN References!Drawn(kept[i], refRows[i], rows[i])
                       ELSE References!Drawn(References!NoPicker, rows[i], rows[i])
<1>1. refRows' = rows /\ refPickers' = [i \in DOMAIN rows |-> drawn(i)]
  BY Zenon DEF References!SetRows
<1>2. \A i \in DOMAIN rows : rows[i] \in References!Row
  OBVIOUS
<1>3. \A i \in DOMAIN refRows : kept[i] \in References!Picker
  BY DEF References!TypeOK
<1>4. \A i \in DOMAIN rows : drawn(i) \in References!Picker
  BY <1>2, <1>3, DrawnTyped, NoPickerTyped
<1> HIDE DEF drawn
<1>5. refPickers' \in Seq(References!Picker) /\ Len(refPickers') = Len(rows)
  BY <1>1, <1>4
<1>6. refRetyped' \in BOOLEAN
  BY Zenon DEF References!SetRows
<1> QED BY <1>1, <1>5, <1>6

LEMMA FormRowsTyped == ASSUME References!TypeOK, References!FormRows PROVE References!TypeOK'
<1>1. /\ refRows \in Seq(References!Row) /\ Len(refRows) <= MaxRows
      /\ refPickers \in Seq(References!Picker) /\ Len(refPickers) = Len(refRows)
  BY DEF References!TypeOK
<1>2. ASSUME NEW rows \in Seq(References!Row), Len(rows) <= MaxRows,
             References!SetRows(rows, refPickers)
      PROVE  References!TypeOK'
  <2>1. /\ refRows' \in Seq(References!Row) /\ Len(refRows') <= MaxRows
        /\ refPickers' \in Seq(References!Picker) /\ Len(refPickers') = Len(refRows')
        /\ refRetyped' \in BOOLEAN
    BY <1>1, <1>2, SetRowsTyped
  <2>2. /\ UNCHANGED <<refText, refCache, refInflight, refSubmitted, refSent>>
        /\ refInputs' = refInputs + 1 /\ refInputs < MaxRefInputs
    BY DEF References!FormRows, References!Input, References!cache
  <2>3. refInputs' \in 0..MaxRefInputs
    BY <2>2, PagesAssumption DEF References!SchemaFormAssumption, References!TypeOK
  <2> QED BY <2>1, <2>2, <2>3 DEF References!TypeOK
<1>3. CASE References!AddItem
  <2> DEFINE r == [kind |-> Blank, name |-> Blank]
             rows == Append(refRows, r)
  <2>1. References!SetRows(rows, refPickers) /\ Len(refRows) < MaxRows /\ MaxRows \in Nat
    BY <1>3, PagesAssumption DEF References!AddItem, References!SchemaFormAssumption
  <2>2. r \in References!Row
    BY DEF References!Row
  <2> HIDE DEF r
  <2>3. rows \in Seq(References!Row) /\ Len(rows) <= MaxRows
    BY <1>1, <2>1, <2>2
  <2> HIDE DEF rows
  <2> QED BY <1>2, <2>1, <2>3
<1>4. ASSUME NEW i \in DOMAIN refRows, References!RemoveItem(i) PROVE References!TypeOK'
  <2> DEFINE rows == References!RemoveAt(refRows, i)
  <2>1. rows \in Seq(References!Row) /\ References!SetRows(rows, refPickers)
    BY <1>1, <1>4, RemovedIsSeq DEF References!RemoveItem
  <2>2. Len(rows) <= MaxRows
    BY <1>1, PagesAssumption DEF References!RemoveAt, References!SchemaFormAssumption
  <2> HIDE DEF rows
  <2> QED BY <1>2, <2>1, <2>2
<1>5. ASSUME NEW i \in DOMAIN refRows, References!ChooseKind(i) PROVE References!TypeOK'
  <2>1. PICK k \in RefKinds \cup {Blank} :
          References!SetRows([refRows EXCEPT ![i] = [kind |-> k, name |-> Blank]], refPickers)
    BY <1>5, Zenon DEF References!ChooseKind
  <2> DEFINE r == [kind |-> k, name |-> Blank]
             rows == [refRows EXCEPT ![i] = r]
  <2>2. r \in References!Row
    BY DEF References!Row
  <2>3. References!SetRows(rows, refPickers)
    BY <2>1
  <2> HIDE DEF r
  <2>4. rows \in Seq(References!Row) /\ Len(rows) <= MaxRows
    BY <1>1, <2>2
  <2> HIDE DEF rows
  <2> QED BY <1>2, <2>3, <2>4
<1> QED BY <1>3, <1>4, <1>5, Zenon DEF References!FormRows

LEMMA PickerTyped ==
  ASSUME References!TypeOK, NEW i \in DOMAIN refRows, References!EntityPicker(i)
  PROVE  References!TypeOK'
<1> DEFINE p == refPickers[i]
<1>1. /\ refRows \in Seq(References!Row) /\ Len(refRows) <= MaxRows
      /\ refPickers \in Seq(References!Picker) /\ Len(refPickers) = Len(refRows)
      /\ p \in References!Picker /\ refRows[i] \in References!Row
      /\ refInflight \in [RefKinds -> {"no", "sent", "failed"}]
  BY DEF References!TypeOK
<1>2. /\ UNCHANGED <<refText, refCache, refSubmitted, refSent>>
      /\ refInputs' \in 0..MaxRefInputs
  BY PagesAssumption DEF References!SchemaFormAssumption, References!EntityPicker,
                         References!Input, References!TypeOK
<1>3. ASSUME refRows' = refRows, refRetyped' = refRetyped, NEW q \in References!Picker,
             refPickers' = [refPickers EXCEPT ![i] = q],
             refInflight' \in [RefKinds -> {"no", "sent", "failed"}]
      PROVE  References!TypeOK'
  <2>1. refPickers' \in Seq(References!Picker) /\ Len(refPickers') = Len(refRows)
    BY <1>1, <1>3
  <2> QED BY <1>2, <1>3, <2>1 DEF References!TypeOK
<1>4. ASSUME NEW n \in References!Names \cup {Blank}, NEW q \in References!Picker,
             NEW kept, kept = [refPickers EXCEPT ![i] = q],
             References!SetRows([refRows EXCEPT ![i].name = n], kept),
             refInflight' = refInflight
      PROVE  References!TypeOK'
  <2> DEFINE r == [refRows[i] EXCEPT !.name = n]
             rows == [refRows EXCEPT ![i].name = n]
  <2>1. r \in References!Row
    BY <1>1 DEF References!Row
  <2>2. rows = [refRows EXCEPT ![i] = r]
    OBVIOUS
  <2> HIDE DEF r, rows
  <2>3. rows \in Seq(References!Row) /\ Len(rows) <= MaxRows
    BY <1>1, <2>1, <2>2
  <2>4. kept \in Seq(References!Picker) /\ Len(kept) = Len(refRows)
    BY <1>1, <1>4
  <2>5. /\ refRows' \in Seq(References!Row) /\ Len(refRows') <= MaxRows
        /\ refPickers' \in Seq(References!Picker) /\ Len(refPickers') = Len(refRows')
        /\ refRetyped' \in BOOLEAN
    BY <1>4, <2>3, <2>4, SetRowsTyped DEF rows
  <2> QED BY <1>2, <1>4, <2>5 DEF References!TypeOK
<1>5. CASE References!Open(i)
  <2> DEFINE o == [p EXCEPT !.open = TRUE]
             q == References!LoadKind(o, refRows[i].kind)
  <2>1. UNCHANGED <<refRows, refRetyped>> /\ refPickers' = [refPickers EXCEPT ![i] = q]
    BY <1>5, Zenon DEF References!Open
  <2>2. o \in References!Picker /\ refRows[i].kind \in RefKinds \cup {Blank}
    BY <1>1 DEF References!Picker, References!Row
  <2>3. refInflight' \in {refInflight, [refInflight EXCEPT ![q.wait] = "sent"]}
    BY <1>5 DEF References!Open
  <2> HIDE DEF o
  <2>4. q \in References!Picker
    BY <2>2 DEF References!LoadKind, References!Picker
  <2> HIDE DEF q
  <2>5. refInflight' \in [RefKinds -> {"no", "sent", "failed"}]
    BY <1>1, <2>3
  <2> QED BY <1>3, <2>1, <2>4, <2>5
<1>6. CASE References!CloseList(i)
  <2>1. [p EXCEPT !.open = FALSE] \in References!Picker
    BY <1>1 DEF References!Picker
  <2> QED BY <1>1, <1>3, <1>6, <2>1 DEF References!CloseList
<1>7. CASE References!Select(i)
  <2>1. PICK n \in References!Filtered(p) :
          References!SetRows([refRows EXCEPT ![i].name = n],
                             [refPickers EXCEPT ![i].query = n, ![i].open = FALSE])
    BY <1>7 DEF References!Select
  <2> DEFINE q == [[p EXCEPT !.query = n] EXCEPT !.open = FALSE]
             kept == [refPickers EXCEPT ![i].query = n, ![i].open = FALSE]
  <2>2. n \in References!Names
    <3>1. p.list \in RefKinds \cup {Blank}
      BY <1>1 DEF References!Picker
    <3> QED BY <2>1, <3>1 DEF References!Filtered, References!Names
  <2>3. kept = [refPickers EXCEPT ![i] = q] /\ q \in References!Picker
    BY <1>1, <2>2 DEF References!Picker
  <2>4. refInflight' = refInflight
    BY <1>7 DEF References!Select
  <2> HIDE DEF q, kept
  <2> QED BY <1>4, <2>1, <2>2, <2>3, <2>4 DEF kept
<1>8. CASE References!Write(i)
  <2>1. PICK n \in References!Names \cup {Blank} :
          References!SetRows([refRows EXCEPT ![i].name = n], [refPickers EXCEPT ![i].query = n])
    BY <1>8 DEF References!Write
  <2> DEFINE q == [p EXCEPT !.query = n]
             kept == [refPickers EXCEPT ![i].query = n]
  <2>2. kept = [refPickers EXCEPT ![i] = q] /\ q \in References!Picker
    BY <1>1 DEF References!Picker
  <2>3. refInflight' = refInflight
    BY <1>8 DEF References!Write
  <2> HIDE DEF q, kept
  <2> QED BY <1>4, <2>1, <2>2, <2>3 DEF kept
<1> QED BY <1>5, <1>6, <1>7, <1>8, Zenon DEF References!EntityPicker

LEMMA PickersTypesNext == ASSUME PickersTypes, References!Next PROVE PickersTypes'
<1>1. MaxRefInputs \in Nat /\ refSent \in 0..MaxRefInputs /\ refInputs \in 0..MaxRefInputs
  BY PagesAssumption DEF References!SchemaFormAssumption, PickersTypes, References!TypeOK
<1>2. CASE References!FormRows
  <2>1. refSent' = refSent /\ refInputs' = refInputs + 1
    BY <1>2 DEF References!FormRows, References!Input
  <2> QED BY <1>1, <1>2, <2>1, FormRowsTyped DEF PickersTypes
<1>3. ASSUME NEW i \in DOMAIN refRows, References!EntityPicker(i) PROVE PickersTypes'
  <2>1. refSent' = refSent /\ refInputs' = refInputs + 1
    BY <1>3 DEF References!EntityPicker, References!Input
  <2> QED BY <1>1, <1>3, <2>1, PickerTyped DEF PickersTypes
<1>4. ASSUME NEW k \in RefKinds, References!AnswerKind(k) PROVE PickersTypes'
  <2>1. PICK done \in BOOLEAN :
          /\ refCache' = IF done THEN refCache \cup {k} ELSE refCache
          /\ refInflight' = [refInflight EXCEPT ![k] = IF done THEN "no" ELSE "failed"]
          /\ refPickers' = [i \in DOMAIN refPickers |->
               IF refPickers[i].wait # k THEN refPickers[i]
               ELSE [refPickers[i] EXCEPT !.wait = Blank, !.list = IF done THEN k ELSE @]]
    BY <1>4 DEF References!AnswerKind
  <2>2. refPickers \in Seq(References!Picker) /\ Len(refPickers) = Len(refRows)
    BY DEF PickersTypes, References!TypeOK
  <2> DEFINE answered(p) == [p EXCEPT !.wait = Blank, !.list = IF done THEN k ELSE @]
  <2>3. \A p \in References!Picker : answered(p) \in References!Picker
    BY DEF References!Picker
  <2>4. refPickers' = [i \in DOMAIN refPickers |->
                         IF refPickers[i].wait # k THEN refPickers[i]
                         ELSE answered(refPickers[i])]
    BY <2>1
  <2> HIDE DEF answered
  <2>5. refPickers' \in Seq(References!Picker) /\ Len(refPickers') = Len(refRows)
    BY <2>2, <2>3, <2>4
  <2>6. refCache' \subseteq RefKinds /\ refInflight' \in [RefKinds -> {"no", "sent", "failed"}]
    BY <2>1 DEF PickersTypes, References!TypeOK
  <2> QED BY <1>4, <2>5, <2>6 DEF References!AnswerKind, PickersTypes, References!TypeOK
<1>5. CASE References!FormField
  BY <1>1, <1>5
     DEF References!FormField, References!Input, References!cache, PickersTypes, References!TypeOK
<1>6. CASE References!HandleSubmit
  BY <1>1, <1>6
     DEF References!HandleSubmit, References!Input, References!cache, PickersTypes,
         References!TypeOK
<1> QED BY <1>2, <1>3, <1>4, <1>5, <1>6 DEF References!Next

LEMMA PickersTypedCorrectly == Spec => [](page = "references" => References!TypeOK)
<1> DEFINE Inv == page = "references" => PickersTypes
<1>1. Init => Inv
  BY PickersTypesInit DEF Init
<1>2. PickersTypes /\ UNCHANGED refVars => PickersTypes'
  BY DEF PickersTypes, References!TypeOK, refVars
<1>3. Inv /\ [Next]_vars => Inv'
  BY <1>2, ReferencesStep, PickersTypesNext
<1>4. Inv => (page = "references" => References!TypeOK)
  BY DEF PickersTypes
<1> QED BY <1>1, <1>3, <1>4, PTL DEF Spec

-----------------------------------------------------------------------------
(* The types of the configuration *)

\* How many names there are
NameCount == Cardinality(RowNames)

LEMMA NamesAreCounted ==
  /\ IsFiniteSet(RowNames) /\ NameCount \in Nat
  /\ Form!Cardinality(RowNames) = NameCount
  /\ MaxFormInputs \in Nat
<1>1. Form!IsFiniteSet(RowNames) /\ MaxFormInputs \in Nat
  BY PagesAssumption DEF Form!FormAssumption
<1>2. IsFiniteSet(RowNames)
  BY <1>1 DEF Form!IsFiniteSet, IsFiniteSet
<1>3. Form!Cardinality(RowNames) = NameCount
  BY DEF Form!Cardinality, Cardinality, NameCount
<1> QED BY <1>1, <1>2, <1>3, FS_CardinalityType DEF NameCount

\* No more rows or items than names, of which no two are the same
LEMMA AsManyAsNames ==
  ASSUME NEW s \in Seq(RowNames), \A i, j \in DOMAIN s : s[i] = s[j] => i = j
  PROVE  Len(s) <= NameCount
<1> DEFINE n == Len(s)
<1>1. n \in Nat /\ s \in [1..n -> RowNames] /\ DOMAIN s = 1..n
  OBVIOUS
<1> HIDE DEF n
<1>2. s \in Injection(1..n, RowNames)
  BY <1>1 DEF Injection, IsInjective
<1>3. Cardinality(1..n) <= Cardinality(RowNames)
  BY <1>2, NamesAreCounted, FS_Injection
<1>4. Cardinality(1..n) = n
  BY <1>1, FS_Interval
<1> QED BY <1>3, <1>4 DEF n, NameCount

\* There are no more rows than names, of which any may be open, and one that has gone.
RowsFit ==
  /\ Len(formStored) <= NameCount /\ Len(formRows) <= NameCount
  /\ Len(formSave.rows) <= NameCount
  /\ formOpen \subseteq 1..(NameCount + 1)

\* No item comes twice.
DistinctItems(s) == s \in Seq(RowNames) /\ \A i, j \in DOMAIN s : s[i] = s[j] => i = j

\* An item that is dragged is one of the list.
ItemsTypedOnce ==
  /\ DistinctItems(formItems)
  /\ formNew \in RowNames \cup {Blank}
  /\ formDrag \in {0} \cup DOMAIN formItems

FormFlags ==
  /\ formOn \in BOOLEAN /\ formShifted \in BOOLEAN
  /\ formRoles \in {"asked", "loaded", "builtin"}
  /\ formSave.phase \in {"idle", "sent", "answered"}
  /\ formInputs \in 0..MaxFormInputs

FormFits == RowsFit /\ ItemsTypedOnce /\ FormFlags

FormTypes == FormInv /\ FormFits

LEMMA FormTypeOK == FormTypes => Form!TypeOK
<1> SUFFICES ASSUME FormTypes PROVE Form!TypeOK
  OBVIOUS
<1>1. Len(formItems) <= NameCount /\ DOMAIN formItems = 1..Len(formItems)
  BY AsManyAsNames DEF FormTypes, FormFits, ItemsTypedOnce, DistinctItems
<1>2. formDrag \in 0..NameCount
  BY <1>1, NamesAreCounted DEF FormTypes, FormFits, ItemsTypedOnce
<1> QED BY <1>2, NamesAreCounted
        DEF FormTypes, FormInv, FormTyped, FormFits, RowsFit, ItemsTypedOnce, DistinctItems,
            FormFlags, Form!TypeOK, Form!IsInjective

LEMMA FormTypesInit == Form!Init => FormTypes
<1> SUFFICES ASSUME Form!Init PROVE FormTypes
  OBVIOUS
<1>1. /\ formOpen = {1} /\ formItems = <<>> /\ formNew = Blank /\ formDrag = 0
      /\ formOn \in BOOLEAN /\ formRoles \in {"asked", "builtin"}
      /\ formSave = [rows |-> <<>>, phase |-> "idle"] /\ formShifted = FALSE /\ formInputs = 0
      /\ formRows = Form!RedactSecretValues(formStored)
  BY DEF Form!Init, Form!NotSaving
<1>2. Len(FirstRows) <= NameCount
  BY FormConstants, AsManyAsNames
<1>3. Len(formStored) <= NameCount
  <2>1. PICK n \in 0..Len(FirstRows) :
          formStored = [i \in 1..n |-> [id |-> FirstRows[i], secret |-> FirstRows[i]]]
    BY DEF Form!Init
  <2>2. Len(formStored) = n /\ n <= Len(FirstRows) /\ Len(FirstRows) \in Nat /\ n \in Nat
    BY <2>1, FormConstants
  <2> QED BY <1>2, <2>2, NamesAreCounted
<1>4. Len(formRows) = Len(formStored)
  BY <1>1 DEF Form!RedactSecretValues
<1>5. RowsFit
  BY <1>1, <1>3, <1>4, NamesAreCounted DEF RowsFit
<1>6. ItemsTypedOnce
  BY <1>1 DEF ItemsTypedOnce, DistinctItems
<1>7. formShifted \in BOOLEAN
  BY <1>1, Zenon
<1>8. FormFlags
  BY <1>1, <1>7, NamesAreCounted DEF FormFlags
<1> QED BY <1>5, <1>6, <1>8, FormInit DEF FormTypes, FormFits

LEMMA PressCounts == ASSUME FormFlags, Form!Input PROVE formInputs' \in 0..MaxFormInputs
  BY NamesAreCounted DEF FormFlags, Form!Input

\* Where the rows do not change
LEMMA RowsFitStill ==
  ASSUME RowsFit, UNCHANGED <<formStored, formRows, formOpen>>,
         formSave'.rows \in {formSave.rows, formRows, <<>>}
  PROVE  RowsFit'
  BY NamesAreCounted DEF RowsFit

\* What is done to the rows of the form
LEMMA RowsStillFit ==
  ASSUME FormTypes, Form!ArrayObjectField PROVE FormFits'
<1>1. /\ formRows \in Seq(Form!Row) /\ formOpen \subseteq 1..(NameCount + 1)
      /\ Len(formRows) \in Nat /\ Len(formRows) <= NameCount /\ NameCount \in Nat
      /\ DOMAIN formRows = 1..Len(formRows)
  BY NamesAreCounted DEF FormTypes, FormFits, FormInv, FormTyped, RowsFit
<1>2. /\ UNCHANGED <<formStored, formRoles, formSave, formItems, formNew, formDrag, formOn>>
      /\ formInputs' \in 0..MaxFormInputs
  BY PressCounts DEF Form!ArrayObjectField, Form!OnlyRows, Form!Press, Form!Rest, FormTypes, FormFits
<1>3. /\ Len(formRows') <= NameCount /\ formOpen' \subseteq 1..(NameCount + 1)
      /\ formShifted' \in BOOLEAN
  <2>1. CASE Form!AddRow
    <3>0. PICK id : formRows' = Append(formRows, [id |-> id, secret |-> Blank])
      BY <2>1 DEF Form!AddRow
    <3>1. /\ Len(formRows) < NameCount /\ formShifted' = formShifted
          /\ formOpen' = formOpen \cup {Len(formRows) + 1}
      BY <2>1, NamesAreCounted DEF Form!AddRow
    <3>2. Len(formRows') = Len(formRows) + 1
      BY <1>1, <3>0
    <3>3. Len(formRows) + 1 \in 1..(NameCount + 1) /\ Len(formRows') <= NameCount
      BY <1>1, <3>1, <3>2
    <3>4. formOpen' \subseteq 1..(NameCount + 1)
      BY <1>1, <3>1, <3>3
    <3>5. formShifted' \in BOOLEAN
      BY <3>1, Zenon DEF FormTypes, FormFits, FormFlags
    <3> QED BY <3>3, <3>4, <3>5
  <2>2. ASSUME NEW i \in DOMAIN formRows, Form!RemoveRow(i)
        PROVE  /\ Len(formRows') <= NameCount /\ formOpen' \subseteq 1..(NameCount + 1)
               /\ formShifted' \in BOOLEAN
    <3>1. Len(formRows') = Len(formRows) - 1
      BY <1>1, <2>2, WithoutRow DEF Form!RemoveRow
    <3>2. formOpen' = {v \in formOpen : v < i} \cup {v - 1 : v \in {w \in formOpen : w > i}}
      BY <2>2 DEF Form!RemoveRow
    <3>3. \A w \in formOpen : w > i => w - 1 \in 1..(NameCount + 1)
      BY <1>1
    <3>4. formOpen' \subseteq 1..(NameCount + 1)
      BY <1>1, <3>2, <3>3
    <3>5. formShifted' \in BOOLEAN
      BY <2>2, Zenon DEF Form!RemoveRow
    <3> QED BY <1>1, <3>1, <3>4, <3>5
  <2>3. ASSUME NEW i \in DOMAIN formRows, Form!ToggleExpand(i)
        PROVE  /\ Len(formRows') <= NameCount /\ formOpen' \subseteq 1..(NameCount + 1)
               /\ formShifted' \in BOOLEAN
    <3>1. formRows' = formRows /\ formShifted' = formShifted
          /\ formOpen' \in {formOpen \ {i}, formOpen \cup {i}}
      BY <2>3 DEF Form!ToggleExpand
    <3>2. formShifted' \in BOOLEAN
      BY <3>1, Zenon DEF FormTypes, FormFits, FormFlags
    <3> QED BY <1>1, <3>1, <3>2
  <2>4. ASSUME NEW i \in DOMAIN formRows, Form!UpdateField(i)
        PROVE  /\ Len(formRows') <= NameCount /\ formOpen' \subseteq 1..(NameCount + 1)
               /\ formShifted' \in BOOLEAN
    <3>1. \E s : formRows' = [formRows EXCEPT ![i].secret = s]
      BY <2>4, Zenon DEF Form!UpdateField
    <3>2. Len(formRows') = Len(formRows)
      BY <1>1, <3>1
    <3> QED BY <1>1, <2>4, <3>2 DEF Form!UpdateField, FormTypes, FormFits, FormFlags
  <2> QED BY <2>1, <2>2, <2>3, <2>4 DEF Form!ArrayObjectField
<1>4. RowsFit'
  BY <1>2, <1>3 DEF FormTypes, FormFits, RowsFit
<1>5. ItemsTypedOnce'
  BY <1>2 DEF FormTypes, FormFits, ItemsTypedOnce
<1>6. FormFlags'
  BY <1>2, <1>3 DEF FormTypes, FormFits, FormFlags
<1> QED BY <1>4, <1>5, <1>6 DEF FormFits

\* No item comes twice when one goes or moves.
LEMMA ItemGone ==
  ASSUME NEW s, DistinctItems(s), NEW i \in DOMAIN s
  PROVE  DistinctItems(Form!RemoveAt(s, i))
<1> DEFINE t == Form!RemoveAt(s, i)
           was(j) == IF j < i THEN j ELSE j + 1
<1>1. /\ s \in Seq(RowNames) /\ Len(s) \in Nat /\ DOMAIN s = 1..Len(s) /\ i \in 1..Len(s)
      /\ \A j, k \in DOMAIN s : s[j] = s[k] => j = k
  BY DEF DistinctItems
<1>2. t = Board!RemoveAt(s, i)
  BY DEF Form!RemoveAt, Board!RemoveAt
<1> HIDE DEF t
<1>3. /\ t \in Seq(RowNames) /\ Len(t) = Len(s) - 1
      /\ \A j \in 1..(Len(s) - 1) : t[j] = IF j < i THEN s[j] ELSE s[j + 1]
  BY <1>1, <1>2, RowGone
<1>4. DOMAIN t = 1..(Len(s) - 1) /\ \A j \in 1..(Len(s) - 1) : t[j] = s[was(j)]
  BY <1>3
<1>5. \A j, k \in 1..(Len(s) - 1) : /\ was(j) \in DOMAIN s
                                    /\ was(j) = was(k) => j = k
  BY <1>1
<1> HIDE DEF was
<1>6. \A j, k \in DOMAIN t : t[j] = t[k] => j = k
  BY <1>1, <1>4, <1>5
<1> QED BY <1>3, <1>6 DEF t, DistinctItems

LEMMA ItemMoved ==
  ASSUME NEW s, DistinctItems(s), NEW from \in DOMAIN s, NEW to \in DOMAIN s
  PROVE  DistinctItems(Form!Moved(s, from, to))
<1> DEFINE t == Form!Moved(s, from, to)
<1>1. /\ s \in Seq(RowNames) /\ Len(s) \in Nat /\ DOMAIN s = 1..Len(s)
      /\ from \in 1..Len(s) /\ to \in 1..Len(s)
      /\ \A j, k \in DOMAIN s : s[j] = s[k] => j = k
  BY DEF DistinctItems
<1>2. t = Board!ReorderArr(s, from, to)
  BY DEF Form!Moved, Form!InsertAt, Form!RemoveAt, Board!ReorderArr, Board!InsertAt,
         Board!RemoveAt
<1> HIDE DEF t
<1>3. /\ t \in Seq(RowNames) /\ Len(t) = Len(s)
      /\ \A j \in 1..Len(s) : t[j] = s[CameFrom(j, from, to)]
  BY <1>1, <1>2, RowMoved
<1>4. \A j \in 1..Len(s) : /\ CameFrom(j, from, to) \in 1..Len(s)
                           /\ MovedTo(CameFrom(j, from, to), from, to) = j
  BY <1>1, MovedAndBack
<1>5. \A j, k \in 1..Len(s) : CameFrom(j, from, to) = CameFrom(k, from, to) => j = k
  BY <1>4
<1>6. DOMAIN t = 1..Len(s)
  BY <1>1, <1>3
<1>7. \A j, k \in DOMAIN t : t[j] = t[k] => j = k
  BY <1>1, <1>3, <1>4, <1>5, <1>6
<1> QED BY <1>3, <1>7 DEF t, DistinctItems

LEMMA ItemAdded ==
  ASSUME NEW s, DistinctItems(s), NEW e \in RowNames, \A i \in DOMAIN s : s[i] # e
  PROVE  DistinctItems(Append(s, e))
<1> DEFINE t == Append(s, e)
<1>1. /\ s \in Seq(RowNames) /\ Len(s) \in Nat /\ DOMAIN s = 1..Len(s)
      /\ \A i, j \in DOMAIN s : s[i] = s[j] => i = j
  BY DEF DistinctItems
<1>2. /\ t \in Seq(RowNames) /\ DOMAIN t = 1..(Len(s) + 1) /\ t[Len(s) + 1] = e
      /\ \A i \in DOMAIN s : t[i] = s[i]
  BY <1>1
<1>3. \A i \in DOMAIN t : i \in DOMAIN s \/ i = Len(s) + 1
  BY <1>1, <1>2
<1> HIDE DEF t
<1>4. \A i, j \in DOMAIN t : t[i] = t[j] => i = j
  BY <1>1, <1>2, <1>3
<1> QED BY <1>2, <1>4 DEF t, DistinctItems

\* What is done to the items
LEMMA ItemsStillTyped == ASSUME FormTypes, Form!StringArraySortField PROVE FormFits'
<1>1. /\ UNCHANGED <<formStored, formRows, formOpen, formSave>>
      /\ UNCHANGED <<formRoles, formOn, formShifted>>
  BY DEF Form!StringArraySortField, Form!OnlyItems, Form!Rest
<1>2. /\ DistinctItems(formItems) /\ formNew \in RowNames \cup {Blank}
      /\ formDrag \in {0} \cup DOMAIN formItems
  BY DEF FormTypes, FormFits, ItemsTypedOnce
<1>3. formInputs' = formInputs \/ Form!Input
  BY DEF Form!StringArraySortField, Form!DragItem, Form!Press
<1>4. formInputs' \in 0..MaxFormInputs
  BY <1>3, PressCounts DEF FormTypes, FormFits, FormFlags
<1>5. FormFlags'
  BY <1>1, <1>4 DEF FormTypes, FormFits, FormFlags
<1>6. RowsFit'
  BY <1>1 DEF FormTypes, FormFits, RowsFit
<1>7. ASSUME NEW from \in DOMAIN formItems, NEW to \in DOMAIN formItems, Form!MoveItem(from, to)
      PROVE  DistinctItems(formItems') /\ formNew' = formNew
  BY <1>2, <1>7, ItemMoved DEF Form!MoveItem
<1>8. CASE formDrag = 0 /\ formDrag' \in DOMAIN formItems /\ UNCHANGED <<formItems, formNew>>
  <2>1. ItemsTypedOnce'
    BY <1>2, <1>8 DEF ItemsTypedOnce
  <2> QED BY <1>5, <1>6, <2>1 DEF FormFits
<1>9. CASE /\ formDrag # 0 /\ formDrag' = 0
           /\ \/ \E to \in DOMAIN formItems : Form!MoveItem(formDrag, to)
              \/ UNCHANGED <<formItems, formNew>>
  <2>1. DistinctItems(formItems') /\ formNew' = formNew
    BY <1>2, <1>7, <1>9
  <2> QED BY <1>2, <1>5, <1>6, <1>9, <2>1 DEF ItemsTypedOnce, FormFits
<1>10. CASE /\ formDrag = 0 /\ formDrag' = formDrag
            /\ Form!TypeItem \/ Form!AddItem \/ \E i \in DOMAIN formItems : Form!ItemButtons(i)
  <2>1. DistinctItems(formItems') /\ formNew' \in RowNames \cup {Blank}
    <3>1. CASE Form!TypeItem
      BY <1>2, <3>1 DEF Form!TypeItem
    <3>2. CASE Form!AddItem
      BY <1>2, <3>2, ItemAdded DEF Form!AddItem
    <3>3. ASSUME NEW i \in DOMAIN formItems, Form!ItemButtons(i)
          PROVE  DistinctItems(formItems') /\ formNew' = formNew
      <4>1. Len(formItems) \in Nat /\ DOMAIN formItems = 1..Len(formItems)
        BY <1>2 DEF DistinctItems
      <4>2. CASE Form!RemoveItem(i)
        BY <1>2, <4>2, ItemGone DEF Form!RemoveItem
      <4>3. CASE i > 1 /\ Form!MoveItem(i, i - 1)
        <5>1. i - 1 \in DOMAIN formItems
          BY <4>1, <4>3
        <5> QED BY <1>7, <4>3, <5>1
      <4>4. CASE i < Len(formItems) /\ Form!MoveItem(i, i + 1)
        <5>1. i + 1 \in DOMAIN formItems
          BY <4>1, <4>4
        <5> QED BY <1>7, <4>4, <5>1
      <4> QED BY <3>3, <4>2, <4>3, <4>4 DEF Form!ItemButtons
    <3> QED BY <1>2, <1>10, <3>1, <3>2, <3>3
  <2> QED BY <1>5, <1>6, <1>10, <2>1 DEF ItemsTypedOnce, FormFits
<1> QED BY <1>8, <1>9, <1>10, Zenon DEF Form!StringArraySortField, Form!DragItem, Form!Press

LEMMA FormTypesNext == ASSUME FormTypes, Form!Next PROVE FormTypes'
<1>1. SUFFICES FormFits'
  BY FormNext DEF FormTypes
<1>2. /\ formStored \in Seq(Form!Row) /\ formSave.rows \in Seq(Form!Row)
      /\ Len(formStored) <= NameCount /\ Len(formSave.rows) <= NameCount
      /\ {"rows", "phase"} \subseteq DOMAIN formSave
  BY DEF FormTypes, FormFits, FormInv, FormTyped, RowsFit
<1>3. ASSUME NEW f \in Form!ShownFields, Form!ConfigField(f)
      PROVE  FormFits'
  <2>1. CASE /\ formOn' = ~formOn /\ Form!Press
             /\ Form!Rest(<<formRows, formOpen, formItems, formNew, formDrag, formShifted>>)
    <3>1. /\ UNCHANGED <<formStored, formRows, formOpen, formSave, formItems, formNew, formDrag>>
          /\ UNCHANGED <<formRoles, formShifted>>
          /\ formInputs' \in 0..MaxFormInputs
      BY <2>1, PressCounts DEF Form!Press, Form!Rest, FormTypes, FormFits
    <3>2. formOn' \in BOOLEAN
      BY <2>1, Zenon
    <3> QED BY <3>1, <3>2 DEF FormTypes, FormFits, RowsFit, ItemsTypedOnce, FormFlags
  <2> QED BY <1>3, <2>1, RowsStillFit, ItemsStillTyped, Zenon DEF Form!ConfigField
<1>4. CASE Form!AnswerRoles
  BY <1>4 DEF Form!AnswerRoles, FormTypes, FormFits, RowsFit, ItemsTypedOnce, FormFlags
<1>5. CASE Form!HandleSave
  <2>1. /\ UNCHANGED <<formStored, formRows, formOpen, formItems, formNew, formDrag>>
        /\ UNCHANGED <<formOn, formRoles, formShifted>>
        /\ formSave' = [rows |-> formRows, phase |-> "sent"]
        /\ formInputs' \in 0..MaxFormInputs
    BY <1>5, PressCounts DEF Form!HandleSave, Form!Press, FormTypes, FormFits
  <2> QED BY <2>1 DEF FormTypes, FormFits, RowsFit, ItemsTypedOnce, FormFlags
<1>6. CASE Form!UpdatePluginConfig
  <2>1. /\ UNCHANGED <<formRows, formOpen, formItems, formNew, formDrag>>
        /\ UNCHANGED <<formOn, formRoles, formShifted, formInputs>>
        /\ formSave'.rows = formSave.rows /\ formSave'.phase = "answered"
    BY <1>2, <1>6 DEF Form!UpdatePluginConfig
  <2>2. Len(Form!PreserveSecretValues(formStored, formSave.rows)) = Len(formSave.rows)
    BY <1>2 DEF Form!PreserveSecretValues
  <2>3. Len(formStored') <= NameCount
    BY <1>2, <1>6, <2>2 DEF Form!UpdatePluginConfig
  <2> QED BY <2>1, <2>3 DEF FormTypes, FormFits, RowsFit, ItemsTypedOnce, FormFlags
<1>7. CASE Form!SaveAnswered
  <2>1. /\ UNCHANGED <<formStored, formRows, formOpen, formItems, formNew, formDrag>>
        /\ UNCHANGED <<formOn, formRoles, formShifted, formInputs>>
        /\ formSave' = [rows |-> <<>>, phase |-> "idle"]
    BY <1>7 DEF Form!SaveAnswered, Form!NotSaving
  <2> QED BY <2>1, NamesAreCounted DEF FormTypes, FormFits, RowsFit, ItemsTypedOnce, FormFlags
<1>8. CASE Form!Reopen
  <2>1. /\ UNCHANGED <<formStored, formDrag, formOn, formRoles, formSave>>
        /\ formRows' = Form!RedactSecretValues(formStored) /\ formOpen' = {1}
        /\ formItems' = <<>> /\ formNew' = Blank /\ formDrag = 0
        /\ formInputs' \in 0..MaxFormInputs
    BY <1>8, PressCounts DEF Form!Reopen, Form!Press, FormTypes, FormFits
  <2>2. Len(formRows') = Len(formStored)
    BY <1>2, <2>1 DEF Form!RedactSecretValues
  <2>3. formShifted' \in BOOLEAN
    BY <1>8, Zenon DEF Form!Reopen
  <2>4. RowsFit'
    BY <1>2, <2>1, <2>2, NamesAreCounted DEF FormTypes, FormFits, RowsFit
  <2>5. ItemsTypedOnce'
    BY <2>1 DEF ItemsTypedOnce, DistinctItems
  <2>6. FormFlags'
    BY <2>1, <2>3 DEF FormTypes, FormFits, FormFlags
  <2> QED BY <2>4, <2>5, <2>6 DEF FormFits
<1> QED BY <1>3, <1>4, <1>5, <1>6, <1>7, <1>8, Zenon DEF Form!Next

LEMMA FormTypedCorrectly == Spec => [](page = "form" => Form!TypeOK)
<1> DEFINE Inv == page = "form" => FormTypes
<1>1. Init => Inv
  BY FormTypesInit DEF Init
<1>2. FormTypes /\ UNCHANGED formVars => FormTypes'
  BY FormStutter DEF FormTypes, FormFits, RowsFit, ItemsTypedOnce, FormFlags, formVars
<1>3. Inv /\ [Next]_vars => Inv'
  BY <1>2, FormStep, FormTypesNext
<1>4. Inv => (page = "form" => Form!TypeOK)
  BY FormTypeOK
<1> QED BY <1>1, <1>3, <1>4, PTL DEF Spec
=============================================================================
