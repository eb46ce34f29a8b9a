----------------------------- MODULE EntityPage ------------------------------
(***************************************************************************)
(* The page of one entity (web/src/pages/EntityDetail.tsx): the address    *)
(* names the entity, the page loads and shows it, edits it in a panel,     *)
(* deletes it, and loads its graph, its APIs and its health as they are    *)
(* wanted.  The page stays the same one when the address turns from one    *)
(* entity to another, and no answer is dropped for coming late.            *)
(***************************************************************************)
EXTENDS Naturals, FiniteSets

CONSTANTS
  Names,         \* names of entities of one kind
  Clean,         \* sanitizeEntityName: the valid name of each
  Dependent,     \* annotations with a field that need the annotation they belong to
  Others,        \* annotations without a field
  None,          \* no entity, no address
  MaxEntInputs   \* bound: what the user does, and ticks of the health check

Parents == DOMAIN Dependent
Fields  == Parents \cup UNION {Dependent[p] : p \in Parents}

EntityAssumption ==
  /\ Clean \in [Names -> Names] /\ \A n \in Names : Clean[Clean[n]] = Clean[n]
  /\ \A p, q \in Parents : /\ Dependent[p] \cap Parents = {}
                           /\ p # q => Dependent[p] \cap Dependent[q] = {}
  /\ Fields \cap Others = {}
  /\ None \notin Names
  /\ MaxEntInputs \in Nat

VARIABLES
  entServer,   \* the annotations of the entities there are
  entAt,       \* the name in the address; none is another page
  entShown,    \* entity
  entLoading, entError,
  entTab,
  entGraph,    \* the entity whose graph has been loaded
  entApis,     \* the entity whose APIs have been loaded
  entHealth,   \* the entity whose health is known
  entEditing, entAsking,  \* editing, showDelete
  entForm,     \* editMeta: the name, and the annotations whose field is not blank
  entCalls,    \* requests that have not been answered
  entCrossed,  \* history: has the address changed while the page waited?
  entInputs

entVars == <<entServer, entAt, entShown, entLoading, entError, entTab, entGraph, entApis,
             entHealth, entEditing, entAsking, entForm, entCalls, entCrossed, entInputs>>

aside   == <<entGraph, entApis, entHealth>>
dialogs == <<entEditing, entAsking, entForm>>

Annotations == Fields \cup Others
Entity      == [name : Names, annotations : SUBSET Annotations]
NoEntity    == [name |-> None, annotations |-> {}]
NoForm      == [name |-> None, filled |-> {}]
Tabs        == {"overview", "relationships", "apis", "yaml"}

\* for: the name in the address when it was sent; with: the entity sent, or answered;
\* shown: the entity the page showed; live: is it still that page?
Call == [op : {"load", "update", "delete", "graph", "apis", "health"}, for : Names,
         with : Entity \cup {NoEntity}, shown : Names \cup {None}, live : BOOLEAN,
         phase : {"sent", "ok", "no"}]

Request(op, n, body) ==
  [op |-> op, for |-> n, with |-> body, shown |-> entShown.name, live |-> TRUE,
   phase |-> "sent"]

Ask(call) == entCalls' = entCalls \cup {call}

Input == entInputs < MaxEntInputs /\ entInputs' = entInputs + 1

Underway(ops) == {c \in entCalls : c.live /\ c.op \in ops}

Init ==
  /\ \E known \in SUBSET Names : entServer = [n \in known |-> Annotations]
  /\ entAt = None /\ entShown = NoEntity
  /\ entLoading = TRUE /\ entError = FALSE
  /\ entTab = "overview"
  /\ entGraph = None /\ entApis = None /\ entHealth = None
  /\ entEditing = FALSE /\ entAsking = FALSE /\ entForm = NoForm
  /\ entCalls = {}
  /\ entCrossed = FALSE
  /\ entInputs = 0

-----------------------------------------------------------------------------
(* The address *)

\* The effect of a new address: everything but the health, the error and the
\* dialogs starts anew.
LoadEntity(n, calls) ==
  /\ entAt' = n
  /\ entTab' = "overview" /\ entGraph' = None /\ entApis' = None
  /\ entLoading' = TRUE
  /\ entCalls' = calls \cup {Request("load", n, NoEntity)}
  /\ entCrossed' = (entCrossed \/ \E c \in calls : c.live)

\* The page is left, and what it waited for is lost on it.
Leave(calls) ==
  /\ entAt' = None /\ entShown' = NoEntity /\ entLoading' = TRUE /\ entError' = FALSE
  /\ entTab' = "overview" /\ entGraph' = None /\ entApis' = None /\ entHealth' = None
  /\ entEditing' = FALSE /\ entAsking' = FALSE /\ entForm' = NoForm
  /\ entCalls' = {[c EXCEPT !.live = FALSE] : c \in calls}
  /\ UNCHANGED entCrossed

\* By a link, or back and forward, which nothing on the page prevents
Navigate ==
  /\ Input /\ UNCHANGED entServer
  /\ \/ \E n \in Names \ {entAt} :
          LoadEntity(n, entCalls) /\ UNCHANGED <<entShown, entError, entHealth, dialogs>>
     \/ entAt # None /\ Leave(entCalls)

-----------------------------------------------------------------------------
(* What can be done on the page *)

Shown == entAt # None /\ ~entLoading /\ ~entError /\ entShown # NoEntity
Page  == Shown /\ ~entEditing /\ ~entAsking

\* The effects of the two tabs that load something
OpenTab(tab) ==
  /\ Page /\ tab # entTab /\ Input
  /\ entTab' = tab
  /\ \/ tab = "relationships" /\ entGraph = None /\ Ask(Request("graph", entAt, NoEntity))
     \/ tab = "apis" /\ entApis = None /\ Ask(Request("apis", entAt, NoEntity))
     \/ /\ tab = "relationships" => entGraph # None
        /\ tab = "apis" => entApis # None
        /\ UNCHANGED entCalls
  /\ UNCHANGED <<entServer, entAt, entShown, entLoading, entError, aside, dialogs,
                 entCrossed>>

\* By the button, or every half minute
CheckHealth ==
  /\ Shown /\ Underway({"health"}) = {} /\ Input
  /\ Ask(Request("health", entAt, NoEntity))
  /\ UNCHANGED <<entServer, entAt, entShown, entLoading, entError, entTab, aside, dialogs,
                 entCrossed>>

\* A name that is not valid is made so.
OpenEdit ==
  /\ Page /\ Input
  /\ entForm' = [name |-> Clean[entShown.name],
                 filled |-> entShown.annotations \cap Fields]
  /\ entEditing' = TRUE
  /\ UNCHANGED <<entServer, entAt, entShown, entLoading, entError, entTab, aside,
                 entAsking, entCalls, entCrossed>>

EditMeta ==
  /\ Shown /\ entEditing /\ Input
  /\ \/ \E n \in {Clean[m] : m \in Names} \cup {None} : entForm' = [entForm EXCEPT !.name = n]
     \/ \E a \in Fields : entForm' = [entForm EXCEPT !.filled =
                                        IF a \in @ THEN @ \ {a} ELSE @ \cup {a}]
  /\ entForm' # entForm
  /\ UNCHANGED <<entServer, entAt, entShown, entLoading, entError, entTab, aside,
                 entEditing, entAsking, entCalls, entCrossed>>

CloseDialog ==
  /\ Shown /\ (entEditing \/ entAsking) /\ Input
  /\ entEditing' = FALSE /\ entAsking' = FALSE
  /\ UNCHANGED <<entServer, entAt, entShown, entLoading, entError, entTab, aside, entForm,
                 entCalls, entCrossed>>

\* Faulty: the annotations are those of the form
MergedFields(annotations, filled) ==
  (Parents \cap filled) \cup (filled \cap UNION {Dependent[p] : p \in Parents \cap filled})

\* Those without a field stay; those with one are as the form has them, if the one
\* they belong to is there.
Merged(annotations, filled) ==
  (annotations \ Fields) \cup (Parents \cap filled)
    \cup (filled \cap UNION {Dependent[p] : p \in Parents \cap filled})

\* Nothing keeps the button from being pressed again before the answer.
HandleUpdate ==
  /\ Shown /\ entEditing /\ Input
  /\ Ask(Request("update", entAt,
           [name |-> IF entForm.name = None THEN entShown.name ELSE entForm.name,
            annotations |-> Merged(entShown.annotations, entForm.filled)]))
  /\ UNCHANGED <<entServer, entAt, entShown, entLoading, entError, entTab, aside, dialogs,
                 entCrossed>>

AskDelete ==
  /\ Page /\ Input
  /\ entAsking' = TRUE
  /\ UNCHANGED <<entServer, entAt, entShown, entLoading, entError, entTab, aside,
                 entEditing, entForm, entCalls, entCrossed>>

HandleDelete ==
  /\ Shown /\ entAsking /\ Input
  /\ Ask(Request("delete", entAt, NoEntity))
  /\ UNCHANGED <<entServer, entAt, entShown, entLoading, entError, entTab, aside, dialogs,
                 entCrossed>>

-----------------------------------------------------------------------------
(* The server *)

Known(n) == n \in DOMAIN entServer

Stored(n) == [name |-> n, annotations |-> entServer[n]]

\* An entity is renamed to a valid name that no other has.
UpdateEntity(c) ==
  LET new  == c.with.name
      rest == DOMAIN entServer \ {c.for}
  IN  /\ Known(c.for) /\ new = Clean[new] /\ new \notin rest
      /\ entServer' = [n \in rest \cup {new} |->
                         IF n = new THEN c.with.annotations ELSE entServer[n]]

DeleteEntity(c) ==
  /\ Known(c.for)
  /\ entServer' = [n \in DOMAIN entServer \ {c.for} |-> entServer[n]]

\* A request succeeds, or fails for what is stored or for any other reason.
Handle(c) ==
  /\ c.phase = "sent"
  /\ \/ /\ CASE c.op = "update" -> UpdateEntity(c)
             [] c.op = "delete" -> DeleteEntity(c)
             [] OTHER           -> Known(c.for) /\ UNCHANGED entServer
        /\ entCalls' = (entCalls \ {c}) \cup
             {[c EXCEPT !.phase = "ok", !.with = IF c.op = "load" THEN Stored(c.for) ELSE @]}
     \/ /\ entCalls' = (entCalls \ {c}) \cup {[c EXCEPT !.phase = "no"]}
        /\ UNCHANGED entServer
  /\ UNCHANGED <<entAt, entShown, entLoading, entError, entTab, aside, dialogs, entCrossed,
                 entInputs>>

-----------------------------------------------------------------------------
(* The answers *)

Failed(c) == entError' = (entError \/ (c.live /\ c.phase = "no"))

ReceiveLoad(c) ==
  /\ entShown' = IF c.live /\ c.phase = "ok" THEN c.with ELSE entShown
  /\ entLoading' = (entLoading /\ ~c.live)
  /\ Failed(c)
  /\ entCalls' = entCalls \ {c}
  /\ UNCHANGED <<entAt, entTab, aside, dialogs, entCrossed>>

\* Faulty: the address keeps the old name
ReceiveUpdateInPlace(c) ==
  /\ IF c.live /\ c.phase = "ok" THEN entShown' = c.with /\ entEditing' = FALSE
     ELSE UNCHANGED <<entShown, entEditing>>
  /\ Failed(c)
  /\ entCalls' = entCalls \ {c}
  /\ UNCHANGED <<entAt, entLoading, entTab, entGraph, entApis, entCrossed, entHealth,
                 entAsking, entForm>>

\* The entity is shown as it is now, and the address follows a new name.
ReceiveUpdate(c) ==
  /\ IF c.live /\ c.phase = "ok" THEN entShown' = c.with /\ entEditing' = FALSE
     ELSE UNCHANGED <<entShown, entEditing>>
  /\ Failed(c)
  /\ IF c.phase = "ok" /\ c.with.name # c.for /\ c.with.name # entAt
     THEN LoadEntity(c.with.name, entCalls \ {c})
     ELSE /\ entCalls' = entCalls \ {c}
          /\ UNCHANGED <<entAt, entLoading, entTab, entGraph, entApis, entCrossed>>
  /\ UNCHANGED <<entHealth, entAsking, entForm>>

\* From wherever the user is now the catalog is shown.
ReceiveDelete(c) ==
  IF c.phase = "ok" THEN Leave(entCalls \ {c})
  ELSE /\ Failed(c)
       /\ entCalls' = entCalls \ {c}
       /\ UNCHANGED <<entAt, entShown, entLoading, entTab, aside, dialogs, entCrossed>>

ReceiveAside(c) ==
  LET known(op, old) == IF c.live /\ c.op = op /\ c.phase = "ok" THEN c.for ELSE old
  IN  /\ entGraph'  = known("graph", entGraph)
      /\ entApis'   = known("apis", entApis)
      /\ entHealth' = known("health", entHealth)
      /\ entCalls'  = entCalls \ {c}
      /\ UNCHANGED <<entAt, entShown, entLoading, entError, entTab, dialogs, entCrossed>>

Receive(c) ==
  /\ c.phase # "sent"
  /\ CASE c.op = "load"   -> ReceiveLoad(c)
       [] c.op = "update" -> ReceiveUpdate(c)
       [] c.op = "delete" -> ReceiveDelete(c)
       [] OTHER           -> ReceiveAside(c)
  /\ UNCHANGED <<entServer, entInputs>>

Next ==
  \/ Navigate
  \/ \E tab \in Tabs : OpenTab(tab)
  \/ CheckHealth
  \/ OpenEdit \/ EditMeta \/ HandleUpdate
  \/ AskDelete \/ HandleDelete \/ CloseDialog
  \/ \E c \in entCalls : Handle(c) \/ Receive(c)

Spec == Init /\ [][Next]_entVars

-----------------------------------------------------------------------------
(* Correctness *)

\* The type of every variable
TypeOK ==
  /\ DOMAIN entServer \subseteq Names
  /\ \A n \in DOMAIN entServer : entServer[n] \subseteq Annotations
  /\ entAt \in Names \cup {None}
  /\ entShown \in Entity \cup {NoEntity}
  /\ entLoading \in BOOLEAN /\ entError \in BOOLEAN
  /\ entTab \in Tabs
  /\ {entGraph, entApis, entHealth} \subseteq Names \cup {None}
  /\ entEditing \in BOOLEAN /\ entAsking \in BOOLEAN
  /\ entForm.name \in Names \cup {None} /\ entForm.filled \subseteq Fields
  /\ entCalls \subseteq Call
  /\ entCrossed \in BOOLEAN
  /\ entInputs \in 0..MaxEntInputs

\* What is saved or deleted is the entity on the page, through renames and errors,
\* as long as the address does not change while the page waits for an answer.
WritesReachTheShown ==
  ~entCrossed => \A c \in Underway({"update", "delete"}) : c.for = c.shown

\* A save leaves every annotation that has no field as the page was told it is, and
\* sends none without the one it belongs to.
SavesKeepTheRest ==
  \A c \in Underway({"update"}) :
    /\ c.phase = "sent" /\ c.shown = entShown.name /\ ~entCrossed
         => c.with.annotations \ Fields = entShown.annotations \ Fields
    /\ \A p \in Parents : c.with.annotations \cap Dependent[p] # {} => p \in c.with.annotations
=============================================================================
