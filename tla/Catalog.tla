------------------------------ MODULE Catalog --------------------------------
(***************************************************************************)
(* The catalog (web/src/pages/Catalog.tsx): the list of all entities or of *)
(* those of the kind in the address, and over it the panel that creates an *)
(* entity in two steps, its kind and its form.  A kind that belongs to a   *)
(* plugin is hidden while the plugin is known to be disabled; the plugins  *)
(* are asked for again whenever one is changed from this window.  Of the   *)
(* entities listed only their kinds are kept.                              *)
(***************************************************************************)
EXTENDS Naturals, Sequences, FiniteSets

CONSTANTS
  KindSeq,       \* ENTITY_KINDS, in their order
  Hideable,      \* kinds that belong to a plugin
  None,          \* no kind
  MaxCatInputs   \* bound: what the user does, and plugins that change

Kinds == {KindSeq[i] : i \in DOMAIN KindSeq}

CatalogAssumption ==
  /\ KindSeq \in Seq(Kinds)
  /\ Hideable \subseteq Kinds /\ Hideable # Kinds
  /\ None \notin Kinds
  /\ MaxCatInputs \in Nat

VARIABLES
  catDisabled,  \* the kinds of plugins that are disabled
  catAt,        \* the kind in the address; none is all of them
  catList,      \* the kinds of entities
  catLoading, catError,
  catKnown,     \* plugins !== null
  catHidden,    \* the kinds of the plugins listed as disabled
  catStep,      \* the panel is closed, or at the kind or the form
  catKind,      \* createKind
  catChosen,    \* history: the kind the user chose for the form
  catCalls,     \* requests that have not been answered
  catInputs

catVars == <<catDisabled, catAt, catList, catLoading, catError, catKnown, catHidden,
             catStep, catKind, catChosen, catCalls, catInputs>>

panel == <<catStep, catKind, catChosen>>
shown == <<catAt, catList, catLoading, catError>>
known == <<catKnown, catHidden>>

\* of: the kind a list is asked for, or that of the entity to create; hidden: the kinds
\* of disabled plugins, once the server has read them
Call == {c \in [op : {"list", "plugins", "create"}, of : Kinds \cup {None},
                hidden : SUBSET Hideable, read : BOOLEAN, nr : 0..MaxCatInputs] :
           c.op = "create" => c.of # None}

Request(op, of) ==
  [op |-> op, of |-> of, hidden |-> {}, read |-> FALSE, nr |-> catInputs']

\* While the plugins are not known no kind is hidden.
FilterEntityKindsByPlugins(isKnown, hidden) ==
  {k \in Kinds : isKnown => k \notin hidden}

VisibleKinds == FilterEntityKindsByPlugins(catKnown, catHidden)

\* The first of them in the list
FallbackCreateKind(visible) ==
  CHOOSE k \in visible :
    \E i \in DOMAIN KindSeq :
      KindSeq[i] = k /\ \A j \in 1..(i - 1) : KindSeq[j] \notin visible

Init ==
  /\ catDisabled \in SUBSET Hideable
  /\ catAt = None
  /\ catList = {} /\ catLoading = TRUE /\ catError = FALSE
  /\ catKnown = FALSE /\ catHidden = {}
  /\ catStep = "closed" /\ catKind = KindSeq[1] /\ catChosen = None
  /\ catCalls = {[op |-> op, of |-> None, hidden |-> {}, read |-> FALSE, nr |-> 0] :
                   op \in {"list", "plugins"}}
  /\ catInputs = 0

Input == catInputs < MaxCatInputs /\ catInputs' = catInputs + 1

-----------------------------------------------------------------------------
(* The list *)

\* The effect of another kind in the address; what was asked for before is still
\* shown when it comes.
LoadList(at, calls) ==
  /\ catAt' = at
  /\ catLoading' = TRUE /\ catError' = FALSE
  /\ catCalls' = calls \cup {Request("list", at)}

\* By the tabs or the links of the side bar, which the panel covers.  An address of a
\* hidden kind is turned into the one of all kinds at once.
Navigate ==
  /\ catStep = "closed" /\ Input
  /\ \E at \in (Kinds \cup {None}) \ {catAt} :
       IF at \in catHidden THEN LoadList(None, catCalls \cup {Request("list", at)})
       ELSE LoadList(at, catCalls)
  /\ UNCHANGED <<catDisabled, catList, known, panel>>

\* What the list shows of it, but for the search and the other filters
Filtered == catList \cap VisibleKinds

-----------------------------------------------------------------------------
(* The panel *)

Panel == Input /\ UNCHANGED <<catDisabled, shown, known>>

\* By the button over the list, or the one in place of an empty list
OpenCreate ==
  /\ catStep = "closed" /\ Panel
  /\ catKind' = IF catKind \in VisibleKinds THEN catKind ELSE FallbackCreateKind(VisibleKinds)
  /\ catStep' = "kind"
  /\ UNCHANGED <<catChosen, catCalls>>

CloseCreate ==
  /\ catStep # "closed" /\ Panel
  /\ catStep' = "closed"
  /\ UNCHANGED <<catKind, catChosen, catCalls>>

ChooseKind ==
  /\ catStep = "kind" /\ catKnown /\ Panel
  /\ \E k \in VisibleKinds : catKind' = k /\ catChosen' = k
  /\ catStep' = "form"
  /\ UNCHANGED catCalls

Back ==
  /\ catStep = "form" /\ Panel
  /\ catStep' = "kind"
  /\ UNCHANGED <<catKind, catChosen, catCalls>>

\* Nothing keeps the form from being sent again before the answer.
HandleCreate ==
  /\ catStep = "form" /\ catKind \in VisibleKinds /\ Panel
  /\ catCalls' = catCalls \cup {Request("create", catKind)}
  /\ UNCHANGED panel

-----------------------------------------------------------------------------
(* The server *)

ListPlugins(c) ==
  /\ c.op = "plugins" /\ ~c.read
  /\ catCalls' = (catCalls \ {c}) \cup {[c EXCEPT !.read = TRUE, !.hidden = catDisabled]}
  /\ UNCHANGED <<catDisabled, shown, known, panel, catInputs>>

\* A plugin is enabled or disabled: from this window, which then asks for the plugins
\* again, or from another one.
PluginChanges ==
  /\ Input
  /\ \E k \in Hideable :
       catDisabled' = IF k \in catDisabled THEN catDisabled \ {k} ELSE catDisabled \cup {k}
  /\ catCalls' \in {catCalls, catCalls \cup {Request("plugins", None)}}
  /\ UNCHANGED <<shown, known, panel>>

-----------------------------------------------------------------------------
(* The answers: ok, or an error *)

ReceiveList(c, ok) ==
  /\ catList' \in IF ~ok THEN {catList} ELSE {{}, IF c.of = None THEN Kinds ELSE {c.of}}
  /\ catError' = (catError \/ ~ok)
  /\ catLoading' = FALSE
  /\ catCalls' = catCalls \ {c}
  /\ UNCHANGED <<catAt, known, panel>>

\* Faulty: the form stays open, for the kind that is given instead
ReplaceCreateKind(visible) ==
  IF catKind \in visible THEN UNCHANGED panel
  ELSE catKind' = FallbackCreateKind(visible) /\ UNCHANGED <<catStep, catChosen>>

\* A kind that has gone is given up for the first one there is, and a form of it for
\* the choice of another kind.
ResetCreateKind(visible) ==
  IF catKind \in visible THEN UNCHANGED panel
  ELSE /\ catKind' = FallbackCreateKind(visible)
       /\ catStep' = IF catStep = "closed" THEN "closed" ELSE "kind"
       /\ UNCHANGED catChosen

\* The page of a kind that has gone turns into the one of all kinds.
LeaveHiddenKind(calls) ==
  IF catAt \in catHidden' THEN LoadList(None, calls)
  ELSE catCalls' = calls /\ UNCHANGED <<catAt, catLoading, catError>>

ReceivePlugins(c, ok) ==
  IF ok
  THEN /\ catKnown' = TRUE /\ catHidden' = c.hidden
       /\ ResetCreateKind(FilterEntityKindsByPlugins(TRUE, c.hidden))
       /\ LeaveHiddenKind(catCalls \ {c})
       /\ UNCHANGED catList
  ELSE catCalls' = catCalls \ {c} /\ UNCHANGED <<shown, known, panel>>

\* What was created is added to whatever list is shown by now, and whatever panel is
\* open is closed.
ReceiveCreate(c, ok) ==
  /\ IF ok
     THEN catList' = catList \cup {c.of} /\ catStep' = "closed" /\ UNCHANGED catError
     ELSE catError' = TRUE /\ UNCHANGED <<catList, catStep>>
  /\ catCalls' = catCalls \ {c}
  /\ UNCHANGED <<catAt, catLoading, known, catKind, catChosen>>

Receive(c) ==
  /\ c.op = "plugins" => c.read
  /\ UNCHANGED <<catDisabled, catInputs>>
  /\ \E ok \in BOOLEAN :
       CASE c.op = "list"    -> ReceiveList(c, ok)
         [] c.op = "plugins" -> ReceivePlugins(c, ok)
         [] c.op = "create"  -> ReceiveCreate(c, ok)

Next ==
  \/ Navigate
  \/ OpenCreate \/ CloseCreate \/ ChooseKind \/ Back \/ HandleCreate
  \/ PluginChanges
  \/ \E c \in catCalls : ListPlugins(c) \/ Receive(c)

Spec == Init /\ [][Next]_catVars

-----------------------------------------------------------------------------
(* Correctness *)

\* The type of every variable
TypeOK ==
  /\ catDisabled \subseteq Hideable /\ catHidden \subseteq Hideable
  /\ catAt \in Kinds \cup {None}
  /\ catList \subseteq Kinds
  /\ {catLoading, catError, catKnown} \subseteq BOOLEAN
  /\ catStep \in {"closed", "kind", "form"}
  /\ catKind \in Kinds /\ catChosen \in Kinds \cup {None}
  /\ catCalls \subseteq Call
  /\ catInputs \in 0..MaxCatInputs

\* The form on the page is for the kind the user chose for it, and that kind is one of
\* those offered, however the list of plugins changes under it.
FormIsAsChosen ==
  catStep = "form" => catKind = catChosen /\ catKind \in VisibleKinds
=============================================================================
