----------------------------- MODULE ConfigForm -----------------------------
(***************************************************************************)
(* The configuration form of a plugin (ConfigFormBody and the fields under *)
(* it in web/src/pages/Plugins.tsx; components/PluginConfigForm.tsx is a   *)
(* copy) and how the server keeps the secrets it never sends to the form   *)
(* (redactSecretValues and preserveSecretValues in                         *)
(* internal/api/handlers/plugins.go).                                      *)
(*                                                                         *)
(* A row of an array field (a cluster, an Argo CD instance) has a name and *)
(* other texts, which can be changed at any time and are left out.  Which  *)
(* row it is, which the code itself does not tell, is told by an identity, *)
(* and its secret by the identity of the row it was entered for.           *)
(***************************************************************************)
EXTENDS Integers, Sequences, FiniteSets, SequencesExt

CONSTANTS
  Fields,        \* fields of the plugin's schema: records of a key and a kind
  Sections,      \* keys of its sections, {} if it has none
  NeedsSwitch,   \* keys shown while the switch is on (FIELD_VISIBILITY)
  Names,         \* identities of rows, and texts of items
  FirstRows,     \* the rows a plugin may have been configured with, in their order
  Blank,         \* no text, no secret
  Redacted,      \* redactedSecretValue
  MaxFormInputs  \* bound: what the user does

FormAssumption ==
  /\ IsFiniteSet(Names)
  /\ FirstRows \in Seq(Names) /\ IsInjective(FirstRows)
  /\ Blank \notin Names /\ Redacted \notin Names \cup {Blank}
  /\ MaxFormInputs \in Nat

Kinds == {"items", "rows", "switch", "role", "text"}

VARIABLES
  formStored,   \* the rows of the plugin's configuration on the server
  formRows,     \* the rows in the form
  formOpen,     \* expanded: the rows shown with all their fields, by number
  formItems,    \* the strings of a sortable list
  formNew,      \* newItem: the text of a string to add
  formDrag,     \* dragIdx; 0 is none
  formOn,       \* the switch
  formRoles,    \* roleOptions: the ones built in, or the server's; or not yet known
  formSave,     \* the rows of a save the server has not answered, or none
  formShifted,  \* history: has a row been removed before another one, or the form
                \* been opened while a save was under way?
  formInputs

formVars == <<formStored, formRows, formOpen, formItems, formNew, formDrag, formOn,
              formRoles, formSave, formShifted, formInputs>>

Row == [id : Names, secret : Names \cup {Blank, Redacted}]

\* What the server sends of the rows it has: a secret that is set is redacted.
RedactSecretValues(rows) ==
  [i \in DOMAIN rows |->
     [rows[i] EXCEPT !.secret = IF @ = Blank THEN Blank ELSE Redacted]]

\* Faulty: the placeholder is stored
StoreAsSent(existing, updated) == updated

\* What it stores of the rows it is sent: a redacted secret is the one stored in
\* the row of the same number, if there is one.
PreserveSecretValues(existing, updated) ==
  [i \in DOMAIN updated |->
     IF updated[i].secret # Redacted THEN updated[i]
     ELSE [updated[i] EXCEPT !.secret =
             IF i \in DOMAIN existing THEN existing[i].secret ELSE Blank]]

NotSaving == [rows |-> <<>>, phase |-> "idle"]

OpenRows == {formRows[i].id : i \in formOpen \cap DOMAIN formRows}

\* Fields are shown section by section, then those in no section.
Visible(key)  == key \in NeedsSwitch => formOn
Grouped       == {f \in Fields : f.key \in Sections}
Ungrouped     == Fields \ Grouped
ShownFields   == {f \in Grouped \cup Ungrouped : Visible(f.key)}

Init ==
  /\ \E n \in 0..Len(FirstRows) :
       formStored = [i \in 1..n |-> [id |-> FirstRows[i], secret |-> FirstRows[i]]]
  /\ formRows = RedactSecretValues(formStored)
  /\ formOpen = {1}
  /\ formItems = <<>>
  /\ formNew = Blank
  /\ formDrag = 0
  /\ formOn \in BOOLEAN
  /\ formRoles = IF \E f \in Fields : f.kind = "role" THEN "asked" ELSE "builtin"
  /\ formSave = NotSaving
  /\ formShifted = FALSE
  /\ formInputs = 0

Input == formInputs < MaxFormInputs /\ formInputs' = formInputs + 1

\* While an item is dragged nothing can be pressed.
Press == formDrag = 0 /\ Input

Rest(others) == UNCHANGED <<formStored, formRoles, formSave, others>>

-----------------------------------------------------------------------------
(* ArrayObjectField *)

OnlyRows == Press /\ Rest(<<formItems, formNew, formDrag, formOn>>)

IdsOf(rows) == {rows[i].id : i \in DOMAIN rows}

\* The new row is shown with all its fields.
AddRow ==
  /\ Len(formRows) < Cardinality(Names)
  /\ \E n \in Names \ (IdsOf(formRows) \cup IdsOf(formStored) \cup IdsOf(formSave.rows)) :
       formRows' = Append(formRows, [id |-> n, secret |-> Blank])
  /\ formOpen' = formOpen \cup {Len(formRows) + 1}
  /\ UNCHANGED formShifted

\* Faulty: the numbers of the open rows are not moved up
RemoveRowOnly(i) ==
  /\ formRows' = RemoveAt(formRows, i)
  /\ formOpen' = formOpen \ {i}
  /\ formShifted' = (formShifted \/ i < Len(formRows))

\* The rows after it, and whether they are open, move up.
RemoveRow(i) ==
  /\ formRows' = RemoveAt(formRows, i)
  /\ formOpen' = {v \in formOpen : v < i} \cup {v - 1 : v \in {w \in formOpen : w > i}}
  /\ formShifted' = (formShifted \/ i < Len(formRows))

ToggleExpand(i) ==
  /\ formOpen' = IF i \in formOpen THEN formOpen \ {i} ELSE formOpen \cup {i}
  /\ UNCHANGED <<formRows, formShifted>>

\* The secret for that row is entered, or taken back.
UpdateField(i) ==
  /\ i \in formOpen
  /\ \E s \in {Blank, formRows[i].id} : formRows' = [formRows EXCEPT ![i].secret = s]
  /\ UNCHANGED <<formOpen, formShifted>>

ArrayObjectField ==
  /\ OnlyRows
  /\ \/ AddRow
     \/ \E i \in DOMAIN formRows : RemoveRow(i) \/ ToggleExpand(i) \/ UpdateField(i)

-----------------------------------------------------------------------------
(* StringArraySortField *)

OnlyItems == Rest(<<formRows, formOpen, formOn, formShifted>>)

Moved(items, from, to) == InsertAt(RemoveAt(items, from), to, items[from])

MoveItem(from, to) ==
  /\ from # to
  /\ formItems' = Moved(formItems, from, to)
  /\ UNCHANGED formNew

RemoveItem(i) == formItems' = RemoveAt(formItems, i) /\ UNCHANGED formNew

TypeItem ==
  /\ formNew' \in (Names \cup {Blank}) \ {formNew}
  /\ UNCHANGED formItems

\* By the button or the Enter key: what is blank or there already is not added.
AddItem ==
  /\ formNew # Blank
  /\ \A i \in DOMAIN formItems : formItems[i] # formNew
  /\ formItems' = Append(formItems, formNew)
  /\ formNew' = Blank

\* The arrows of a row: up but for the first, down but for the last
ItemButtons(i) ==
  \/ i > 1 /\ MoveItem(i, i - 1)
  \/ i < Len(formItems) /\ MoveItem(i, i + 1)
  \/ RemoveItem(i)

DragItem ==
  \/ /\ Press
     /\ formDrag' \in DOMAIN formItems
     /\ UNCHANGED <<formItems, formNew>>
  \/ /\ formDrag # 0
     /\ formDrag' = 0
     /\ \/ \E to \in DOMAIN formItems : MoveItem(formDrag, to)
        \/ UNCHANGED <<formItems, formNew>>
     /\ UNCHANGED formInputs

StringArraySortField ==
  /\ OnlyItems
  /\ \/ DragItem
     \/ /\ Press /\ UNCHANGED formDrag
        /\ TypeItem \/ AddItem \/ \E i \in DOMAIN formItems : ItemButtons(i)

-----------------------------------------------------------------------------
\* Which control a field has, by its schema.  What is chosen or written in the
\* others does not matter here.
ConfigField(f) ==
  \/ f.kind = "items" /\ StringArraySortField
  \/ f.kind = "rows" /\ ArrayObjectField
  \/ /\ f.kind = "switch"
     /\ formOn' = ~formOn
     /\ Press
     /\ Rest(<<formRows, formOpen, formItems, formNew, formDrag, formShifted>>)

\* The roles to choose from are asked for where a field needs them; without an
\* answer they are the ones built in.
AnswerRoles ==
  /\ formRoles = "asked"
  /\ formRoles' \in {"loaded", "builtin"}
  /\ UNCHANGED <<formStored, formRows, formOpen, formItems, formNew, formDrag, formOn,
                 formSave, formShifted, formInputs>>

\* One save at a time; the form can be changed meanwhile.
HandleSave ==
  /\ formSave = NotSaving /\ Press
  /\ formSave' = [rows |-> formRows, phase |-> "sent"]
  /\ UNCHANGED <<formStored, formRows, formOpen, formItems, formNew, formDrag, formOn,
                 formRoles, formShifted>>

UpdatePluginConfig ==
  /\ formSave.phase = "sent"
  /\ formSave' = [formSave EXCEPT !.phase = "answered"]
  /\ formStored' \in {formStored, PreserveSecretValues(formStored, formSave.rows)}
  /\ UNCHANGED <<formRows, formOpen, formItems, formNew, formDrag, formOn, formRoles,
                 formShifted, formInputs>>

\* "Saved!", or an error: the form stays as it is.
SaveAnswered ==
  /\ formSave.phase = "answered"
  /\ formSave' = NotSaving
  /\ UNCHANGED <<formStored, formRows, formOpen, formItems, formNew, formDrag, formOn,
                 formRoles, formShifted, formInputs>>

\* The form is closed, and opened again with what the server has.
Reopen ==
  /\ Press
  /\ formRows' = RedactSecretValues(formStored)
  /\ formOpen' = {1}
  /\ formItems' = <<>> /\ formNew' = Blank
  /\ formShifted' = (formShifted \/ formSave.phase = "sent")
  /\ UNCHANGED <<formStored, formDrag, formOn, formRoles, formSave>>

Next ==
  \/ \E f \in ShownFields : ConfigField(f)
  \/ AnswerRoles
  \/ HandleSave \/ UpdatePluginConfig \/ SaveAnswered \/ Reopen

Spec == Init /\ [][Next]_formVars

-----------------------------------------------------------------------------
(* Correctness *)

\* The type of every variable
TypeOK ==
  /\ formStored \in Seq(Row)
  /\ formRows \in Seq(Row)
  /\ formOpen \subseteq 1..(Cardinality(Names) + 1)
  /\ formItems \in Seq(Names) /\ IsInjective(formItems)
  /\ formNew \in Names \cup {Blank}
  /\ formDrag \in 0..Cardinality(Names)
  /\ formOn \in BOOLEAN
  /\ formRoles \in {"asked", "loaded", "builtin"}
  /\ formSave.rows \in Seq(Row) /\ formSave.phase \in {"idle", "sent", "answered"}
  /\ formShifted \in BOOLEAN
  /\ formInputs \in 0..MaxFormInputs

\* No row is stored with the secret of another one, nor with the placeholder: as
\* long as no row has been removed from among them, and the form is not opened
\* while a save is under way, a row the server knows has the number it has in the
\* form, through saves that fail and forms opened again.
SecretsStayWithTheirRow ==
  ~formShifted => \A i \in DOMAIN formStored :
                    formStored[i].secret \in {Blank, formStored[i].id}

\* A row that stays in the list stays open or closed when others come and go, while
\* the form is not opened anew.
OpenFollowsRows ==
  LET both == IdsOf(formRows) \cap IdsOf(formRows')
  IN  Len(formRows') # Len(formRows) /\ ~Reopen =>
        OpenRows \cap both = OpenRows' \cap both
=============================================================================
