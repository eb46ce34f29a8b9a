----------------------------- MODULE SchemaForm ------------------------------
(***************************************************************************)
(* The form made from a schema (web/src/components/SchemaForm.tsx), with a *)
(* field that is required and a list of references to entities, each row a *)
(* kind and a picker of names (EntityPicker.tsx).  The pickers of all the  *)
(* forms share what they load.  A picker belongs to the number of its row, *)
(* not to what is in it: when a row goes, the pickers after it stay where  *)
(* they are and are given the rows that move up.                           *)
(***************************************************************************)
EXTENDS Naturals, Sequences, FiniteSets, SequencesExt

CONSTANTS
  Kinds,         \* kinds of entities
  EntitiesOf,    \* the names of the entities of each kind, never none
  Blank,         \* no name, no kind
  MaxRows,       \* bound: rows of the list
  MaxRefInputs   \* bound: what the user does

SchemaFormAssumption ==
  /\ Blank \notin Kinds
  /\ \A k \in Kinds : EntitiesOf[k] # {} /\ Blank \notin EntitiesOf[k]
  /\ MaxRows \in Nat /\ MaxRefInputs \in Nat

VARIABLES
  refText,       \* is the required field filled in?
  refRows,       \* the rows of the list: a kind and a name
  refPickers,    \* the pickers, by the number of their row
  refCache,      \* entityCache: the kinds that have been loaded
  refInflight,   \* inflight: for a kind, whether it is being loaded or has failed to
  refSubmitted,  \* submitted
  refSent,       \* how often the form has been sent
  refRetyped,    \* history: has a picker that had a list got another kind?
  refInputs

refVars == <<refText, refRows, refPickers, refCache, refInflight, refSubmitted, refSent,
             refRetyped, refInputs>>

cache == <<refCache, refInflight>>

Names  == UNION {EntitiesOf[k] : k \in Kinds}
Row    == [kind : Kinds \cup {Blank}, name : Names \cup {Blank}]

\* list and wait: the kind the picker has the names of, and the one it waits for
Picker == [query : Names \cup {Blank}, open : BOOLEAN, list : Kinds \cup {Blank},
           wait : Kinds \cup {Blank}, mounted : BOOLEAN]

NewPicker(name) == [query |-> name, open |-> FALSE, list |-> Blank, wait |-> Blank,
                    mounted |-> TRUE]
NoPicker == [NewPicker(Blank) EXCEPT !.mounted = FALSE]

Init ==
  /\ refText = FALSE
  /\ refRows = <<>> /\ refPickers = <<>>
  /\ refCache \in {{}, Kinds}
  /\ refInflight = [k \in Kinds |-> "no"]
  /\ refSubmitted = FALSE /\ refSent = 0
  /\ refRetyped = FALSE
  /\ refInputs = 0

Input == refInputs < MaxRefInputs /\ refInputs' = refInputs + 1

-----------------------------------------------------------------------------
(* Rows and their pickers *)

\* Faulty: the query is taken from the row only when the picker is mounted
DrawnOnce(picker, old, new) ==
  IF new.kind = Blank THEN NoPicker
  ELSE IF ~picker.mounted THEN NewPicker(new.name)
  ELSE picker

\* A picker whose row gets another name shows that one; a row without a kind has none.
Drawn(picker, old, new) ==
  IF new.kind = Blank THEN NoPicker
  ELSE IF ~picker.mounted THEN NewPicker(new.name)
  ELSE IF old.name # new.name THEN [picker EXCEPT !.query = new.name]
  ELSE picker

\* Faulty: the pickers are as many as they were
SetRowsOnly(rows, kept) ==
  /\ refRows' = rows
  /\ refPickers' = kept
  /\ UNCHANGED refRetyped

\* The list is given other rows.  kept: the pickers as they are left
SetRows(rows, kept) ==
  /\ refRows' = rows
  /\ refPickers' = [i \in DOMAIN rows |->
       IF i \in DOMAIN refRows THEN Drawn(kept[i], refRows[i], rows[i])
       ELSE Drawn(NoPicker, rows[i], rows[i])]
  /\ refRetyped' = (refRetyped \/
       \E i \in DOMAIN rows \cap DOMAIN refRows :
         /\ rows[i].kind \notin {refRows[i].kind, Blank}
         /\ {kept[i].list, kept[i].wait} # {Blank})

AddItem ==
  /\ Len(refRows) < MaxRows
  /\ SetRows(Append(refRows, [kind |-> Blank, name |-> Blank]), refPickers)

RemoveItem(i) == SetRows(RemoveAt(refRows, i), refPickers)

\* DependencyPicker: another kind starts without a name.
ChooseKind(i) ==
  \E k \in (Kinds \cup {Blank}) \ {refRows[i].kind} :
    SetRows([refRows EXCEPT ![i] = [kind |-> k, name |-> Blank]], refPickers)

FormRows ==
  /\ Input
  /\ AddItem \/ \E i \in DOMAIN refRows : RemoveItem(i) \/ ChooseKind(i)
  /\ UNCHANGED <<refText, cache, refSubmitted, refSent>>

-----------------------------------------------------------------------------
(* EntityPicker *)

\* What is being loaded is not asked for again; what is there is given at once; and
\* what has failed once fails again.
LoadKind(p, k) ==
  IF p.list # Blank \/ p.wait # Blank THEN p
  ELSE IF k \in refCache THEN [p EXCEPT !.list = k]
  ELSE IF refInflight[k] = "failed" THEN p
  ELSE [p EXCEPT !.wait = k]

Open(i) ==
  /\ ~refPickers[i].open
  /\ LET p == LoadKind([refPickers[i] EXCEPT !.open = TRUE], refRows[i].kind)
     IN  /\ refPickers' = [refPickers EXCEPT ![i] = p]
         /\ refInflight' = IF p.wait = Blank \/ refInflight[p.wait] # "no" THEN refInflight
                           ELSE [refInflight EXCEPT ![p.wait] = "sent"]
  /\ UNCHANGED <<refRows, refRetyped>>

CloseList(i) ==
  /\ refPickers[i].open
  /\ refPickers' = [refPickers EXCEPT ![i].open = FALSE]
  /\ UNCHANGED <<refRows, refInflight, refRetyped>>

Filtered(p) ==
  IF p.list = Blank THEN {}
  ELSE {n \in EntitiesOf[p.list] : p.query \in {Blank, n}}

\* By the mouse or the Enter key
Select(i) ==
  /\ refPickers[i].open
  /\ \E n \in Filtered(refPickers[i]) :
       SetRows([refRows EXCEPT ![i].name = n],
               [refPickers EXCEPT ![i].query = n, ![i].open = FALSE])
  /\ UNCHANGED refInflight

\* What is written is the name as well, whether there is such an entity or not.
Write(i) ==
  /\ refPickers[i].open
  /\ \E text \in (Names \cup {Blank}) \ {refPickers[i].query} :
       SetRows([refRows EXCEPT ![i].name = text], [refPickers EXCEPT ![i].query = text])
  /\ UNCHANGED refInflight

EntityPicker(i) ==
  /\ refPickers[i].mounted /\ Input
  /\ Open(i) \/ CloseList(i) \/ Select(i) \/ Write(i)
  /\ UNCHANGED <<refText, refCache, refSubmitted, refSent>>

\* Faulty: every picker that waits is given the list
AnswerAll(k) ==
  /\ refInflight[k] = "sent"
  /\ refCache' = refCache \cup {k}
  /\ refInflight' = [refInflight EXCEPT ![k] = "no"]
  /\ refPickers' = [i \in DOMAIN refPickers |->
       IF refPickers[i].wait = Blank THEN refPickers[i]
       ELSE [refPickers[i] EXCEPT !.wait = Blank, !.list = k]]
  /\ UNCHANGED <<refText, refRows, refSubmitted, refSent, refRetyped, refInputs>>

\* What has failed stays among what is being loaded.
AnswerKind(k) ==
  /\ refInflight[k] = "sent"
  /\ \E done \in BOOLEAN :
       /\ refCache' = IF done THEN refCache \cup {k} ELSE refCache
       /\ refInflight' = [refInflight EXCEPT ![k] = IF done THEN "no" ELSE "failed"]
       /\ refPickers' = [i \in DOMAIN refPickers |->
            IF refPickers[i].wait # k THEN refPickers[i]
            ELSE [refPickers[i] EXCEPT !.wait = Blank, !.list = IF done THEN k ELSE @]]
  /\ UNCHANGED <<refText, refRows, refSubmitted, refSent, refRetyped, refInputs>>

-----------------------------------------------------------------------------
(* The other field, and the form *)

FormField ==
  /\ Input
  /\ refText' = ~refText
  /\ UNCHANGED <<refRows, refPickers, cache, refSubmitted, refSent, refRetyped>>

GetMissingRequired == IF refText THEN {} ELSE {"text"}

\* With the errors shown from now on; without a required field nothing is sent.
HandleSubmit ==
  /\ Input
  /\ refSubmitted' = TRUE
  /\ refSent' = IF GetMissingRequired = {} THEN refSent + 1 ELSE refSent
  /\ UNCHANGED <<refText, refRows, refPickers, cache, refRetyped>>

Next ==
  \/ FormRows
  \/ \E i \in DOMAIN refRows : EntityPicker(i)
  \/ \E k \in Kinds : AnswerKind(k)
  \/ FormField \/ HandleSubmit

Spec == Init /\ [][Next]_refVars

-----------------------------------------------------------------------------
(* Correctness *)

\* The type of every variable
TypeOK ==
  /\ refText \in BOOLEAN
  /\ refRows \in Seq(Row) /\ Len(refRows) <= MaxRows
  /\ refPickers \in Seq(Picker) /\ Len(refPickers) = Len(refRows)
  /\ refCache \subseteq Kinds
  /\ refInflight \in [Kinds -> {"no", "sent", "failed"}]
  /\ refSubmitted \in BOOLEAN /\ refSent \in 0..MaxRefInputs
  /\ refRetyped \in BOOLEAN
  /\ refInputs \in 0..MaxRefInputs

\* What a picker shows is what is sent, whatever rows come and go before it.
PickersShowTheirValue ==
  \A i \in DOMAIN refRows :
    refPickers[i].mounted => refPickers[i].query = refRows[i].name

\* What a picker lists are entities of the kind of its row, whatever is loaded for the
\* others, as long as no picker that had a list has got another kind.
ListsAreOfTheKind ==
  ~refRetyped => \A i \in DOMAIN refRows :
                   refPickers[i].mounted => refPickers[i].list \in {Blank, refRows[i].kind}
=============================================================================
