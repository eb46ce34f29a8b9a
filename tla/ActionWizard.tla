---------------------------- MODULE ActionWizard -----------------------------
(***************************************************************************)
(* The wizard of web/src/components/ActionWizard.tsx, which makes an       *)
(* action or changes one in four steps: what it is called, what it runs,   *)
(* its inputs, and who may execute it.  Of a text only whether it is there *)
(* is kept; of the inputs, that they can be taken from a workflow, after   *)
(* which the wizard is at their step.  Who may execute an action is stored *)
(* as a list of roles and edited as the least of them.                     *)
(***************************************************************************)
EXTENDS Naturals, FiniteSets

CONSTANTS
  Roles,         \* the roles there are
  Unlisted,      \* names of no role, which an action may have been stored with
  Fallback,      \* those assumed when they cannot be listed
  Level,         \* of each role
  None,          \* no role: any user
  MaxWizInputs   \* bound: what the user does

WizardAssumption ==
  /\ Fallback \subseteq Roles /\ Unlisted \cap Roles = {} /\ None \notin Roles \cup Unlisted
  /\ Level \in [Roles -> Nat]
  /\ MaxWizInputs \in Nat

Types == {"github-action", "webhook", "internal"}
Modes == {"service_account", "user"}

VARIABLES
  wizExisting,   \* the roles of the action that is changed; it is a new one if "new"
  wizOpen, wizStep, wizSaving, wizError,
  wizFilled,     \* which of the title, the URLs and the workflow are not blank
  wizType, wizMode,
  wizUserMode,   \* gitHubUserDispatchEnabled
  wizRoles,      \* availableRoles
  wizMinRole,
  wizChosen,     \* history: the user has chosen the least role
  wizCalls,      \* requests that have not been answered
  wizInputs

wizVars == <<wizExisting, wizOpen, wizStep, wizSaving, wizError, wizFilled, wizType, wizMode,
             wizUserMode, wizRoles, wizMinRole, wizChosen, wizCalls, wizInputs>>

config == <<wizFilled, wizType, wizMode, wizUserMode>>
access == <<wizRoles, wizMinRole, wizChosen>>

Texts == {"title", "repoUrl", "workflow", "url"}

\* Of a save: the roles it sends, and which were known when it was sent
Call == [op : {"roles", "sso", "import", "save"}, allowed : SUBSET Roles, known : SUBSET Roles]

Request(op) == [op |-> op, allowed |-> {}, known |-> {}]

\* The roles at and above one
AtLeast(r) == {q \in Roles : Level[q] >= Level[r]}

\* Faulty: the highest of the roles stored
HighestRole(allowed, known) ==
  LET found == allowed \cap known IN
  IF found = {} THEN None ELSE CHOOSE r \in found : \A q \in found : Level[q] <= Level[r]

\* The least of the roles stored, among those that are known
MinRole(allowed, known) ==
  LET found == allowed \cap known IN
  IF found = {} THEN None ELSE CHOOSE r \in found : \A q \in found : Level[r] <= Level[q]

\* An action can come from a file or the API, or from before a role was added or removed,
\* and have any list.  The mode of an action that is changed is the service account's,
\* whichever it was: that the user's may be used is not known at first.
Init ==
  /\ wizExisting \in [new : {FALSE}, allowed : SUBSET (Roles \cup Unlisted)] \cup
                     [new : {TRUE}, allowed : {{}}]
  /\ wizOpen = TRUE /\ wizStep = 0 /\ wizSaving = FALSE /\ wizError = FALSE
  /\ wizType \in IF wizExisting.new THEN {"github-action"} ELSE Types
  /\ wizFilled = IF wizExisting.new THEN {}
                 ELSE {"title"} \cup CASE wizType = "github-action" -> {"repoUrl", "workflow"}
                                       [] wizType = "webhook"       -> {"url"}
                                       [] wizType = "internal"      -> {}
  /\ wizMode = "service_account" /\ wizUserMode = FALSE
  /\ wizRoles = {} /\ wizMinRole = None
  /\ wizChosen = FALSE
  /\ wizCalls = {Request("roles"), Request("sso")}
  /\ wizInputs = 0

-----------------------------------------------------------------------------
(* The steps *)

ConfigComplete ==
  CASE wizType = "github-action" -> {"repoUrl", "workflow"} \subseteq wizFilled
    [] wizType = "webhook"       -> "url" \in wizFilled
    [] wizType = "internal"      -> TRUE

CanAdvance ==
  CASE wizStep = 0 -> "title" \in wizFilled
    [] wizStep = 1 -> ConfigComplete
    [] OTHER       -> TRUE

Input == wizOpen /\ wizInputs < MaxWizInputs /\ wizInputs' = wizInputs + 1

\* By the buttons of the steps, or those to go on and back; back from the first one
\* closes the wizard.
GoTo ==
  /\ wizOpen
  /\ wizStep' \in {i \in 0..3 : i < wizStep \/ (i = wizStep + 1 /\ CanAdvance)}
  /\ UNCHANGED <<wizExisting, wizOpen, wizSaving, wizError, config, access, wizCalls, wizInputs>>

Close ==
  /\ wizOpen /\ wizOpen' = FALSE
  /\ UNCHANGED <<wizExisting, wizStep, wizSaving, wizError, config, access, wizCalls,
                 wizInputs>>

Stay == UNCHANGED <<wizExisting, wizOpen, wizStep, wizSaving, wizError>>

EditBasic ==
  /\ wizStep = 0 /\ Input
  /\ wizFilled' \in {wizFilled \cup {"title"}, wizFilled \ {"title"}} \ {wizFilled}
  /\ Stay /\ UNCHANGED <<wizType, wizMode, wizUserMode, access, wizCalls>>

ChooseType ==
  /\ wizStep = 1 /\ Input
  /\ wizType' \in Types \ {wizType}
  /\ Stay /\ UNCHANGED <<wizFilled, wizMode, wizUserMode, access, wizCalls>>

\* Another repository takes back the workflow.
EditGitHub ==
  /\ wizStep = 1 /\ wizType = "github-action" /\ Input
  /\ \/ /\ wizFilled' \in {(wizFilled \ {"workflow"}) \cup {"repoUrl"},
                           wizFilled \ {"repoUrl", "workflow"},
                           wizFilled \cup {"workflow"}, wizFilled \ {"workflow"}}
        /\ UNCHANGED wizMode
     \/ /\ wizMode' \in {"service_account"} \cup (IF wizUserMode THEN {"user"} ELSE {})
        /\ UNCHANGED wizFilled
  /\ <<wizFilled, wizMode>>' # <<wizFilled, wizMode>>
  /\ Stay /\ UNCHANGED <<wizType, wizUserMode, access, wizCalls>>

EditWebhook ==
  /\ wizStep = 1 /\ wizType = "webhook" /\ Input
  /\ wizFilled' \in {wizFilled \cup {"url"}, wizFilled \ {"url"}} \ {wizFilled}
  /\ Stay /\ UNCHANGED <<wizType, wizMode, wizUserMode, access, wizCalls>>

\* From the configuration or from the inputs; one at a time
ImportWorkflowInputs ==
  /\ wizStep \in {1, 2} /\ wizType = "github-action" /\ Input
  /\ {"repoUrl", "workflow"} \subseteq wizFilled
  /\ wizCalls' = wizCalls \cup {Request("import")}
  /\ wizCalls' # wizCalls
  /\ Stay /\ UNCHANGED <<config, access>>

ChooseMinRole ==
  /\ wizStep = 3 /\ Input
  /\ wizMinRole' \in (wizRoles \cup {None}) \ {wizMinRole}
  /\ wizChosen' = TRUE
  /\ Stay /\ UNCHANGED <<config, wizRoles, wizCalls>>

-----------------------------------------------------------------------------
(* Saving *)

\* The least role stands for those that are known to be at or above it.
AllowedRoles == IF wizMinRole \in wizRoles THEN AtLeast(wizMinRole) \cap wizRoles ELSE {}

BuildEntity == [op |-> "save", allowed |-> AllowedRoles, known |-> wizRoles]

\* Without a title the wizard goes back to the first step.
HandleSave ==
  /\ wizStep = 3 /\ ~wizSaving /\ Input
  /\ wizError' = ("title" \notin wizFilled)
  /\ IF "title" \in wizFilled
     THEN /\ wizSaving' = TRUE /\ wizCalls' = wizCalls \cup {BuildEntity}
          /\ UNCHANGED wizStep
     ELSE wizStep' = 0 /\ UNCHANGED <<wizSaving, wizCalls>>
  /\ UNCHANGED <<wizExisting, wizOpen, config, access>>

\* The page closes the wizard.
ReceiveSave(ok) ==
  /\ wizOpen' = (wizOpen /\ ~ok)
  /\ wizSaving' = FALSE
  /\ wizError' = (wizError \/ ~ok)
  /\ UNCHANGED <<wizExisting, wizStep, config, access>>

-----------------------------------------------------------------------------
(* The other answers *)

\* The least role of the action is taken from the roles once they have come, or from
\* the ones assumed: over what the user has chosen by then.
ReceiveRoles(known) ==
  /\ wizRoles' = known
  /\ LET least == MinRole(wizExisting.allowed, known) IN
     IF least = None THEN UNCHANGED <<wizMinRole, wizChosen>>
     ELSE wizMinRole' = least /\ wizChosen' = FALSE
  /\ Stay /\ UNCHANGED config

\* When the user's credentials cannot be used the mode is the service account's.
ReceiveSSO(enabled) ==
  /\ wizUserMode' = enabled
  /\ wizMode' = IF enabled THEN wizMode ELSE "service_account"
  /\ Stay /\ UNCHANGED <<wizFilled, wizType, access>>

\* The inputs are replaced and the wizard is at their step, from wherever the user has
\* gone meanwhile.
ReceiveImport(ok) ==
  /\ IF ok
     THEN wizStep' = 2 /\ UNCHANGED wizError
     ELSE wizError' = TRUE /\ UNCHANGED wizStep
  /\ UNCHANGED <<wizExisting, wizOpen, wizSaving, config, access>>

Receive(c) ==
  /\ wizOpen
  /\ \E ok \in BOOLEAN :
       CASE c.op = "roles"  -> ReceiveRoles(IF ok THEN Roles ELSE Fallback)
         [] c.op = "sso"    -> ReceiveSSO(ok)
         [] c.op = "import" -> ReceiveImport(ok)
         [] c.op = "save"   -> ReceiveSave(ok)
  /\ wizCalls' = wizCalls \ {c}
  /\ UNCHANGED wizInputs

Next ==
  \/ GoTo \/ Close \/ EditBasic \/ ChooseType \/ EditGitHub \/ EditWebhook
  \/ ImportWorkflowInputs \/ ChooseMinRole \/ HandleSave
  \/ \E c \in wizCalls : Receive(c)

Spec == Init /\ [][Next]_wizVars

-----------------------------------------------------------------------------
(* Correctness *)

\* The type of every variable
TypeOK ==
  /\ wizExisting \in [new : BOOLEAN, allowed : SUBSET (Roles \cup Unlisted)]
  /\ {wizOpen, wizSaving, wizError, wizUserMode, wizChosen} \subseteq BOOLEAN
  /\ wizStep \in 0..3
  /\ wizFilled \subseteq Texts
  /\ wizType \in Types /\ wizMode \in Modes
  /\ wizRoles \subseteq Roles /\ wizMinRole \in Roles \cup {None}
  /\ wizCalls \subseteq Call /\ wizInputs \in 0..MaxWizInputs

\* No role that is stored and known is left out, and none is let in that is lower than
\* all of those.
Kept(allowed, known) ==
  LET stored == wizExisting.allowed \cap known IN
  /\ stored \subseteq allowed
  /\ \A q \in allowed : \E r \in stored : Level[r] <= Level[q]

\* An action that is changed without a word about who may execute it is saved for every
\* role it was for, as far as those are known, and for no role below them, whichever list
\* it had and whenever the roles came: so for the same ones if all roles above one of the
\* list were in it too.  It is saved for anyone only if it was, or if no role of its list
\* is known.
RestrictionKept ==
  \A c \in wizCalls : c.op = "save" /\ ~wizChosen => Kept(c.allowed, c.known)
=============================================================================
