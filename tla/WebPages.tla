------------------------------ MODULE WebPages -------------------------------
(***************************************************************************)
(* The web client outside the flow editor: one window, opened at one of    *)
(* its pages or panels, each of which is a module of its own and keeps its *)
(* own state.  What the other pages of the window would do is done by no   *)
(* one; the server, and others who use it, are part of each page's module. *)
(* The variables of a page that is not the one opened are Off.             *)
(***************************************************************************)
EXTENDS Integers, Sequences, FiniteSets

CONSTANTS
  Off,   \* no state
  Widgets, ServerWidgets, ItemIds, Absent, MaxDashInputs, Accounts, Tokens, Owner,
  Nobody, None, MaxSesInputs, Plugins, ComingSoon, Syncable, MaxPlugInputs,
  FormFields, FormSections, NeedsSwitch, RowNames, FirstRows, Blank, Redacted,
  MaxFormInputs,
  EntityNames, Clean, Dependent, Others, MaxEntInputs, RefKinds, EntitiesOf, MaxRows,
  MaxRefInputs, KindSeq, Hideable, MaxCatInputs, Roles, Unlisted, BuiltIn, Perms, Admin, Groups,
  LocalGroups, Users, MaxAccInputs, Actions, UserActions, Categories, MaxActInputs,
  Level, MaxWizInputs, UserIds, SSO, Me, MaxUsrInputs

VARIABLES
  page,   \* the page the window is opened at
  dashLoad, dashConfig, dashData, dashStatus, dashEdit, dashSave, dashDrag,
  dashStored, dashInputs,
  sesToken, sesCookie, sesValid, sesUser, sesLoading, sesAsk, sesPage, sesLeaving,
  sesPassword, sesInputs,
  plugServer, plugShown, plugPage, plugOnly, plugDetail, plugStart, plugTab,
  plugConfig, plugFilled, plugCalls, plugCrossed, plugInputs,
  formStored, formRows, formOpen, formItems, formNew, formDrag, formOn, formRoles,
  formSave, formShifted, formInputs,
  entServer, entAt, entShown, entLoading, entError, entTab, entGraph, entApis,
  entHealth, entEditing, entAsking, entForm, entCalls, entCrossed, entInputs,
  refText, refRows, refPickers, refCache, refInflight, refSubmitted, refSent,
  refRetyped, refInputs,
  catDisabled, catAt, catList, catLoading, catError, catKnown, catHidden, catStep,
  catKind, catChosen, catCalls, catInputs,
  accRoles, accGroups, accMade, accRules, accUnread, accTab, accShown, accExpanded,
  accMembers, accSubject, accUser, accPerms, accCalls, accRaced, accInputs,
  actCan, actStored, actRuns, actList, actLoading, actError, actCategory,
  actExecuting, actDialog, actRun, actTimer, actCalls, actWindow, actShared,
  actPollFailed, actInputs,
  wizExisting, wizOpen, wizStep, wizSaving, wizError, wizFilled, wizType, wizMode,
  wizUserMode, wizRoles, wizMinRole, wizChosen, wizCalls, wizInputs,
  usrServer, usrShown, usrLoading, usrError, usrForm, usrCreating, usrRefused,
  usrDialog, usrText, usrResetting, usrFailed, usrSucceeded, usrTimers, usrCalls,
  usrDone, usrMixed, usrInputs

Board      == INSTANCE Dashboard WITH Ids <- ItemIds
Login      == INSTANCE Session WITH Users <- Accounts
Plugin     == INSTANCE PluginsPage
Form       == INSTANCE ConfigForm WITH Names <- RowNames, Fields <- FormFields, Sections <- FormSections
Entity     == INSTANCE EntityPage WITH Names <- EntityNames
References == INSTANCE SchemaForm WITH Kinds <- RefKinds
List       == INSTANCE Catalog
Rights     == INSTANCE Access
Runs       == INSTANCE ActionsPage
Wizard     == INSTANCE ActionWizard WITH Fallback <- BuiltIn
People     == INSTANCE UsersPage WITH Ids <- UserIds

ASSUME PagesAssumption ==
  /\ Board!DashboardAssumption /\ Login!SessionAssumption
  /\ Plugin!PluginsAssumption /\ Form!FormAssumption /\ Entity!EntityAssumption
  /\ References!SchemaFormAssumption /\ List!CatalogAssumption
  /\ Rights!AccessAssumption /\ Runs!ActionsAssumption /\ Wizard!WizardAssumption
  /\ People!UsersAssumption

dashVars == <<dashLoad, dashConfig, dashData, dashStatus, dashEdit,
              dashSave, dashDrag, dashStored, dashInputs>>
sesVars  == <<sesToken, sesCookie, sesValid, sesUser, sesLoading,
              sesAsk, sesPage, sesLeaving, sesPassword, sesInputs>>
plugVars == <<plugServer, plugShown, plugPage, plugOnly, plugDetail,
              plugStart, plugTab, plugConfig, plugFilled, plugCalls, plugCrossed,
              plugInputs>>
formVars == <<formStored, formRows, formOpen, formItems, formNew,
              formDrag, formOn, formRoles, formSave, formShifted, formInputs>>
entVars  == <<entServer, entAt, entShown, entLoading, entError, entTab,
              entGraph, entApis, entHealth, entEditing, entAsking, entForm, entCalls,
              entCrossed, entInputs>>
refVars  == <<refText, refRows, refPickers, refCache, refInflight,
              refSubmitted, refSent, refRetyped, refInputs>>
catVars  == <<catDisabled, catAt, catList, catLoading, catError,
              catKnown, catHidden, catStep, catKind, catChosen, catCalls, catInputs>>
accVars  == <<accRoles, accGroups, accMade, accRules, accUnread, accTab, accShown,
              accExpanded, accMembers, accSubject, accUser, accPerms, accCalls,
              accRaced, accInputs>>
actVars  == <<actCan, actStored, actRuns, actList, actLoading, actError,
              actCategory, actExecuting, actDialog, actRun, actTimer, actCalls,
              actWindow, actShared, actPollFailed, actInputs>>
wizVars  == <<wizExisting, wizOpen, wizStep, wizSaving, wizError,
              wizFilled, wizType, wizMode, wizUserMode, wizRoles, wizMinRole,
              wizChosen, wizCalls, wizInputs>>
usrVars  == <<usrServer, usrShown, usrLoading, usrError, usrForm,
              usrCreating, usrRefused, usrDialog, usrText, usrResetting, usrFailed,
              usrSucceeded, usrTimers, usrCalls, usrDone, usrMixed, usrInputs>>

vars ==
  <<page, dashVars, sesVars, plugVars, formVars, entVars, refVars, catVars, accVars,
  actVars, wizVars, usrVars>>

Pages ==
  {"dashboard", "session", "plugins", "form", "entity", "references", "catalog",
   "access", "actions", "wizard", "users"}

-----------------------------------------------------------------------------
NoBoard ==
  /\ dashLoad = Off /\ dashConfig = Off /\ dashData = Off /\ dashStatus = Off
  /\ dashEdit = Off /\ dashSave = Off /\ dashDrag = Off /\ dashStored = Off
  /\ dashInputs = Off

NoLogin ==
  /\ sesToken = Off /\ sesCookie = Off /\ sesValid = Off /\ sesUser = Off
  /\ sesLoading = Off /\ sesAsk = Off /\ sesPage = Off /\ sesLeaving = Off
  /\ sesPassword = Off /\ sesInputs = Off

NoPlugin ==
  /\ plugServer = Off /\ plugShown = Off /\ plugPage = Off /\ plugOnly = Off
  /\ plugDetail = Off /\ plugStart = Off /\ plugTab = Off /\ plugConfig = Off
  /\ plugFilled = Off /\ plugCalls = Off /\ plugCrossed = Off /\ plugInputs = Off

NoForm ==
  /\ formStored = Off /\ formRows = Off /\ formOpen = Off /\ formItems = Off
  /\ formNew = Off /\ formDrag = Off /\ formOn = Off /\ formRoles = Off
  /\ formSave = Off /\ formShifted = Off /\ formInputs = Off

NoEntity ==
  /\ entServer = Off /\ entAt = Off /\ entShown = Off /\ entLoading = Off
  /\ entError = Off /\ entTab = Off /\ entGraph = Off /\ entApis = Off
  /\ entHealth = Off /\ entEditing = Off /\ entAsking = Off /\ entForm = Off
  /\ entCalls = Off /\ entCrossed = Off /\ entInputs = Off

NoReferences ==
  /\ refText = Off /\ refRows = Off /\ refPickers = Off /\ refCache = Off
  /\ refInflight = Off /\ refSubmitted = Off /\ refSent = Off /\ refRetyped = Off
  /\ refInputs = Off

NoList ==
  /\ catDisabled = Off /\ catAt = Off /\ catList = Off /\ catLoading = Off
  /\ catError = Off /\ catKnown = Off /\ catHidden = Off /\ catStep = Off
  /\ catKind = Off /\ catChosen = Off /\ catCalls = Off /\ catInputs = Off

NoRights ==
  /\ accRoles = Off /\ accGroups = Off /\ accMade = Off /\ accRules = Off
  /\ accUnread = Off /\ accTab = Off /\ accShown = Off /\ accExpanded = Off
  /\ accMembers = Off /\ accSubject = Off /\ accUser = Off /\ accPerms = Off
  /\ accCalls = Off /\ accRaced = Off /\ accInputs = Off

NoRuns ==
  /\ actCan = Off /\ actStored = Off /\ actRuns = Off /\ actList = Off
  /\ actLoading = Off /\ actError = Off /\ actCategory = Off /\ actExecuting = Off
  /\ actDialog = Off /\ actRun = Off /\ actTimer = Off /\ actCalls = Off
  /\ actWindow = Off /\ actShared = Off /\ actPollFailed = Off /\ actInputs = Off

NoWizard ==
  /\ wizExisting = Off /\ wizOpen = Off /\ wizStep = Off /\ wizSaving = Off
  /\ wizError = Off /\ wizFilled = Off /\ wizType = Off /\ wizMode = Off
  /\ wizUserMode = Off /\ wizRoles = Off /\ wizMinRole = Off /\ wizChosen = Off
  /\ wizCalls = Off /\ wizInputs = Off

NoPeople ==
  /\ usrServer = Off /\ usrShown = Off /\ usrLoading = Off /\ usrError = Off
  /\ usrForm = Off /\ usrCreating = Off /\ usrRefused = Off /\ usrDialog = Off
  /\ usrText = Off /\ usrResetting = Off /\ usrFailed = Off /\ usrSucceeded = Off
  /\ usrTimers = Off /\ usrCalls = Off /\ usrDone = Off /\ usrMixed = Off
  /\ usrInputs = Off

Init ==
  /\ page \in Pages
  /\ IF page = "dashboard" THEN Board!Init ELSE NoBoard
  /\ IF page = "session" THEN Login!Init ELSE NoLogin
  /\ IF page = "plugins" THEN Plugin!Init ELSE NoPlugin
  /\ IF page = "form" THEN Form!Init ELSE NoForm
  /\ IF page = "entity" THEN Entity!Init ELSE NoEntity
  /\ IF page = "references" THEN References!Init ELSE NoReferences
  /\ IF page = "catalog" THEN List!Init ELSE NoList
  /\ IF page = "access" THEN Rights!Init ELSE NoRights
  /\ IF page = "actions" THEN Runs!Init ELSE NoRuns
  /\ IF page = "wizard" THEN Wizard!Init ELSE NoWizard
  /\ IF page = "users" THEN People!Init ELSE NoPeople

\* A step of the page that is open leaves the others alone.
Alone(p) ==
  /\ page = p /\ UNCHANGED page
  /\ p # "dashboard" => UNCHANGED dashVars
  /\ p # "session" => UNCHANGED sesVars
  /\ p # "plugins" => UNCHANGED plugVars
  /\ p # "form" => UNCHANGED formVars
  /\ p # "entity" => UNCHANGED entVars
  /\ p # "references" => UNCHANGED refVars
  /\ p # "catalog" => UNCHANGED catVars
  /\ p # "access" => UNCHANGED accVars
  /\ p # "actions" => UNCHANGED actVars
  /\ p # "wizard" => UNCHANGED wizVars
  /\ p # "users" => UNCHANGED usrVars

Next ==
  \/ Alone("dashboard") /\ Board!Next
  \/ Alone("session") /\ Login!Next
  \/ Alone("plugins") /\ Plugin!Next
  \/ Alone("form") /\ Form!Next
  \/ Alone("entity") /\ Entity!Next
  \/ Alone("references") /\ References!Next
  \/ Alone("catalog") /\ List!Next
  \/ Alone("access") /\ Rights!Next
  \/ Alone("actions") /\ Runs!Next
  \/ Alone("wizard") /\ Wizard!Next
  \/ Alone("users") /\ People!Next

\* The server or the browser answers the requests for the user in the end.
Spec == Init /\ [][Next]_vars /\ WF_vars(Alone("session") /\ Login!Answer)

-----------------------------------------------------------------------------
(* Correctness *)

\* The type of every variable of the page that is open
TypeOK ==
  CASE page = "dashboard" -> Board!TypeOK
    [] page = "session" -> Login!TypeOK
    [] page = "plugins" -> Plugin!TypeOK
    [] page = "form" -> Form!TypeOK
    [] page = "entity" -> Entity!TypeOK
    [] page = "references" -> References!TypeOK
    [] page = "catalog" -> List!TypeOK
    [] page = "access" -> Rights!TypeOK
    [] page = "actions" -> Runs!TypeOK
    [] page = "wizard" -> Wizard!TypeOK
    [] page = "users" -> People!TypeOK

\* In the editor every widget has a place of its own: no merge, swap or drop makes
\* two share one (the arrows swap places and would do nothing) or loses one.
EveryWidgetHasItsPlace ==
  page = "dashboard" => Board!EveryWidgetHasItsPlace

\* What the pages of a user ask for, they never ask for in another's name: no late
\* answer, of a logout or of an earlier session, leaves one user's pages with the
\* credentials of another, be it the token or the cookie behind it.
RequestsAreTheUsers ==
  page = "session" => Login!RequestsAreTheUsers

\* No row is stored with the secret of another one, nor with the placeholder: as
\* long as no row has been removed from among them, and the form is not opened
\* while a save is under way, a row the server knows has the number it has in the
\* form, through saves that fail and forms opened again.
SecretsStayWithTheirRow ==
  page = "form" => Form!SecretsStayWithTheirRow

\* The form in the detail is the configuration of its plugin, and no configuration
\* is ever sent to another plugin, however the detail turns from one to another
\* while configurations are being loaded and saved.
SavedConfigIsOwn ==
  page = "plugins" => Plugin!SavedConfigIsOwn

\* When no plugin is being enabled or disabled the list tells the ones that are,
\* as long as nothing has been asked twice at once and no error is shown.
ListTellsEnabled ==
  page = "plugins" => Plugin!ListTellsEnabled

\* What is saved or deleted is the entity on the page, through renames and errors,
\* as long as the address does not change while the page waits for an answer.
WritesReachTheShown ==
  page = "entity" => Entity!WritesReachTheShown

\* A save leaves every annotation that has no field as the page was told it is, and
\* sends none without the one it belongs to.
SavesKeepTheRest ==
  page = "entity" => Entity!SavesKeepTheRest

\* What a picker shows is what is sent, whatever rows come and go before it.
PickersShowTheirValue ==
  page = "references" => References!PickersShowTheirValue

\* What a picker lists are entities of the kind of its row, whatever is loaded for the
\* others, as long as no picker that had a list has got another kind.
ListsAreOfTheKind ==
  page = "references" => References!ListsAreOfTheKind

\* The form on the page is for the kind the user chose for it, and that kind is one of
\* those offered, however the list of plugins changes under it.
FormIsAsChosen ==
  page = "catalog" => List!FormIsAsChosen

\* Who is shown as the members of the group that is open are its members, or nobody if
\* the server, which does not tell, could not list them; and the overview is the one of
\* the user chosen there: once the answers have come to a user who waits for each.
TabsShowTheChosen ==
  page = "access" => Rights!TabsShowTheChosen

\* An action that needs a token of the user never goes without, and no other action goes
\* with one, whatever dialogs were opened meanwhile; and it goes with the token GitHub
\* gave for it, unless GitHub was asked for another execution while it was for this one:
\* a token is then taken by every execution that waits.
TokensGoWhereNeeded ==
  page = "actions" => Runs!TokensGoWhereNeeded

\* The status of a run that has not ended, which cannot be closed, is polled, also when
\* answers come late and out of order, unless a poll has failed.
StatusIsFollowed ==
  page = "actions" => Runs!StatusIsFollowed

\* An action that is changed without a word about who may execute it is saved for every
\* role it was for, as far as those are known, and for no role below them, whichever list
\* it had and whenever the roles came: so for the same ones if all roles above one of the
\* list were in it too.  It is saved for anyone only if it was, or if no role of its list
\* is known.
RestrictionKept ==
  page = "wizard" => Wizard!RestrictionKept

\* A password is only ever set for the account it was typed for, however the one dialog
\* is closed by the user or a timer and opened for another account; and it tells success
\* only of an account whose password was set, unless it was opened for that one while the
\* password of another was still being set.
PasswordsGoWhereTyped ==
  page = "users" => People!PasswordsGoWhereTyped

\* Dropping a row moves that row alone: when every widget is listed, the others
\* keep their order.
DropMovesOneRow ==
  [][page = "dashboard" => Board!DropMovesOneRow]_vars

\* A row that stays in the list stays open or closed when others come and go, while
\* the form is not opened anew.
OpenFollowsRows ==
  [][page = "form" => Form!OpenFollowsRows]_vars

\* Although a press on one permission has all those of the role written, no other one of
\* the role changes with it, as long as the user waits for the page to be read again
\* after everything that is written, on this tab and on the others.
PressChangesOnePermission ==
  [][page = "access" => Rights!PressChangesOnePermission]_vars

\* The application always gets past its loading screen.
LoadingEnds ==
  (page = "session" /\ sesLoading) ~> (page = "session" /\ ~sesLoading)
=============================================================================
