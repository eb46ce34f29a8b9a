----------------------------- MODULE ActionsPage -----------------------------
(***************************************************************************)
(* The page of the actions (web/src/pages/Actions.tsx): the cards of all   *)
(* actions or of a category, the dialog that executes one, for some after  *)
(* GitHub has authorized the user in another window, and the status of the *)
(* run, which is polled until the run has ended.  There is one window for  *)
(* GitHub, whatever actions wait for it.  What is typed into the search    *)
(* and into the forms is left out.                                         *)
(***************************************************************************)
EXTENDS Naturals, FiniteSets

CONSTANTS
  Actions,
  UserActions,    \* those that run with the credentials of the user
  Categories,
  None,           \* no action, or no category
  MaxActInputs    \* bound: what the user does, and runs

ActionsAssumption ==
  /\ UserActions \subseteq Actions
  /\ None \notin Actions \cup Categories
  /\ {"all", "uncategorized"} \cap Categories = {}
  /\ MaxActInputs \in Nat

Statuses == {"pending", "running", "success", "failed"}
Terminal == {"success", "failed"}
Ids      == 1..MaxActInputs

VARIABLES
  actCan,        \* what the user may do: write, execute
  actStored,     \* the server's: the category of each action there is
  actRuns,       \* the server's: the status of each run; there is none if "none"
  actList,       \* the actions as last read
  actLoading, actError,
  actCategory,   \* activeCategory
  actExecuting,  \* the action of the dialog
  actDialog,     \* the history of the runs of an action, or the wizard
  actRun,        \* activeRun: its id, 0 if there is none, and its status
  actTimer,      \* the id of the run that is polled, or 0
  actCalls,      \* requests, those to GitHub and its messages too, that have not ended
  actWindow,     \* the window of GitHub: of what execution, and by which it was opened
  actShared,     \* history: executions that waited for GitHub while another one did
  actPollFailed, \* history: a poll has failed since the timer was last started
  actInputs

actVars == <<actCan, actStored, actRuns, actList, actLoading, actError, actCategory,
             actExecuting, actDialog, actRun, actTimer, actCalls, actWindow, actShared,
             actPollFailed, actInputs>>

server  == <<actStored, actRuns>>
list    == <<actList, actLoading, actError>>
running == <<actRun, actTimer, actPollFailed>>
github  == <<actWindow, actShared>>

PartialFunctions(S, T) == UNION {[D -> T] : D \in SUBSET S}
Lists == PartialFunctions(Actions, Categories \cup {None})

\* of: the action; token: of the user, named by the execution GitHub gave it for, or 0;
\* id: the run; got: its status; nr: the execution
Call == [op : {"list", "config", "popup", "message", "execute", "poll"},
         of : Actions \cup {None}, token : {0} \cup Ids, id : {0} \cup Ids,
         got : Statuses \cup {"none"}, nr : {0} \cup Ids]

Request(op, of) ==
  [op |-> op, of |-> of, token |-> 0, id |-> 0, got |-> "none", nr |-> actInputs']

NoRun  == [id |-> 0, status |-> "none"]
Closed == [of |-> 0, by |-> {}]

Init ==
  /\ actCan \in SUBSET {"write", "execute"}
  /\ actStored \in [Actions -> Categories \cup {None}]
  /\ actRuns = [i \in Ids |-> "none"]
  /\ actList = <<>> /\ actLoading = TRUE /\ actError = FALSE
  /\ actCategory = "all"
  /\ actExecuting = None /\ actDialog = "none"
  /\ actRun = NoRun /\ actTimer = 0
  /\ actInputs = 0
  /\ actCalls = {[op |-> "list", of |-> None, token |-> 0, id |-> 0, got |-> "none", nr |-> 0]}
  /\ actWindow = Closed /\ actShared = {}
  /\ actPollFailed = FALSE

-----------------------------------------------------------------------------
(* The cards *)

\* While actions are read the page shows nothing else; a dialog, or the status of a run,
\* covers it.
Open == ~actLoading /\ actExecuting = None /\ actDialog = "none" /\ actRun.id = 0

Of(category) == {a \in DOMAIN actList : actList[a] = category}

\* All, those of each category there is, and those without one if there are any
Chips ==
  {"all"} \cup {c \in Categories : Of(c) # {}} \cup
  (IF Of(None) = {} THEN {} ELSE {"uncategorized"})

Filtered ==
  CASE actCategory = "all"           -> DOMAIN actList
    [] actCategory = "uncategorized" -> Of(None)
    [] OTHER                         -> Of(actCategory)

\* All actions are shown in sections, those without a category in the last one.
Sections ==
  IF actCategory # "all" THEN {Filtered}
  ELSE {Of(c) : c \in Categories \cup {None}} \ {{}}

Cards == UNION Sections

Input == actInputs < MaxActInputs /\ actInputs' = actInputs + 1

ChooseCategory ==
  /\ Open /\ actCategory' \in {c \in Chips : Of(None) # DOMAIN actList}
  /\ UNCHANGED <<actCan, server, list, actExecuting, actDialog, running, actCalls, github,
                 actInputs>>

\* By the buttons of a card; without the permission it has none to execute or to edit.
PressCard ==
  /\ Open /\ Input
  /\ \E a \in Cards :
       \/ /\ "execute" \in actCan
          /\ actExecuting' = a /\ UNCHANGED actDialog
       \/ /\ actDialog' \in {"history"} \cup (IF "write" \in actCan THEN {"wizard"} ELSE {})
          /\ UNCHANGED actExecuting
  /\ UNCHANGED <<actCan, server, list, actCategory, running, actCalls, github>>

NewAction ==
  /\ Open /\ "write" \in actCan /\ Input
  /\ actDialog' = "wizard"
  /\ UNCHANGED <<actCan, server, list, actCategory, actExecuting, running, actCalls, github>>

CloseDialog ==
  /\ ~actLoading /\ actRun.id = 0
  /\ actExecuting # None \/ actDialog # "none"
  /\ actExecuting' = None /\ actDialog' = "none"
  /\ UNCHANGED <<actCan, server, list, actCategory, running, actCalls, github,
                 actInputs>>

-----------------------------------------------------------------------------
(* The execution of an action *)

\* Faulty: it goes on with the action of the dialog, whichever that is by now
NextOfDialog(c, op, token) == [c EXCEPT !.op = op, !.of = actExecuting, !.token = token]

\* What is asked for after the form has been sent goes on with the action of the form,
\* also when the dialog has been closed.
NextStep(c, op, token) == [c EXCEPT !.op = op, !.token = token]

\* What waits for GitHub, and what GitHub has sent
Asking == {c \in actCalls : c.op \in {"config", "popup", "message"}}

HandleExecute ==
  /\ actExecuting # None /\ ~actLoading /\ actRun.id = 0 /\ Input
  /\ IF actExecuting \in UserActions
     THEN /\ actCalls' = actCalls \cup {Request("config", actExecuting)}
          /\ actShared' = actShared \cup
               (IF Asking = {} THEN {} ELSE {actInputs'} \cup {c.nr : c \in Asking})
     ELSE actCalls' = actCalls \cup {Request("execute", actExecuting)} /\ UNCHANGED actShared
  /\ UNCHANGED <<actCan, server, list, actCategory, actExecuting, actDialog, running, actWindow>>

Fail(c) == actError' = TRUE /\ actCalls' = actCalls \ {c}

\* GitHub is asked only if actions may run with the credentials of the user, and if the
\* browser lets the window open.  A window that is open already is taken over.
ReceiveConfig(c) ==
  /\ c.op = "config"
  /\ \/ /\ actCalls' = (actCalls \ {c}) \cup {NextStep(c, "popup", 0)}
        /\ actWindow' = [of |-> c.nr, by |-> actWindow.by \cup {c.nr}]
        /\ UNCHANGED actError
     \/ Fail(c) /\ UNCHANGED actWindow
  /\ UNCHANGED <<actCan, server, actList, actLoading, actCategory, actExecuting, actDialog,
                 running, actShared, actInputs>>

\* The window sends the page a token, or an error, and closes; the user can close it too.
WindowCloses ==
  /\ actWindow # Closed /\ actWindow' = Closed
  /\ \/ \E token \in {0, actWindow.of} :
          actCalls' = actCalls \cup
            {[op |-> "message", of |-> None, token |-> token, id |-> 0, got |-> "none",
              nr |-> actWindow.of]}
     \/ UNCHANGED actCalls
  /\ UNCHANGED <<actCan, server, list, actCategory, actExecuting, actDialog, running,
                 actShared, actInputs>>

\* Whatever waits for GitHub takes the message for its own, and closes the window.
ReceiveMessage(m) ==
  /\ m.op = "message"
  /\ LET waiting == {c \in actCalls : c.op = "popup"} IN
     /\ actCalls' = (actCalls \ ({m} \cup waiting)) \cup
          {NextStep(c, "execute", m.token) : c \in IF m.token = 0 THEN {} ELSE waiting}
     /\ actError' = (actError \/ (m.token = 0 /\ waiting # {}))
     /\ actWindow' = IF waiting = {} THEN actWindow ELSE Closed
  /\ UNCHANGED <<actCan, server, actList, actLoading, actCategory, actExecuting, actDialog,
                 running, actShared, actInputs>>

\* The window is found closed, or is closed after two minutes.
PopupEnds(c) ==
  /\ c.op = "popup"
  /\ Fail(c)
  /\ actWindow' = IF c.nr \in actWindow.by THEN Closed ELSE actWindow
  /\ UNCHANGED <<actCan, server, actList, actLoading, actCategory, actExecuting, actDialog,
                 running, actShared, actInputs>>

\* Faulty: the timer is started for another run only
ShowAndPollOnce(id, status) ==
  /\ actRun' = [id |-> id, status |-> status]
  /\ actTimer' = IF status \in Terminal THEN 0 ELSE IF id = actRun.id THEN actTimer ELSE id
  /\ actPollFailed' = (actPollFailed /\ id = actRun.id)

\* A run is shown when its first status, or another run's, comes: a status that is not
\* the last one starts the timer anew.
Show(id, status) ==
  /\ actRun' = [id |-> id, status |-> status]
  /\ IF actRun' = actRun THEN UNCHANGED <<actTimer, actPollFailed>>
     ELSE /\ actTimer' = IF status \in Terminal THEN 0 ELSE id
          /\ actPollFailed' = FALSE

\* Whatever dialog is open by then to execute an action is closed.
ReceiveExecute(c) ==
  /\ c.op = "execute"
  /\ \/ \E i \in Ids :
          /\ actRuns[i] = "none" /\ \A j \in 1..(i - 1) : actRuns[j] # "none"
          /\ actRuns' = [actRuns EXCEPT ![i] = "pending"]
          /\ Show(i, "pending")
          /\ actExecuting' = None
          /\ actCalls' = actCalls \ {c} /\ UNCHANGED actError
     \/ Fail(c) /\ UNCHANGED <<actRuns, running, actExecuting>>
  /\ UNCHANGED <<actCan, actStored, actList, actLoading, actCategory, actDialog, github,
                 actInputs>>

-----------------------------------------------------------------------------
(* The status of the run.  A poll does not wait for the answer to the last one. *)

Poll ==
  /\ actTimer # 0
  /\ Cardinality({c \in actCalls : c.op = "poll"}) < 2
  /\ actCalls' = actCalls \cup
       {[op |-> "poll", of |-> None, token |-> 0, id |-> actTimer, got |-> actRuns[actTimer],
         nr |-> 0]}
  /\ UNCHANGED <<actCan, server, list, actCategory, actExecuting, actDialog, running, github,
                 actInputs>>

\* A failed poll stops the timer, whatever run it is of by now.
ReceivePoll(c) ==
  /\ c.op = "poll"
  /\ \/ Show(c.id, c.got)
     \/ actTimer' = 0 /\ actPollFailed' = TRUE /\ UNCHANGED actRun
  /\ actCalls' = actCalls \ {c}
  /\ UNCHANGED <<actCan, server, list, actCategory, actExecuting, actDialog, github, actInputs>>

\* The status can be closed only once the run has ended.
CloseRun ==
  /\ actRun.status \in Terminal /\ ~actLoading
  /\ actRun' = NoRun /\ actTimer' = 0
  /\ UNCHANGED <<actCan, server, list, actCategory, actExecuting, actDialog, actCalls, github,
                 actPollFailed, actInputs>>

RunGoesOn ==
  /\ \E i \in Ids :
       \/ actRuns[i] = "pending" /\ actRuns' = [actRuns EXCEPT ![i] = "running"]
       \/ actRuns[i] \in {"pending", "running"}
            /\ \E s \in Terminal : actRuns' = [actRuns EXCEPT ![i] = s]
  /\ UNCHANGED <<actCan, actStored, list, actCategory, actExecuting, actDialog, running,
                 actCalls, github, actInputs>>

-----------------------------------------------------------------------------
(* The list, and the wizard that adds an action or changes one *)

ReceiveList(c) ==
  /\ c.op = "list"
  /\ \/ actList' = actStored /\ UNCHANGED actError
     \/ actError' = TRUE /\ UNCHANGED actList
  /\ actLoading' = FALSE
  /\ actCalls' = actCalls \ {c}
  /\ UNCHANGED <<actCan, server, actCategory, actExecuting, actDialog, running, github,
                 actInputs>>

\* Another category for an action, or an action that was not there; its wizard is closed
\* and the actions are read again.
HandleWizardSave ==
  /\ actDialog = "wizard" /\ ~actLoading /\ actRun.id = 0 /\ Input
  /\ \E a \in Actions, c \in Categories \cup {None} :
       actStored' = [b \in DOMAIN actStored \cup {a} |-> IF b = a THEN c ELSE actStored[b]]
  /\ actDialog' = "none"
  /\ actLoading' = TRUE
  /\ actCalls' = actCalls \cup {Request("list", None)}
  /\ UNCHANGED <<actCan, actRuns, actList, actError, actCategory, actExecuting, running, github>>

Next ==
  \/ ChooseCategory \/ PressCard \/ NewAction \/ CloseDialog
  \/ HandleExecute \/ WindowCloses \/ Poll \/ CloseRun \/ RunGoesOn \/ HandleWizardSave
  \/ \E c \in actCalls :
       \/ ReceiveConfig(c) \/ PopupEnds(c) \/ ReceiveMessage(c) \/ ReceiveExecute(c)
       \/ ReceivePoll(c) \/ ReceiveList(c)

Spec == Init /\ [][Next]_actVars

-----------------------------------------------------------------------------
(* Correctness *)

\* The type of every variable
TypeOK ==
  /\ actCan \subseteq {"write", "execute"}
  /\ {actStored, actList} \subseteq Lists
  /\ actRuns \in [Ids -> Statuses \cup {"none"}]
  /\ {actLoading, actError, actPollFailed} \subseteq BOOLEAN
  /\ actCategory \in {"all", "uncategorized"} \cup Categories
  /\ actExecuting \in Actions \cup {None}
  /\ actDialog \in {"none", "history", "wizard"}
  /\ actRun \in [id : {0} \cup Ids, status : Statuses \cup {"none"}]
  /\ actTimer \in {0} \cup Ids
  /\ actCalls \subseteq Call /\ actInputs \in 0..MaxActInputs
  /\ actWindow \in [of : {0} \cup Ids, by : SUBSET Ids] /\ actShared \subseteq Ids

\* An action that needs a token of the user never goes without, and no other action goes
\* with one, whatever dialogs were opened meanwhile; and it goes with the token GitHub
\* gave for it, unless GitHub was asked for another execution while it was for this one:
\* a token is then taken by every execution that waits.
TokensGoWhereNeeded ==
  \A c \in actCalls : c.op = "execute" =>
    /\ c.token # 0 <=> c.of \in UserActions
    /\ c.token \in {0, c.nr} \/ c.nr \in actShared

\* The status of a run that has not ended, which cannot be closed, is polled, also when
\* answers come late and out of order, unless a poll has failed.
StatusIsFollowed ==
  actRun.id # 0 /\ actRun.status \notin Terminal => actTimer = actRun.id \/ actPollFailed
=============================================================================
