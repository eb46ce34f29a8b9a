----------------------------- MODULE ActionRuns -----------------------------
(***************************************************************************)
(* Action runs: the ExecuteAction handler (internal/api/handlers), the     *)
(* goroutine it starts (dispatcher.Manager.Dispatch), the action_runs rows *)
(* both write, the events they publish and the Teams notifier that listens *)
(* to them.  GitHub, webhook receivers and the process supervisor are the  *)
(* environment.                                                            *)
(*                                                                         *)
(* One element of Runs is one call of ExecuteAction that got past its      *)
(* validation.  A run's in-memory *db.ActionRun is split into the part the *)
(* goroutine has reached (pc) and the outcome its executor returned.       *)
(***************************************************************************)
EXTENDS Naturals

CONSTANTS
  Runs,         \* calls of ExecuteAction
  TypeOf,       \* spec.type of the action each call runs
  RefOf,        \* branch a github-action run is dispatched on
  Workflows,    \* ids of workflow runs GitHub may create
  Refs,         \* branches
  NoWorkflow,   \* "no workflow run known"
  Lookback,     \* findWorkflowRun's 10 s of clock tolerance, in clock units
  MaxClock,     \* bound on the clock
  Notify,       \* what the Teams plugin is configured to announce
  DbMayFail,    \* may UpdateActionRun return an error?
  MayCrash      \* may the process die?

ActionType == {"webhook", "github-action", "other"}

ASSUME ConstantsAssumption ==
  /\ TypeOf \in [Runs -> ActionType]
  /\ RefOf \in [Runs -> Refs]
  /\ Refs # {}
  /\ NoWorkflow \notin Workflows
  /\ Lookback \in Nat
  /\ MaxClock \in Nat
  /\ Notify \subseteq {"triggered", "success", "failed"}
  /\ DbMayFail \in BOOLEAN
  /\ MayCrash \in BOOLEAN

Ended   == {"success", "failed"}
Status  == {"absent", "pending", "running"} \cup Ended
MaybeWf == Workflows \cup {NoWorkflow}

VARIABLES
  \* Gantry
  row,          \* the action_runs table: status column and workflow in outputs
  pc,           \* where the run's dispatch goroutine is
  outcome,      \* what the executor returned to Dispatch
  found,        \* lastRun in waitForWorkflowRun
  dispatchedAt, \* time taken just before the workflow_dispatch POST
  events,       \* notifier goroutines started by Bus.Publish, not yet run
  up,           \* is the server process alive?
  \* The outside world
  clock,
  calls,        \* how often a run has reached the system it automates
  queued,       \* accepted workflow_dispatch requests with no workflow run yet
  workflow,     \* GitHub's workflow runs
  notified,     \* messages posted in the Teams channel, per run
  missed        \* events whose notifier has logged an error

gantryVars == <<row, pc, outcome, found, dispatchedAt, events, up>>
worldVars  == <<clock, calls, queued, workflow, notified, missed>>
vars       == <<gantryVars, worldVars>>

PC == {"idle", "spawned", "executing", "dispatched", "polling", "finishing",
       "done", "lost"}

Event    == [run : Runs, status : Notify]
Row      == [status : Status, wf : MaybeWf]
Outcome  == [status : Ended, wf : MaybeWf]
NoOutcome == [status |-> "failed", wf |-> NoWorkflow]
Workflow == [state : {"none", "in_progress", "completed"},
             conclusion : {"", "success", "failure"},
             by : Runs \cup {NoWorkflow},
             at : 0..MaxClock,
             ref : Refs]

AnyRef == CHOOSE b \in Refs : TRUE

Init ==
  /\ row = [r \in Runs |-> [status |-> "absent", wf |-> NoWorkflow]]
  /\ pc = [r \in Runs |-> "idle"]
  /\ outcome = [r \in Runs |-> NoOutcome]
  /\ found = [r \in Runs |-> NoWorkflow]
  /\ dispatchedAt = [r \in Runs |-> 0]
  /\ events = {}
  /\ up = TRUE
  /\ clock = 0
  /\ calls = [r \in Runs |-> 0]
  /\ queued = {}
  /\ workflow = [w \in Workflows |->
       [state |-> "none", conclusion |-> "", by |-> NoWorkflow, at |-> 0,
        ref |-> AnyRef]]
  /\ notified = [r \in Runs |-> {}]
  /\ missed = {}

-----------------------------------------------------------------------------
(***************************************************************************)
(* The handler and the dispatch goroutine.                                 *)
(***************************************************************************)
\* Bus.Publish: one goroutine per handler.  The notifier's returns at once for
\* a status it is not configured to announce; no other handler keeps state here.
Publish(r, s) ==
  events' = IF s \in Notify THEN events \cup {[run |-> r, status |-> s]}
                            ELSE events

Goto(r, label) == pc' = [pc EXCEPT ![r] = label]

\* Faulty: the UPDATE statement leaves out the status column.
UpdateWithoutStatus(r, s, w, ok) ==
  /\ ok \/ DbMayFail
  /\ row' = IF ok THEN [row EXCEPT ![r].wf = w] ELSE row

\* UpdateActionRun overwrites every mutable column, or fails and leaves the row.
UpdateActionRun(r, s, w, ok) ==
  /\ ok \/ DbMayFail
  /\ row' = IF ok THEN [row EXCEPT ![r] = [status |-> s, wf |-> w]] ELSE row

\* publishRunEvent after an update that is checked: only if it went through.
UpdateAndPublish(r, s, w) ==
  \E ok \in BOOLEAN :
    /\ UpdateActionRun(r, s, w, ok)
    /\ IF ok THEN Publish(r, s) ELSE UNCHANGED events

\* The locals of the executor end with it.
Forget(r) ==
  /\ found' = [found EXCEPT ![r] = NoWorkflow]
  /\ dispatchedAt' = [dispatchedAt EXCEPT ![r] = 0]

\* The executor returns: Dispatch goes on to record the outcome.
Return(r, s, w) ==
  /\ outcome' = [outcome EXCEPT ![r] = [status |-> s, wf |-> w]]
  /\ Goto(r, "finishing")
  /\ Forget(r)

\* POST /actions/{name}/execute: the row, the event and the goroutine.
ExecuteAction(r) ==
  /\ up
  /\ pc[r] = "idle"
  /\ row' = [row EXCEPT ![r] = [status |-> "pending", wf |-> NoWorkflow]]
  /\ Publish(r, "triggered")
  /\ Goto(r, "spawned")
  /\ UNCHANGED <<outcome, found, dispatchedAt, up, worldVars>>

\* Dispatch: the transition to running.
BeginDispatch(r) ==
  /\ pc[r] = "spawned"
  /\ UpdateAndPublish(r, "running", NoWorkflow)
  /\ Goto(r, "executing")
  /\ UNCHANGED <<outcome, found, dispatchedAt, up, worldVars>>

\* runWebhook: one request.  A transport error may come before or after the
\* receiver has acted on it; a missing URL fails before any request.
RunWebhook(r) ==
  /\ pc[r] = "executing" /\ TypeOf[r] = "webhook"
  /\ \/ /\ calls' = [calls EXCEPT ![r] = @ + 1]
        /\ \E s \in Ended : Return(r, s, NoWorkflow)
     \/ /\ UNCHANGED calls
        /\ Return(r, "failed", NoWorkflow)
  /\ UNCHANGED <<row, events, up, clock, queued, workflow, notified, missed>>

\* Dispatch's default case: a type with no executor succeeds at once.
RunUnknownType(r) ==
  /\ pc[r] = "executing" /\ TypeOf[r] = "other"
  /\ Return(r, "success", NoWorkflow)
  /\ UNCHANGED <<row, events, up, worldVars>>

\* runGitHubAction up to the answer to the workflow_dispatch POST.  A config
\* or token error and a refusal leave GitHub alone; a lost answer does not.
PostWorkflowDispatch(r) ==
  /\ pc[r] = "executing" /\ TypeOf[r] = "github-action"
  /\ \/ /\ calls' = [calls EXCEPT ![r] = @ + 1]
        /\ queued' = queued \cup {r}
        /\ \/ /\ Goto(r, "dispatched")
              /\ dispatchedAt' = [dispatchedAt EXCEPT ![r] = clock]
              /\ UNCHANGED <<outcome, found>>
           \/ Return(r, "failed", NoWorkflow)
     \/ /\ UNCHANGED <<calls, queued>>
        /\ Return(r, "failed", NoWorkflow)
  /\ UNCHANGED <<row, events, up, clock, workflow, notified, missed>>

\* updateGitHubActionRunOutput: the intermediate save, still "running".
RecordDispatched(r) ==
  /\ pc[r] = "dispatched"
  /\ UpdateAndPublish(r, "running", NoWorkflow)
  /\ Goto(r, "polling")
  /\ UNCHANGED <<outcome, found, dispatchedAt, up, worldVars>>

\* The workflow runs of GitHub's listing that findWorkflowRun accepts, and
\* the one it takes: the listing is newest first and the first match wins.
Candidates(r) ==
  {w \in Workflows : /\ workflow[w].state # "none"
                     /\ workflow[w].at + Lookback >= dispatchedAt[r]
                     /\ workflow[w].ref = RefOf[r]}

Newest(S) == {w \in S : \A v \in S : workflow[v].at <= workflow[w].at}

\* Faulty: a completed workflow run counts as a success.
VerdictIgnoresConclusion(w) == "success"

\* Faulty: GitHub's conclusion is stored as the status.
VerdictIsConclusion(w) == workflow[w].conclusion

\* The status of a run whose workflow run has completed.
Verdict(w) ==
  IF workflow[w].conclusion = "success" THEN "success" ELSE "failed"

\* What waitForWorkflowRun does with the workflow run a poll returned.
Observe(r, w) ==
  \/ /\ workflow[w].state = "completed"
     /\ Return(r, Verdict(w), w)
  \/ /\ workflow[w].state # "completed"
     /\ found' = [found EXCEPT ![r] = w]
     /\ UNCHANGED <<pc, outcome, dispatchedAt>>

\* waitForWorkflowRun: look the run up in the listing, then poll it by id.
PollWorkflow(r) ==
  /\ pc[r] = "polling"
  /\ \E w \in (IF found[r] = NoWorkflow THEN Newest(Candidates(r))
                                        ELSE {found[r]}) : Observe(r, w)
  /\ UNCHANGED <<row, events, up, worldVars>>

\* A poll fails before the deadline: the run fails, and lastRun is forgotten.
PollError(r) ==
  /\ pc[r] = "polling"
  /\ Return(r, "failed", NoWorkflow)
  /\ UNCHANGED <<row, events, up, worldVars>>

\* Faulty: the deadline is only looked at once a workflow run was found.
PollTimeoutOnlyIfFound(r) ==
  /\ pc[r] = "polling" /\ found[r] # NoWorkflow
  /\ Return(r, "failed", found[r])
  /\ UNCHANGED <<row, events, up, worldVars>>

\* The deadline passes: the run fails, reporting the last state it saw.
PollTimeout(r) ==
  /\ pc[r] = "polling"
  /\ Return(r, "failed", found[r])
  /\ UNCHANGED <<row, events, up, worldVars>>

\* Faulty: the outcome is announced by the wrong branch of an error check.
FinishSilently(r) ==
  /\ pc[r] = "finishing"
  /\ \E ok \in BOOLEAN :
       /\ UpdateActionRun(r, outcome[r].status, outcome[r].wf, ok)
       /\ IF ok THEN UNCHANGED events ELSE Publish(r, outcome[r].status)
  /\ Goto(r, "done")
  /\ outcome' = [outcome EXCEPT ![r] = NoOutcome]
  /\ UNCHANGED <<found, dispatchedAt, up, worldVars>>

\* The end of Dispatch: the error of this update is discarded, and the event
\* is published either way.
FinishDispatch(r) ==
  /\ pc[r] = "finishing"
  /\ \E ok \in BOOLEAN :
       UpdateActionRun(r, outcome[r].status, outcome[r].wf, ok)
  /\ Publish(r, outcome[r].status)
  /\ Goto(r, "done")
  /\ outcome' = [outcome EXCEPT ![r] = NoOutcome]
  /\ UNCHANGED <<found, dispatchedAt, up, worldVars>>

-----------------------------------------------------------------------------
(***************************************************************************)
(* Event delivery, and the process.                                        *)
(***************************************************************************)
\* The message is in the channel, although the answer to the post may be an
\* error all the same.
Post(e) == notified' = [notified EXCEPT ![e.run] = @ \cup {e.status}]

\* A notifier goroutine runs, in no particular order.  If the configuration
\* cannot be read or Teams does not take the message the error is logged, and
\* nobody tries again.
DeliverEvent(e) ==
  /\ e \in events
  /\ events' = events \ {e}
  /\ \/ Post(e) /\ missed' \in {missed, missed \cup {e}}
     \/ UNCHANGED notified /\ missed' = missed \cup {e}
  /\ UNCHANGED <<row, pc, outcome, found, dispatchedAt, up>>
  /\ UNCHANGED <<clock, calls, queued, workflow>>

\* Every goroutine dies with the process: nothing waits for dispatches.
Crash ==
  /\ MayCrash /\ up
  /\ up' = FALSE
  /\ events' = {}
  /\ pc' = [r \in Runs |-> IF pc[r] \in {"idle", "done"} THEN pc[r] ELSE "lost"]
  /\ outcome' = [r \in Runs |-> NoOutcome]
  /\ found' = [r \in Runs |-> NoWorkflow]
  /\ dispatchedAt' = [r \in Runs |-> 0]
  /\ UNCHANGED <<row, worldVars>>

\* Faulty: the start-up dispatches again what the last process left behind.
RestartDispatchesAgain ==
  /\ ~up
  /\ up' = TRUE
  /\ pc' = [r \in Runs |-> IF pc[r] = "lost" THEN "spawned" ELSE pc[r]]
  /\ UNCHANGED <<row, outcome, found, dispatchedAt, events, worldVars>>

\* Faulty: the start-up puts every unfinished row back to "pending".
RestartResetsRows ==
  /\ ~up
  /\ up' = TRUE
  /\ row' = [r \in Runs |-> IF row[r].status = "running"
                            THEN [row[r] EXCEPT !.status = "pending"] ELSE row[r]]
  /\ UNCHANGED <<pc, outcome, found, dispatchedAt, events, worldVars>>

\* runServe looks at no action run.
Restart ==
  /\ ~up
  /\ up' = TRUE
  /\ UNCHANGED <<row, pc, outcome, found, dispatchedAt, events, worldVars>>

-----------------------------------------------------------------------------
(***************************************************************************)
(* GitHub.                                                                 *)
(***************************************************************************)
CreateWorkflow(w, by, ref) ==
  /\ workflow[w].state = "none"
  /\ workflow' = [workflow EXCEPT ![w] =
       [state |-> "in_progress", conclusion |-> "", by |-> by, at |-> clock,
        ref |-> ref]]
  /\ UNCHANGED <<gantryVars, clock, calls, notified, missed>>

\* An accepted dispatch becomes a workflow run, some time later.
WorkflowAppears(r, w) ==
  /\ r \in queued
  /\ queued' = queued \ {r}
  /\ CreateWorkflow(w, r, RefOf[r])

\* Somebody else dispatches the same workflow.
ForeignWorkflow(w, ref) ==
  /\ UNCHANGED queued
  /\ CreateWorkflow(w, NoWorkflow, ref)

WorkflowCompletes(w) ==
  /\ workflow[w].state = "in_progress"
  /\ \E c \in {"success", "failure"} :
       workflow' = [workflow EXCEPT
         ![w] = [@ EXCEPT !.state = "completed", !.conclusion = c]]
  /\ UNCHANGED <<gantryVars, clock, calls, queued, notified, missed>>

Tick ==
  /\ clock < MaxClock
  /\ clock' = clock + 1
  /\ UNCHANGED <<gantryVars, calls, queued, workflow, notified, missed>>

-----------------------------------------------------------------------------
\* The steps of Dispatch that its timeouts bound.
DispatchStep(r) ==
  \/ BeginDispatch(r)
  \/ RunWebhook(r)
  \/ RunUnknownType(r)
  \/ PostWorkflowDispatch(r)
  \/ RecordDispatched(r)
  \/ PollTimeout(r)
  \/ FinishDispatch(r)

Next ==
  \/ \E r \in Runs : \/ ExecuteAction(r)
                     \/ DispatchStep(r)
                     \/ PollWorkflow(r)
                     \/ PollError(r)
                     \/ \E w \in Workflows : WorkflowAppears(r, w)
  \/ \E e \in events : DeliverEvent(e)
  \/ Crash
  \/ Restart
  \/ \E w \in Workflows : \/ WorkflowCompletes(w)
                          \/ \E ref \in Refs : ForeignWorkflow(w, ref)
  \/ Tick

Spec == Init /\ [][Next]_vars

\* The Go scheduler runs every goroutine that can run; the HTTP client's 30 s
\* timeout and the poll deadline let no step of Dispatch wait for ever.
FairSpec ==
  /\ Spec
  /\ \A r \in Runs : WF_vars(DispatchStep(r))
  /\ \A r \in Runs : WF_vars(\E e \in events : e.run = r /\ DeliverEvent(e))

-----------------------------------------------------------------------------
(***************************************************************************)
(* Properties.                                                             *)
(***************************************************************************)
TypeOK ==
  /\ row \in [Runs -> Row]
  /\ pc \in [Runs -> PC]
  /\ outcome \in [Runs -> Outcome]
  /\ found \in [Runs -> MaybeWf]
  /\ dispatchedAt \in [Runs -> 0..MaxClock]
  /\ events \subseteq Event
  /\ up \in BOOLEAN
  /\ clock \in 0..MaxClock
  /\ calls \in [Runs -> Nat]
  /\ queued \subseteq Runs
  /\ workflow \in [Workflows -> Workflow]
  /\ notified \in [Runs -> SUBSET Notify]
  /\ missed \subseteq Event

\* A github-action run is stored as a success only when the workflow run it
\* names has completed with the conclusion "success": no timeout, lost poll,
\* failed save or restart in between turns into one (runGitHubAction).
SuccessIsEarned ==
  \A r \in Runs :
    row[r].status = "success" /\ TypeOf[r] = "github-action"
      => /\ row[r].wf \in Workflows
         /\ workflow[row[r].wf].state = "completed"
         /\ workflow[row[r].wf].conclusion = "success"

\* However its request, its saves and the process fail, a run reaches the
\* system it automates at most once: nothing is sent again (Dispatch).
AtMostOneCall == \A r \in Runs : calls[r] <= 1

\* What is announced in Teams is what the table says, and a run is announced
\* with one outcome only.  It needs saves that succeed: FinishDispatch
\* publishes the outcome whether or not it could store it.
AnnouncedIsStored ==
  \A r \in Runs : notified[r] \cap Ended \subseteq {row[r].status}

\* The rows of the table live the life RunLifecycle promises.
Lifecycle ==
  INSTANCE RunLifecycle WITH status <- [r \in Runs |-> row[r].status]
RowsFollowLifecycle == Lifecycle!Spec

\* With saves that succeed and a process that stays up, every dispatched run
\* ends in the table, whatever GitHub does (the deadline of
\* waitForWorkflowRun).
EveryRunEnds ==
  \A r \in Runs : pc[r] = "spawned" ~> row[r].status \in Ended

EndMissed(r) == \E e \in missed : e.run = r /\ e.status \in Ended

\* ... and its end is announced in Teams when outcomes are configured to be,
\* or the log says that it was not: it is lost on the way only where the
\* notifier could not read its configuration or post the message.
EveryEndIsAnnounced ==
  Ended \subseteq Notify =>
    \A r \in Runs : pc[r] = "spawned" ~> notified[r] \cap Ended # {} \/ EndMissed(r)

-----------------------------------------------------------------------------
(***************************************************************************)
(* Statements of the documentation that the code does not keep.            *)
(***************************************************************************)
\* The status table of the actions guide: "running" is "Currently executing".
\* A process that dies, or a last save that fails, leaves a row "running"
\* that nothing executes and nothing will ever end.
RunningMeansExecuting ==
  up => \A r \in Runs :
          row[r].status = "running" => pc[r] \notin {"done", "lost"}

\* The comment on runGitHubAction: it waits "for the resulting workflow run".
\* Of two dispatches of one workflow on one branch, or one by somebody else,
\* the newest is taken for every run that is still looking.
WaitsForItsOwnWorkflow ==
  \A r \in Runs : row[r].wf # NoWorkflow => workflow[row[r].wf].by = r

=============================================================================
