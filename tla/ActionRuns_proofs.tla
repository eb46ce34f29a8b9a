------------------------- MODULE ActionRuns_proofs -------------------------
(***************************************************************************)
(* Proofs about ActionRuns, for any number of runs and workflow runs and   *)
(* any clock bound: type correctness, SuccessIsEarned, AtMostOneCall and   *)
(* the refinement of RunLifecycle.                                         *)
(***************************************************************************)
EXTENDS ActionRuns, TLAPS

-----------------------------------------------------------------------------
(***************************************************************************)
(* Type correctness.                                                       *)
(***************************************************************************)
\* What an executor hands back to Dispatch is of the declared types.
LEMMA ReturnTypes ==
  ASSUME TypeOK, NEW r \in Runs, NEW s \in Ended, NEW w \in MaybeWf,
         Return(r, s, w)
  PROVE  /\ outcome' \in [Runs -> Outcome]
         /\ pc' \in [Runs -> PC]
         /\ found' \in [Runs -> MaybeWf]
         /\ dispatchedAt' \in [Runs -> 0..MaxClock]
BY ConstantsAssumption
DEF ConstantsAssumption, TypeOK, Return, Forget, Goto, Outcome, MaybeWf, PC

\* GitHub's workflow runs stay records of the declared type.
LEMMA CreateTypes ==
  ASSUME TypeOK, NEW w \in Workflows, NEW by \in Runs \cup {NoWorkflow},
         NEW ref \in Refs, CreateWorkflow(w, by, ref)
  PROVE  workflow' \in [Workflows -> Workflow]
<1>1. [state |-> "in_progress", conclusion |-> "", by |-> by, at |-> clock,
       ref |-> ref] \in Workflow
  BY DEF TypeOK, Workflow
<1> QED
  BY <1>1 DEF TypeOK, CreateWorkflow

\* What each action writes is of the declared types.
LEMMA TypeStep == ASSUME TypeOK, [Next]_vars PROVE TypeOK'
<1> USE ConstantsAssumption DEF ConstantsAssumption
<1>1. ASSUME NEW r \in Runs, ExecuteAction(r) PROVE TypeOK'
  BY <1>1 DEF TypeOK, ExecuteAction, Publish, Goto, Row, Event, Status, MaybeWf,
              PC, worldVars
<1>2. ASSUME NEW r \in Runs, BeginDispatch(r) PROVE TypeOK'
  BY <1>2 DEF TypeOK, BeginDispatch, UpdateAndPublish, UpdateActionRun, Publish,
              Goto, Row, Event, Status, MaybeWf, PC, worldVars
<1>3. ASSUME NEW r \in Runs, RunWebhook(r) PROVE TypeOK'
  <2>1. \E s \in Ended : Return(r, s, NoWorkflow)
    BY <1>3 DEF RunWebhook, Ended
  <2>2. NoWorkflow \in MaybeWf
    BY DEF MaybeWf
  <2> QED
    BY <1>3, <2>1, <2>2, ReturnTypes DEF TypeOK, RunWebhook
<1>4. ASSUME NEW r \in Runs, RunUnknownType(r) PROVE TypeOK'
  BY <1>4 DEF TypeOK, RunUnknownType, Return, Forget, Goto, Outcome, MaybeWf, PC,
              Ended, worldVars
<1>5. ASSUME NEW r \in Runs, PostWorkflowDispatch(r) PROVE TypeOK'
  <2>1. CASE Return(r, "failed", NoWorkflow)
    BY <1>5, <2>1, ReturnTypes DEF TypeOK, PostWorkflowDispatch, Ended, MaybeWf
  <2>2. CASE ~Return(r, "failed", NoWorkflow)
    BY <1>5, <2>2 DEF TypeOK, PostWorkflowDispatch, Goto, PC
  <2> QED
    BY <2>1, <2>2
<1>6. ASSUME NEW r \in Runs, RecordDispatched(r) PROVE TypeOK'
  BY <1>6 DEF TypeOK, RecordDispatched, UpdateAndPublish, UpdateActionRun,
              Publish, Goto, Row, Event, Status, MaybeWf, PC, worldVars
<1>7. ASSUME NEW r \in Runs, PollWorkflow(r) PROVE TypeOK'
  <2>1. PICK w \in (IF found[r] = NoWorkflow THEN Newest(Candidates(r))
                                             ELSE {found[r]}) : Observe(r, w)
    BY <1>7 DEF PollWorkflow
  <2>2. w \in MaybeWf
    BY <2>1 DEF Newest, Candidates, MaybeWf, TypeOK
  <2>3. Verdict(w) \in Ended
    BY DEF Verdict, Ended
  <2> QED
    BY <1>7, <2>1, <2>2, <2>3, ReturnTypes DEF TypeOK, PollWorkflow, Observe,
       worldVars
<1>8. ASSUME NEW r \in Runs, PollError(r) PROVE TypeOK'
  BY <1>8 DEF TypeOK, PollError, Return, Forget, Goto, Outcome, MaybeWf, PC,
              Ended, worldVars
<1>9. ASSUME NEW r \in Runs, PollTimeout(r) PROVE TypeOK'
  BY <1>9 DEF TypeOK, PollTimeout, Return, Forget, Goto, Outcome, MaybeWf, PC,
              Ended, worldVars
<1>10. ASSUME NEW r \in Runs, FinishDispatch(r) PROVE TypeOK'
  <2>1. outcome[r] \in Outcome /\ NoOutcome \in Outcome
    BY DEF TypeOK, Outcome, NoOutcome, Ended, MaybeWf
  <2>2. [status |-> outcome[r].status, wf |-> outcome[r].wf] \in Row
    BY <2>1 DEF Outcome, Row, Status
  <2>3. row' \in [Runs -> Row]
    BY <1>10, <2>2 DEF TypeOK, FinishDispatch, UpdateActionRun
  <2>4. events' \subseteq Event
    BY <1>10 DEF TypeOK, FinishDispatch, Publish, Event
  <2> QED
    BY <1>10, <2>1, <2>3, <2>4 DEF TypeOK, FinishDispatch, Goto, PC, worldVars
<1>11. ASSUME NEW r \in Runs, NEW w \in Workflows, WorkflowAppears(r, w)
       PROVE TypeOK'
  <2>1. RefOf[r] \in Refs
    OBVIOUS
  <2> QED
    BY <1>11, <2>1, CreateTypes
    DEF TypeOK, WorkflowAppears, CreateWorkflow, gantryVars
<1>12. ASSUME NEW e \in events, DeliverEvent(e) PROVE TypeOK'
  <2>1. e.run \in Runs /\ e.status \in Notify
    BY DEF TypeOK, Event
  <2>2. notified' \in [Runs -> SUBSET Notify] /\ missed' \subseteq Event
    BY <1>12, <2>1 DEF TypeOK, DeliverEvent, Post
  <2> QED
    BY <1>12, <2>2 DEF TypeOK, DeliverEvent
<1>13. ASSUME Crash PROVE TypeOK'
  <2>1. pc' \in [Runs -> PC]
    BY <1>13 DEF TypeOK, Crash, PC
  <2>2. NoOutcome \in Outcome /\ NoWorkflow \in MaybeWf
    BY DEF Outcome, NoOutcome, Ended, MaybeWf
  <2>3. 0 \in 0..MaxClock
    OBVIOUS
  <2> QED
    BY <1>13, <2>1, <2>2, <2>3 DEF TypeOK, Crash, worldVars
<1>14. ASSUME Restart PROVE TypeOK'
  BY <1>14 DEF TypeOK, Restart, worldVars
<1>15. ASSUME NEW w \in Workflows, WorkflowCompletes(w) PROVE TypeOK'
  <2>1. PICK c \in {"success", "failure"} :
          workflow' = [workflow EXCEPT
            ![w] = [@ EXCEPT !.state = "completed", !.conclusion = c]]
    BY <1>15 DEF WorkflowCompletes
  <2>2. workflow[w] \in Workflow
    BY DEF TypeOK
  <2>3. [workflow[w] EXCEPT !.state = "completed", !.conclusion = c] \in Workflow
    BY <2>2 DEF Workflow
  <2> QED
    BY <1>15, <2>1, <2>3 DEF TypeOK, WorkflowCompletes, gantryVars
<1>16. ASSUME NEW w \in Workflows, NEW ref \in Refs, ForeignWorkflow(w, ref)
       PROVE TypeOK'
  BY <1>16, CreateTypes DEF TypeOK, ForeignWorkflow, CreateWorkflow, gantryVars
<1>17. ASSUME Tick PROVE TypeOK'
  BY <1>17 DEF TypeOK, Tick, gantryVars
<1>18. ASSUME UNCHANGED vars PROVE TypeOK'
  BY <1>18 DEF TypeOK, vars, gantryVars, worldVars
<1> QED
  BY <1>1, <1>2, <1>3, <1>4, <1>5, <1>6, <1>7, <1>8, <1>9, <1>10, <1>11, <1>12,
     <1>13, <1>14, <1>15, <1>16, <1>17, <1>18 DEF Next, DispatchStep

LEMMA TypeInit == ASSUME Init PROVE TypeOK
<1>1. NoOutcome \in Outcome /\ NoWorkflow \in MaybeWf
  BY DEF Outcome, NoOutcome, Ended, MaybeWf
<1>2. [status |-> "absent", wf |-> NoWorkflow] \in Row
  BY <1>1 DEF Row, Status
<1>3. AnyRef \in Refs
  BY ConstantsAssumption DEF ConstantsAssumption, AnyRef
<1>4. 0 \in 0..MaxClock
  BY ConstantsAssumption DEF ConstantsAssumption
<1>5. [state |-> "none", conclusion |-> "", by |-> NoWorkflow, at |-> 0,
       ref |-> AnyRef] \in Workflow
  BY <1>3, <1>4 DEF Workflow
<1>6. workflow \in [Workflows -> Workflow]
  BY <1>5 DEF Init
<1> QED
  BY <1>1, <1>2, <1>4, <1>6 DEF Init, TypeOK, PC

\* Every reachable state is of the declared types (all of ActionRuns).
THEOREM TypeCorrect == Spec => []TypeOK
BY TypeInit, TypeStep, PTL DEF Spec

-----------------------------------------------------------------------------
(***************************************************************************)
(* At most one call.  The strengthening: nothing has been sent before the  *)
(* executor runs, and no action leads back to before it.                   *)
(***************************************************************************)
NoneSentBefore ==
  \A r \in Runs : pc[r] \in {"idle", "spawned", "executing"} => calls[r] = 0

CallsInv == TypeOK /\ NoneSentBefore /\ AtMostOneCall

\* The steps that leave the calls alone and move pc forward, or nowhere.
LEMMA CallsQuiet ==
  ASSUME CallsInv, TypeOK', UNCHANGED calls,
         \A r \in Runs : pc'[r] \in {"idle", "spawned", "executing"}
           => pc[r] \in {"idle", "spawned", "executing"}
  PROVE  CallsInv'
BY DEF CallsInv, NoneSentBefore, AtMostOneCall

LEMMA CallsStep == ASSUME CallsInv, [Next]_vars PROVE CallsInv'
<1>1. TypeOK /\ TypeOK'
  BY TypeStep DEF CallsInv
<1>2. ASSUME NEW r \in Runs, RunWebhook(r) \/ PostWorkflowDispatch(r)
      PROVE CallsInv'
  <2>1. pc[r] = "executing" /\ calls[r] = 0
    BY <1>2 DEF RunWebhook, PostWorkflowDispatch, CallsInv, NoneSentBefore
  <2>2. \/ calls' = [calls EXCEPT ![r] = 1]
        \/ calls' = calls
    BY <1>1, <1>2, <2>1 DEF RunWebhook, PostWorkflowDispatch, TypeOK
  <2>3. \E l \in {"finishing", "dispatched"} : pc' = [pc EXCEPT ![r] = l]
    BY <1>2 DEF RunWebhook, PostWorkflowDispatch, Return, Goto
  <2> QED
    BY <1>1, <2>1, <2>2, <2>3 DEF CallsInv, NoneSentBefore, AtMostOneCall, TypeOK
<1>3. ASSUME NEW r \in Runs,
             \/ ExecuteAction(r) \/ BeginDispatch(r) \/ RecordDispatched(r)
             \/ RunUnknownType(r) \/ PollWorkflow(r) \/ PollError(r)
             \/ PollTimeout(r) \/ FinishDispatch(r)
      PROVE CallsInv'
  <2>1. UNCHANGED calls
    BY <1>3 DEF ExecuteAction, BeginDispatch, RecordDispatched, RunUnknownType,
       PollWorkflow, PollError, PollTimeout, FinishDispatch, worldVars
  <2>2. \/ /\ pc[r] \in {"idle", "spawned"}
           /\ \E l \in PC : pc' = [pc EXCEPT ![r] = l]
        \/ \E l \in PC \ {"idle", "spawned", "executing"} :
             pc' = [pc EXCEPT ![r] = l]
        \/ UNCHANGED pc
    BY <1>3 DEF ExecuteAction, BeginDispatch, RecordDispatched, RunUnknownType,
       PollWorkflow, Observe, PollError, PollTimeout, FinishDispatch, Return,
       Goto, PC
  <2> QED
    BY <1>1, <2>1, <2>2, CallsQuiet DEF TypeOK
<1>4. ASSUME Crash PROVE CallsInv'
  <2>1. UNCHANGED calls
    BY <1>4 DEF Crash, worldVars
  <2>2. \A r \in Runs : pc'[r] \in {pc[r], "lost"}
    BY <1>4 DEF Crash
  <2> QED
    BY <1>1, <2>1, <2>2, CallsQuiet
<1>5. ASSUME UNCHANGED <<pc, calls>> PROVE CallsInv'
  BY <1>1, <1>5, CallsQuiet
<1>6. ASSUME NEW r \in Runs, NEW w \in Workflows, WorkflowAppears(r, w)
      PROVE UNCHANGED <<pc, calls>>
  BY <1>6 DEF WorkflowAppears, CreateWorkflow, gantryVars
<1>7. ASSUME NEW w \in Workflows, NEW ref \in Refs,
             WorkflowCompletes(w) \/ ForeignWorkflow(w, ref)
      PROVE UNCHANGED <<pc, calls>>
  BY <1>7 DEF WorkflowCompletes, ForeignWorkflow, CreateWorkflow, gantryVars
<1>8. ASSUME NEW w \in Workflows, WorkflowCompletes(w)
      PROVE UNCHANGED <<pc, calls>>
  BY <1>8 DEF WorkflowCompletes, gantryVars
<1>9. ASSUME Restart \/ Tick \/ UNCHANGED vars \/ \E e \in events : DeliverEvent(e)
      PROVE UNCHANGED <<pc, calls>>
  BY <1>9 DEF Restart, Tick, DeliverEvent, vars, gantryVars, worldVars
<1> QED
  BY <1>2, <1>3, <1>4, <1>5, <1>6, <1>7, <1>8, <1>9 DEF Next, DispatchStep

\* However its request, its saves and the process fail, a run reaches the
\* system it automates at most once (Dispatch, runWebhook, runGitHubAction).
THEOREM OneCall == Spec => []AtMostOneCall
<1>1. ASSUME Init PROVE CallsInv
  <2>1. \A r \in Runs : calls[r] = 0
    BY <1>1 DEF Init
  <2> QED
    BY <1>1, <2>1, TypeInit DEF CallsInv, NoneSentBefore, AtMostOneCall
<1>2. CallsInv /\ [Next]_vars => CallsInv'
  BY CallsStep
<1>3. CallsInv => AtMostOneCall
  BY DEF CallsInv
<1> QED
  BY <1>1, <1>2, <1>3, PTL DEF Spec

-----------------------------------------------------------------------------
(***************************************************************************)
(* Successes are earned.  The strengthening: so is the verdict a goroutine *)
(* carries from its last poll to the last save.                            *)
(***************************************************************************)
Successful(w) ==
  /\ w \in Workflows
  /\ workflow[w].state = "completed"
  /\ workflow[w].conclusion = "success"

VerdictsEarned ==
  \A r \in Runs :
    pc[r] = "finishing" /\ outcome[r].status = "success"
    /\ TypeOf[r] = "github-action"
      => Successful(outcome[r].wf)

EarnedInv == TypeOK /\ VerdictsEarned /\ SuccessIsEarned

\* A workflow run that has completed stays as it completed.
LEMMA CompletedIsFinal ==
  ASSUME TypeOK, [Next]_vars,
         NEW w \in Workflows, workflow[w].state = "completed"
  PROVE  workflow'[w] = workflow[w]
<1>1. ASSUME NEW v \in Workflows, WorkflowCompletes(v)
      PROVE workflow'[w] = workflow[w]
  BY <1>1 DEF WorkflowCompletes, TypeOK
<1>2. ASSUME NEW v \in Workflows, NEW by, NEW ref, CreateWorkflow(v, by, ref)
      PROVE workflow'[w] = workflow[w]
  BY <1>2 DEF CreateWorkflow, TypeOK
<1>3. ASSUME NEW v \in Workflows, NEW r \in Runs, WorkflowAppears(r, v)
      PROVE workflow'[w] = workflow[w]
  BY <1>2, <1>3 DEF WorkflowAppears
<1>4. ASSUME NEW v \in Workflows, NEW ref \in Refs, ForeignWorkflow(v, ref)
      PROVE workflow'[w] = workflow[w]
  BY <1>2, <1>4 DEF ForeignWorkflow
<1>5. ASSUME NEW r \in Runs,
             \/ ExecuteAction(r) \/ DispatchStep(r) \/ PollWorkflow(r)
             \/ PollError(r)
      PROVE workflow'[w] = workflow[w]
  BY <1>5 DEF ExecuteAction, DispatchStep, BeginDispatch, RecordDispatched,
     RunWebhook, RunUnknownType, PostWorkflowDispatch, PollWorkflow, PollError,
     PollTimeout, FinishDispatch, worldVars
<1>6. ASSUME \/ Crash \/ Restart \/ Tick \/ UNCHANGED vars
             \/ \E e \in events : DeliverEvent(e)
      PROVE workflow'[w] = workflow[w]
  BY <1>6 DEF Crash, Restart, Tick, DeliverEvent, vars, gantryVars, worldVars
<1> QED
  BY <1>1, <1>3, <1>4, <1>5, <1>6 DEF Next

\* A step that stores no new success, and returns none that is not earned.
LEMMA EarnedQuiet ==
  ASSUME EarnedInv, TypeOK', [Next]_vars,
         \A q \in Runs : row'[q].status = "success" => row'[q] = row[q],
         \A q \in Runs :
           \/ pc'[q] # "finishing" \/ outcome'[q].status # "success"
           \/ TypeOf[q] # "github-action"
           \/ pc[q] = "finishing" /\ outcome'[q] = outcome[q]
           \/ Successful(outcome'[q].wf)
  PROVE  EarnedInv'
<1>1. TypeOK
  BY DEF EarnedInv
<1>2. ASSUME NEW w, Successful(w) PROVE workflow'[w] = workflow[w]
  BY <1>1, <1>2, CompletedIsFinal DEF Successful
<1>3. ASSUME NEW q \in Runs, row'[q].status = "success",
             TypeOf[q] = "github-action"
      PROVE Successful(row'[q].wf)
  BY <1>3 DEF EarnedInv, SuccessIsEarned, Successful
<1>4. SuccessIsEarned'
  BY <1>2, <1>3 DEF SuccessIsEarned, Successful
<1>5. ASSUME NEW q \in Runs, pc'[q] = "finishing",
             outcome'[q].status = "success", TypeOf[q] = "github-action"
      PROVE Successful(outcome'[q].wf)
  BY <1>5 DEF EarnedInv, VerdictsEarned
<1>6. VerdictsEarned'
  BY <1>2, <1>5 DEF VerdictsEarned, Successful
<1> QED
  BY <1>4, <1>6 DEF EarnedInv

LEMMA EarnedStep == ASSUME EarnedInv, [Next]_vars PROVE EarnedInv'
<1>1. TypeOK /\ TypeOK'
  BY TypeStep DEF EarnedInv
<1>2. ASSUME NEW r \in Runs,
             ExecuteAction(r) \/ BeginDispatch(r) \/ RecordDispatched(r)
      PROVE EarnedInv'
  <2>1. \E s \in {"pending", "running"}, w \in MaybeWf :
          row' \in {row, [row EXCEPT ![r] = [status |-> s, wf |-> w]]}
    BY <1>2 DEF ExecuteAction, BeginDispatch, RecordDispatched,
       UpdateAndPublish, UpdateActionRun, MaybeWf
  <2>2. \A q \in Runs : row'[q].status = "success" => row'[q] = row[q]
    BY <1>1, <2>1 DEF TypeOK
  <2>3. \E l \in {"spawned", "executing", "polling"} : pc' = [pc EXCEPT ![r] = l]
    BY <1>2 DEF ExecuteAction, BeginDispatch, RecordDispatched, Goto
  <2>4. UNCHANGED outcome
    BY <1>2 DEF ExecuteAction, BeginDispatch, RecordDispatched
  <2> QED
    BY <1>1, <2>2, <2>3, <2>4, EarnedQuiet DEF TypeOK
<1>3. ASSUME NEW r \in Runs, NEW s \in Ended, NEW w \in MaybeWf, Return(r, s, w),
             UNCHANGED row,
             s = "failed" \/ TypeOf[r] # "github-action" \/ Successful(w)
      PROVE EarnedInv'
  <2>1. /\ outcome' = [outcome EXCEPT ![r] = [status |-> s, wf |-> w]]
        /\ pc' = [pc EXCEPT ![r] = "finishing"]
    BY <1>3 DEF Return, Goto
  <2>2. \A q \in Runs :
          \/ q # r /\ outcome'[q] = outcome[q] /\ pc'[q] = pc[q]
          \/ q = r /\ outcome'[q] = [status |-> s, wf |-> w]
    BY <1>1, <2>1 DEF TypeOK
  <2> QED
    BY <1>1, <1>3, <2>2, EarnedQuiet
<1>4. ASSUME NEW r \in Runs,
             \/ RunWebhook(r) \/ RunUnknownType(r) \/ PollError(r) \/ PollTimeout(r)
      PROVE EarnedInv'
  <2>1. UNCHANGED row
    BY <1>4 DEF RunWebhook, RunUnknownType, PollError, PollTimeout
  <2>2. found[r] \in MaybeWf /\ NoWorkflow \in MaybeWf
    BY <1>1 DEF TypeOK, MaybeWf
  <2>3. \E s \in Ended, w \in MaybeWf :
          Return(r, s, w) /\ (s = "failed" \/ TypeOf[r] # "github-action")
    BY <1>4, <2>2 DEF RunWebhook, RunUnknownType, PollError, PollTimeout, Ended
  <2> QED
    BY <1>3, <2>1, <2>3
<1>5. ASSUME NEW r \in Runs, PostWorkflowDispatch(r) PROVE EarnedInv'
  <2>1. CASE Return(r, "failed", NoWorkflow)
    BY <1>3, <1>5, <2>1 DEF PostWorkflowDispatch, Ended, MaybeWf
  <2>2. CASE ~Return(r, "failed", NoWorkflow)
    <3>1. UNCHANGED <<row, outcome>> /\ pc' = [pc EXCEPT ![r] = "dispatched"]
      BY <1>5, <2>2 DEF PostWorkflowDispatch, Goto
    <3> QED
      BY <1>1, <3>1, EarnedQuiet DEF TypeOK
  <2> QED
    BY <2>1, <2>2
<1>6. ASSUME NEW r \in Runs, PollWorkflow(r) PROVE EarnedInv'
  <2>1. PICK w \in (IF found[r] = NoWorkflow THEN Newest(Candidates(r))
                                             ELSE {found[r]}) : Observe(r, w)
    BY <1>6 DEF PollWorkflow
  <2>2. w \in Workflows
    BY <1>1, <2>1 DEF Newest, Candidates, TypeOK, MaybeWf
  <2>3. UNCHANGED row
    BY <1>6 DEF PollWorkflow
  <2>4. CASE workflow[w].state = "completed"
    <3>1. Return(r, Verdict(w), w)
      BY <2>1, <2>4 DEF Observe
    <3>2. Verdict(w) \in Ended /\ (Verdict(w) = "failed" \/ Successful(w))
      BY <2>2, <2>4 DEF Verdict, Ended, Successful
    <3> QED
      BY <1>3, <2>2, <2>3, <3>1, <3>2 DEF MaybeWf
  <2>5. CASE workflow[w].state # "completed"
    BY <1>1, <2>1, <2>3, <2>5, EarnedQuiet DEF Observe
  <2> QED
    BY <2>4, <2>5
<1>7. ASSUME NEW r \in Runs, FinishDispatch(r) PROVE EarnedInv'
  <2>1. pc' = [pc EXCEPT ![r] = "done"] /\ outcome' = [outcome EXCEPT ![r] = NoOutcome]
    BY <1>7 DEF FinishDispatch, Goto
  <2>2. pc[r] = "finishing"
    BY <1>7 DEF FinishDispatch
  <2>3. row' \in {row, [row EXCEPT ![r] = [status |-> outcome[r].status,
                                           wf |-> outcome[r].wf]]}
    BY <1>7 DEF FinishDispatch, UpdateActionRun
  <2>4. ASSUME NEW w, Successful(w) PROVE workflow'[w] = workflow[w]
    BY <1>1, <2>4, CompletedIsFinal DEF Successful
  <2>5. ASSUME NEW q \in Runs, row'[q].status = "success",
               TypeOf[q] = "github-action"
        PROVE Successful(row'[q].wf)
    BY <1>1, <2>2, <2>3, <2>5
    DEF TypeOK, EarnedInv, SuccessIsEarned, VerdictsEarned, Successful
  <2>6. SuccessIsEarned'
    BY <2>4, <2>5 DEF SuccessIsEarned, Successful
  <2>7. ASSUME NEW q \in Runs, pc'[q] = "finishing",
               outcome'[q].status = "success", TypeOf[q] = "github-action"
        PROVE Successful(outcome'[q].wf)
    BY <1>1, <2>1, <2>7 DEF TypeOK, EarnedInv, VerdictsEarned
  <2>8. VerdictsEarned'
    BY <2>4, <2>7 DEF VerdictsEarned, Successful
  <2> QED
    BY <1>1, <2>6, <2>8 DEF EarnedInv
<1>8. ASSUME Crash PROVE EarnedInv'
  <2>1. UNCHANGED row /\ \A q \in Runs : pc'[q] # "finishing"
    BY <1>8 DEF Crash
  <2> QED
    BY <1>1, <2>1, EarnedQuiet
<1>9. ASSUME UNCHANGED <<row, pc, outcome>> PROVE EarnedInv'
  BY <1>1, <1>9, EarnedQuiet
<1>10. ASSUME NEW r \in Runs, NEW w \in Workflows, WorkflowAppears(r, w)
       PROVE UNCHANGED <<row, pc, outcome>>
  BY <1>10 DEF WorkflowAppears, CreateWorkflow, gantryVars
<1>11. ASSUME NEW w \in Workflows, NEW ref \in Refs, ForeignWorkflow(w, ref)
       PROVE UNCHANGED <<row, pc, outcome>>
  BY <1>11 DEF ForeignWorkflow, CreateWorkflow, gantryVars
<1>12. ASSUME NEW w \in Workflows, WorkflowCompletes(w)
       PROVE UNCHANGED <<row, pc, outcome>>
  BY <1>12 DEF WorkflowCompletes, gantryVars
<1>13. ASSUME Restart \/ Tick \/ UNCHANGED vars \/ \E e \in events : DeliverEvent(e)
       PROVE UNCHANGED <<row, pc, outcome>>
  BY <1>13 DEF Restart, Tick, DeliverEvent, vars, gantryVars
<1> QED
  BY <1>2, <1>4, <1>5, <1>6, <1>7, <1>8, <1>9, <1>10, <1>11, <1>12, <1>13
  DEF Next, DispatchStep

\* A github-action run is stored as a success only if the workflow run it
\* names completed successfully (runGitHubAction, waitForWorkflowRun).
THEOREM SuccessEarned == Spec => []SuccessIsEarned
<1>1. ASSUME Init PROVE EarnedInv
  <2>1. \A r \in Runs : pc[r] = "idle" /\ row[r].status = "absent"
    BY <1>1 DEF Init
  <2> QED
    BY <1>1, <2>1, TypeInit DEF EarnedInv, VerdictsEarned, SuccessIsEarned
<1>2. EarnedInv /\ [Next]_vars => EarnedInv'
  BY EarnedStep
<1>3. EarnedInv => SuccessIsEarned
  BY DEF EarnedInv
<1> QED
  BY <1>1, <1>2, <1>3, PTL DEF Spec

-----------------------------------------------------------------------------
(***************************************************************************)
(* The rows implement RunLifecycle.  The invariant: as long as a run has a *)
(* goroutine (or has none yet) its row has not ended.                      *)
(***************************************************************************)
Live == {"pending", "running"}

RowFitsPc ==
  \A r \in Runs :
    /\ pc[r] = "idle" => row[r].status = "absent"
    /\ pc[r] = "spawned" => row[r].status = "pending"
    /\ pc[r] \in {"executing", "dispatched", "polling", "finishing"}
         => row[r].status \in Live

RowInv == TypeOK /\ RowFitsPc

\* The refinement mapping: the status column.
StatusOf == [r \in Runs |-> row[r].status]

\* A save of one row changes one status.
LEMMA UpdateMaps ==
  ASSUME TypeOK, NEW r \in Runs, NEW s, NEW w, NEW ok, UpdateActionRun(r, s, w, ok)
  PROVE  StatusOf' \in {StatusOf, [StatusOf EXCEPT ![r] = s]}
<1>1. CASE row' = row
  BY <1>1 DEF StatusOf
<1>2. CASE row' = [row EXCEPT ![r] = [status |-> s, wf |-> w]]
  BY <1>2 DEF StatusOf, TypeOK
<1> QED
  BY <1>1, <1>2 DEF UpdateActionRun

\* Each step keeps the invariant and is a step of RunLifecycle or a stutter.
LEMMA RowStep ==
  ASSUME RowInv, [Next]_vars
  PROVE  RowInv' /\ [Lifecycle!Next]_StatusOf
<1>1. TypeOK /\ TypeOK'
  BY TypeStep DEF RowInv
<1>2. ASSUME NEW r \in Runs, ExecuteAction(r)
      PROVE RowFitsPc' /\ Lifecycle!Submit(r)
  <2>1. pc[r] = "idle" /\ row[r].status = "absent"
    BY <1>2 DEF ExecuteAction, RowInv, RowFitsPc
  <2>2. /\ row' = [row EXCEPT ![r] = [status |-> "pending", wf |-> NoWorkflow]]
        /\ pc' = [pc EXCEPT ![r] = "spawned"]
    BY <1>2 DEF ExecuteAction, Goto
  <2>3. StatusOf' = [StatusOf EXCEPT ![r] = "pending"]
    BY <1>1, <2>2 DEF StatusOf, TypeOK
  <2>4. RowFitsPc'
    BY <1>1, <2>2 DEF RowInv, RowFitsPc, TypeOK
  <2> QED
    BY <2>1, <2>3, <2>4 DEF StatusOf, Lifecycle!Submit
<1>3. ASSUME NEW r \in Runs, BeginDispatch(r) \/ RecordDispatched(r)
      PROVE RowFitsPc' /\ (Lifecycle!Start(r) \/ UNCHANGED StatusOf)
  <2>1. pc[r] \in {"spawned", "dispatched"} /\ row[r].status \in Live
    BY <1>3 DEF BeginDispatch, RecordDispatched, RowInv, RowFitsPc, Live
  <2>2. \E l \in {"executing", "polling"} : pc' = [pc EXCEPT ![r] = l]
    BY <1>3 DEF BeginDispatch, RecordDispatched, Goto
  <2>3. PICK ok \in BOOLEAN : UpdateActionRun(r, "running", NoWorkflow, ok)
    BY <1>3 DEF BeginDispatch, RecordDispatched, UpdateAndPublish
  <2>4. RowFitsPc'
    BY <1>1, <2>1, <2>2, <2>3 DEF UpdateActionRun, RowInv, RowFitsPc, TypeOK, Live
  <2>5. StatusOf' \in {StatusOf, [StatusOf EXCEPT ![r] = "running"]}
    BY <1>1, <2>3, UpdateMaps
  <2> QED
    BY <2>1, <2>4, <2>5 DEF StatusOf, Live, Lifecycle!Start
<1>4. ASSUME NEW r \in Runs, FinishDispatch(r)
      PROVE RowFitsPc' /\ (Lifecycle!End(r) \/ UNCHANGED StatusOf)
  <2>1. pc[r] = "finishing" /\ row[r].status \in Live
    BY <1>4 DEF FinishDispatch, RowInv, RowFitsPc, Live
  <2>2. outcome[r].status \in Ended
    BY <1>1 DEF TypeOK, Outcome
  <2>3. pc' = [pc EXCEPT ![r] = "done"]
    BY <1>4 DEF FinishDispatch, Goto
  <2>4. PICK ok \in BOOLEAN :
          UpdateActionRun(r, outcome[r].status, outcome[r].wf, ok)
    BY <1>4 DEF FinishDispatch
  <2>5. RowFitsPc'
    BY <1>1, <2>3, <2>4 DEF UpdateActionRun, RowInv, RowFitsPc, TypeOK
  <2>6. StatusOf' \in {StatusOf, [StatusOf EXCEPT ![r] = outcome[r].status]}
    BY <1>1, <2>4, UpdateMaps
  <2> QED
    BY <2>1, <2>2, <2>5, <2>6
    DEF StatusOf, Live, Ended, Lifecycle!End, Lifecycle!Live, Lifecycle!Ended
<1>5. ASSUME UNCHANGED row,
             \A q \in Runs :
               \/ pc'[q] = pc[q]
               \/ pc'[q] = "lost"
               \/ /\ pc[q] \in {"executing", "polling"}
                  /\ pc'[q] \in {"dispatched", "finishing"}
      PROVE RowFitsPc' /\ UNCHANGED StatusOf
  BY <1>5 DEF RowInv, RowFitsPc, StatusOf, Live
<1>6. ASSUME NEW r \in Runs,
             \/ RunWebhook(r) \/ RunUnknownType(r) \/ PostWorkflowDispatch(r)
             \/ PollWorkflow(r) \/ PollError(r) \/ PollTimeout(r)
      PROVE RowFitsPc' /\ UNCHANGED StatusOf
  <2>1. UNCHANGED row
    BY <1>6 DEF RunWebhook, RunUnknownType, PostWorkflowDispatch, PollWorkflow,
       PollError, PollTimeout
  <2>2. /\ pc[r] \in {"executing", "polling"}
        /\ \/ \E l \in {"dispatched", "finishing"} : pc' = [pc EXCEPT ![r] = l]
           \/ UNCHANGED pc
    BY <1>6 DEF RunWebhook, RunUnknownType, PostWorkflowDispatch, PollWorkflow,
       Observe, PollError, PollTimeout, Return, Goto
  <2> QED
    BY <1>1, <1>5, <2>1, <2>2 DEF TypeOK
<1>7. ASSUME Crash PROVE RowFitsPc' /\ UNCHANGED StatusOf
  <2>1. UNCHANGED row /\ \A q \in Runs : pc'[q] \in {pc[q], "lost"}
    BY <1>7 DEF Crash
  <2> QED
    BY <1>5, <2>1
<1>8. ASSUME UNCHANGED <<row, pc>> PROVE RowFitsPc' /\ UNCHANGED StatusOf
  BY <1>5, <1>8
<1>9. ASSUME NEW r \in Runs, NEW w \in Workflows, WorkflowAppears(r, w)
      PROVE UNCHANGED <<row, pc>>
  BY <1>9 DEF WorkflowAppears, CreateWorkflow, gantryVars
<1>10. ASSUME NEW w \in Workflows, NEW ref \in Refs, ForeignWorkflow(w, ref)
       PROVE UNCHANGED <<row, pc>>
  BY <1>10 DEF ForeignWorkflow, CreateWorkflow, gantryVars
<1>11. ASSUME NEW w \in Workflows, WorkflowCompletes(w)
       PROVE UNCHANGED <<row, pc>>
  BY <1>11 DEF WorkflowCompletes, gantryVars
<1>12. ASSUME Restart \/ Tick \/ UNCHANGED vars \/ \E e \in events : DeliverEvent(e)
       PROVE UNCHANGED <<row, pc>>
  BY <1>12 DEF Restart, Tick, DeliverEvent, vars, gantryVars
<1>13. RowFitsPc' /\ [Lifecycle!Next]_StatusOf
  BY <1>2, <1>3, <1>4, <1>6, <1>7, <1>8, <1>9, <1>10, <1>11, <1>12
  DEF Next, DispatchStep, Lifecycle!Next
<1> QED
  BY <1>1, <1>13 DEF RowInv

\* The rows of action_runs live the life RunLifecycle promises, whatever
\* saves fail and however often the process dies (ExecuteAction, Dispatch).
THEOREM RowsImplementLifecycle == Spec => RowsFollowLifecycle
<1>1. ASSUME Init PROVE RowInv
  <2>1. \A r \in Runs : pc[r] = "idle" /\ row[r].status = "absent"
    BY <1>1 DEF Init
  <2> QED
    BY <1>1, <2>1, TypeInit DEF RowInv, RowFitsPc
<1>2. RowInv /\ [Next]_vars => RowInv' /\ [Lifecycle!Next]_StatusOf
  BY RowStep
<1>3. ASSUME Init PROVE Lifecycle!Init
  <2>1. \A r \in Runs : row[r].status = "absent"
    BY <1>3 DEF Init
  <2> QED
    BY <2>1 DEF Lifecycle!Init
<1>4. [Lifecycle!Next]_StatusOf <=> [Lifecycle!Next]_([r \in Runs |-> row[r].status])
  BY DEF StatusOf
<1> QED
  BY <1>1, <1>2, <1>3, <1>4, PTL DEF Spec, RowsFollowLifecycle, Lifecycle!Spec

-----------------------------------------------------------------------------
(***************************************************************************)
(* What is announced is stored, when saves succeed.  The strengthening:    *)
(* the same of the events no notifier has handled yet, and only runs whose *)
(* goroutine is through, so that no later save changes their row.          *)
(***************************************************************************)
EventsFit ==
  \A e \in events :
    e.status \in Ended => pc[e.run] = "done" /\ row[e.run].status = e.status

AnnouncedAreDone ==
  \A r \in Runs : notified[r] \cap Ended # {} => pc[r] = "done"

AnnouncedInv == TypeOK /\ EventsFit /\ AnnouncedAreDone /\ AnnouncedIsStored

\* A step that keeps the rows of finished runs, publishes no outcome and lets
\* nobody announce one.
LEMMA AnnouncedQuiet ==
  ASSUME AnnouncedInv, TypeOK', UNCHANGED notified,
         \A e \in events' : e \in events \/ e.status \notin Ended,
         \A r \in Runs : pc[r] = "done" => pc'[r] = "done" /\ row'[r] = row[r]
  PROVE  AnnouncedInv'
<1>1. \A e \in events : e.run \in Runs
  BY DEF AnnouncedInv, TypeOK, Event
<1>2. EventsFit'
  BY <1>1 DEF AnnouncedInv, EventsFit
<1>3. AnnouncedAreDone'
  BY DEF AnnouncedInv, AnnouncedAreDone
<1>4. AnnouncedIsStored'
  BY DEF AnnouncedInv, AnnouncedAreDone, AnnouncedIsStored
<1> QED
  BY <1>2, <1>3, <1>4 DEF AnnouncedInv

\* An intermediate save of an unfinished run, with the event it may publish.
LEMMA AnnouncedSave ==
  ASSUME AnnouncedInv, TypeOK', NEW r \in Runs, pc[r] # "done",
         NEW label, Goto(r, label), UNCHANGED notified,
         \A q \in Runs : q # r => row'[q] = row[q],
         NEW s, s \notin Ended, Publish(r, s) \/ UNCHANGED events
  PROVE  AnnouncedInv'
<1>1. \A e \in events' : e \in events \/ e.status \notin Ended
  BY DEF Publish
<1>2. \A q \in Runs : pc[q] = "done" => pc'[q] = "done" /\ row'[q] = row[q]
  BY DEF Goto, AnnouncedInv, TypeOK
<1> QED
  BY <1>1, <1>2, AnnouncedQuiet

LEMMA AnnouncedStep ==
  ASSUME ~DbMayFail, AnnouncedInv, [Next]_vars PROVE AnnouncedInv'
<1>1. TypeOK /\ TypeOK'
  BY TypeStep DEF AnnouncedInv
<1>2. ASSUME NEW r \in Runs, ExecuteAction(r) PROVE AnnouncedInv'
  <2>1. \A q \in Runs : q # r => row'[q] = row[q]
    BY <1>1, <1>2 DEF ExecuteAction, TypeOK
  <2>2. "triggered" \notin Ended
    BY DEF Ended
  <2> QED
    BY <1>1, <1>2, <2>1, <2>2, AnnouncedSave DEF ExecuteAction, worldVars
<1>3. ASSUME NEW r \in Runs, BeginDispatch(r) \/ RecordDispatched(r)
      PROVE AnnouncedInv'
  <2>1. \A q \in Runs : q # r => row'[q] = row[q]
    BY <1>1, <1>3
    DEF BeginDispatch, RecordDispatched, UpdateAndPublish, UpdateActionRun, TypeOK
  <2>2. "running" \notin Ended
    BY DEF Ended
  <2>3. Publish(r, "running") \/ UNCHANGED events
    BY <1>3 DEF BeginDispatch, RecordDispatched, UpdateAndPublish
  <2>4. UNCHANGED notified /\ pc[r] # "done"
    BY <1>3 DEF BeginDispatch, RecordDispatched, worldVars
  <2>5. Goto(r, "executing") \/ Goto(r, "polling")
    BY <1>3 DEF BeginDispatch, RecordDispatched
  <2> QED
    BY <1>1, <2>1, <2>2, <2>3, <2>4, <2>5, AnnouncedSave
<1>4. ASSUME NEW r \in Runs,
             RunWebhook(r) \/ RunUnknownType(r) \/ PostWorkflowDispatch(r)
             \/ PollWorkflow(r) \/ PollError(r) \/ PollTimeout(r)
      PROVE AnnouncedInv'
  <2>1. UNCHANGED <<row, events, notified>> /\ pc[r] # "done"
    BY <1>4 DEF RunWebhook, RunUnknownType, PostWorkflowDispatch, PollWorkflow,
                PollError, PollTimeout, worldVars
  <2>2. pc' = pc \/ \E label : Goto(r, label)
    BY <1>4 DEF RunWebhook, RunUnknownType, PostWorkflowDispatch, PollWorkflow,
                PollError, PollTimeout, Observe, Return
  <2>3. \A q \in Runs : pc[q] = "done" => pc'[q] = "done"
    BY <1>1, <2>1, <2>2 DEF Goto, TypeOK
  <2> QED
    BY <1>1, <2>1, <2>3, AnnouncedQuiet
<1>5. ASSUME NEW r \in Runs, FinishDispatch(r) PROVE AnnouncedInv'
  <2>1. /\ row' = [row EXCEPT ![r] = [status |-> outcome[r].status,
                                     wf |-> outcome[r].wf]]
        /\ pc' = [pc EXCEPT ![r] = "done"]
        /\ pc[r] = "finishing" /\ UNCHANGED notified
    BY <1>5 DEF FinishDispatch, UpdateActionRun, Goto, worldVars
  <2>2. /\ pc'[r] = "done" /\ row'[r].status = outcome[r].status
        /\ \A q \in Runs : q # r => pc'[q] = pc[q] /\ row'[q] = row[q]
    BY <1>1, <2>1 DEF TypeOK
  <2>3. ASSUME NEW e \in events', e.status \in Ended
        PROVE  pc'[e.run] = "done" /\ row'[e.run].status = e.status
    <3>1. CASE e = [run |-> r, status |-> outcome[r].status]
      BY <2>2, <3>1
    <3>2. CASE e \in events
      <4>1. pc[e.run] = "done" /\ row[e.run].status = e.status /\ e.run \in Runs
        BY <1>1, <2>3, <3>2 DEF AnnouncedInv, EventsFit, TypeOK, Event
      <4> QED
        BY <2>1, <2>2, <4>1
    <3> QED
      BY <1>5, <3>1, <3>2 DEF FinishDispatch, Publish
  <2>4. notified[r] \cap Ended = {}
    BY <2>1 DEF AnnouncedInv, AnnouncedAreDone
  <2>5. AnnouncedAreDone' /\ AnnouncedIsStored'
    BY <2>1, <2>2, <2>4 DEF AnnouncedInv, AnnouncedAreDone, AnnouncedIsStored
  <2> QED
    BY <1>1, <2>3, <2>5 DEF AnnouncedInv, EventsFit
<1>6. ASSUME NEW e \in events, DeliverEvent(e) PROVE AnnouncedInv'
  <2>1. /\ UNCHANGED <<row, pc>> /\ events' \subseteq events
        /\ e.run \in Runs
        /\ \/ notified' = [notified EXCEPT ![e.run] = @ \cup {e.status}]
           \/ UNCHANGED notified
    BY <1>1, <1>6 DEF DeliverEvent, Post, TypeOK, Event
  <2>2. /\ notified'[e.run] \subseteq notified[e.run] \cup {e.status}
        /\ \A q \in Runs : q # e.run => notified'[q] = notified[q]
    BY <1>1, <2>1 DEF TypeOK
  <2>3. e.status \in Ended => pc[e.run] = "done" /\ row[e.run].status = e.status
    BY DEF AnnouncedInv, EventsFit
  <2>4. EventsFit'
    BY <2>1 DEF AnnouncedInv, EventsFit
  <2>5. ASSUME NEW q \in Runs
        PROVE  /\ notified'[q] \cap Ended # {} => pc[q] = "done"
               /\ notified'[q] \cap Ended \subseteq {row[q].status}
    BY <2>2, <2>3 DEF AnnouncedInv, AnnouncedAreDone, AnnouncedIsStored
  <2>6. AnnouncedAreDone' /\ AnnouncedIsStored'
    BY <2>1, <2>5 DEF AnnouncedAreDone, AnnouncedIsStored
  <2> QED
    BY <1>1, <2>4, <2>6 DEF AnnouncedInv
<1>7. ASSUME Crash PROVE AnnouncedInv'
  <2>1. UNCHANGED <<row, notified>> /\ events' = {}
    BY <1>7 DEF Crash, worldVars
  <2>2. \A q \in Runs : pc[q] = "done" => pc'[q] = "done"
    BY <1>7 DEF Crash
  <2> QED
    BY <1>1, <2>1, <2>2, AnnouncedQuiet
<1>8. ASSUME UNCHANGED <<row, pc, events, notified>> PROVE AnnouncedInv'
  BY <1>1, <1>8, AnnouncedQuiet
<1>9. ASSUME NEW w \in Workflows, NEW by, NEW ref, CreateWorkflow(w, by, ref)
      PROVE AnnouncedInv'
  BY <1>8, <1>9 DEF CreateWorkflow, gantryVars
<1>10. ASSUME NEW r \in Runs, NEW w \in Workflows, WorkflowAppears(r, w)
       PROVE AnnouncedInv'
  BY <1>9, <1>10 DEF WorkflowAppears
<1>11. ASSUME NEW w \in Workflows, NEW ref \in Refs, ForeignWorkflow(w, ref)
       PROVE AnnouncedInv'
  BY <1>9, <1>11 DEF ForeignWorkflow
<1>12. ASSUME NEW w \in Workflows, WorkflowCompletes(w) PROVE AnnouncedInv'
  BY <1>8, <1>12 DEF WorkflowCompletes, gantryVars
<1>13. ASSUME Restart \/ Tick PROVE AnnouncedInv'
  BY <1>8, <1>13 DEF Restart, Tick, gantryVars, worldVars
<1>14. ASSUME UNCHANGED vars PROVE AnnouncedInv'
  BY <1>8, <1>14 DEF vars, gantryVars, worldVars
<1> QED
  BY <1>2, <1>3, <1>4, <1>5, <1>6, <1>7, <1>10, <1>11, <1>12, <1>13, <1>14
  DEF Next, DispatchStep

\* Where saves succeed, what Teams is told is what the table says, whatever
\* the order of the notifier goroutines and through crashes; without that
\* assumption it is false, because the end of Dispatch publishes regardless.
THEOREM AnnouncementsAreStored ==
  ASSUME ~DbMayFail PROVE Spec => []AnnouncedIsStored
<1>1. Init => AnnouncedInv
  BY TypeInit
  DEF Init, AnnouncedInv, EventsFit, AnnouncedAreDone, AnnouncedIsStored
<1>2. AnnouncedInv /\ [Next]_vars => AnnouncedInv'
  BY AnnouncedStep
<1>3. AnnouncedInv => AnnouncedIsStored
  BY DEF AnnouncedInv
<1> QED
  BY <1>1, <1>2, <1>3, PTL DEF Spec

=============================================================================
