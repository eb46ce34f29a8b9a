------------------------- MODULE GitOpsSync_proofs -------------------------
(***************************************************************************)
(* Proofs about GitOpsSync, for any number of entities, flushers, changes  *)
(* and commits: type correctness, that no history is ever rewritten, that  *)
(* a divergence is permanent, what Service.mu protects and, for the push   *)
(* direction, which changes alone may be forgotten.                        *)
(***************************************************************************)
EXTENDS GitOpsSync, TLAPS

-----------------------------------------------------------------------------
(***************************************************************************)
(* What the steps that touch Git do to the two heads.                      *)
(***************************************************************************)
GitQuiet == UNCHANGED gitVars

\* pullLatest leaves the clone alone or fast-forwards it.
LEMMA PullLatestHeads ==
  ASSUME NEW failed, PullLatest(failed)
  PROVE  local' = local \/ (local' = remote /\ Ancestor(local, remote))
BY DEF PullLatest

\* commitAndPush does nothing, or commits; then the remote keeps its head or
\* is fast-forwarded to the clone's.
LEMMA CommitAndPushHeads ==
  ASSUME NEW tree, NEW failed, CommitAndPush(tree, failed)
  PROVE  \/ GitQuiet
         \/ /\ made' = made + 1
            /\ local' = Committed(tree)
            /\ \/ remote' = remote
               \/ remote' = local' /\ Ancestor(remote, local')
BY DEF CommitAndPush, Push, GitQuiet

\* Somebody commits on top of the remote.
ExternalStep ==
  /\ made' = made + 1
  /\ local' = local
  /\ \E t : remote' = [hist |-> remote.hist \cup {made + 1}, tree |-> t]

CommitStep ==
  /\ made' = made + 1
  /\ \E t : local' = [hist |-> local.hist \cup {made + 1}, tree |-> t]
  /\ remote' = remote \/ (remote' = local' /\ Ancestor(remote, local'))

FastForwardStep ==
  /\ UNCHANGED <<remote, made>>
  /\ local' = remote /\ Ancestor(local, remote)

\* Every step of the specification does one of four things to Git.
LEMMA GitSteps ==
  ASSUME [Next]_vars
  PROVE  GitQuiet \/ ExternalStep \/ CommitStep \/ FastForwardStep
<1>1. ASSUME NEW tree, NEW failed, CommitAndPush(tree, failed)
      PROVE GitQuiet \/ CommitStep
  BY <1>1, CommitAndPushHeads DEF CommitStep, Committed
<1>2. ASSUME NEW failed, PullLatest(failed), UNCHANGED <<remote, made>>
      PROVE GitQuiet \/ FastForwardStep
  BY <1>2, PullLatestHeads DEF GitQuiet, gitVars, FastForwardStep
<1>3. ASSUME NEW f \in Flushers, Flush(f) PROVE GitQuiet \/ CommitStep
  BY <1>1, <1>3 DEF Flush, GitQuiet, gitVars
<1>4. ASSUME FullSyncPush PROVE GitQuiet \/ CommitStep
  BY <1>1, <1>4 DEF FullSyncPush
<1>5. ASSUME FullSyncPull \/ PullFetch \/ ReinitEnd \/ Start
      PROVE GitQuiet \/ FastForwardStep
  BY <1>2, <1>5 DEF FullSyncPull, PullFetch, ReinitEnd, Start, Connect
<1>6. ASSUME NEW e \in Entities, NEW c \in Content, ExternalCommit(e, c)
      PROVE ExternalStep
  BY <1>6 DEF ExternalCommit, ExternalStep
<1>7. ASSUME NEW e \in Entities,
             \/ \E c \in Content : WriteRow(e, c) \/ SyncRow(e, c) \/ EnrichRow(e, c)
             \/ DeleteRow(e)
             \/ \E a \in Action : DeliverEvent(e, a)
             \/ PullLook(e) \/ PullApply(e)
      PROVE GitQuiet
  BY <1>7 DEF WriteRow, SyncRow, EnrichRow, DeleteRow, DeliverEvent, PullLook, PullApply,
     GitQuiet
<1>8. ASSUME \/ QueueSynced \/ \E f \in Flushers : TimerFires(f)
             \/ PullBegin \/ PullEnd \/ ReinitBegin \/ Stop \/ Halt
             \/ UNCHANGED vars
      PROVE GitQuiet
  BY <1>8 DEF QueueSynced, TimerFires, ReinitBegin, PullBegin, PullEnd, Stop, Halt, vars,
     GitQuiet, gitVars
<1> QED
  BY <1>3, <1>4, <1>5, <1>6, <1>7, <1>8 DEF Next

\* No commit is ever lost from the clone or from the remote (push,
\* pullLatest): by the four kinds of step alone.
THEOREM NoCommitLost == Spec => HistoriesGrow
<1>1. ASSUME [Next]_vars
      PROVE  local.hist \subseteq local'.hist /\ remote.hist \subseteq remote'.hist
  <2>1. CASE GitQuiet
    BY <2>1 DEF GitQuiet, gitVars
  <2>2. CASE ExternalStep
    BY <2>2 DEF ExternalStep
  <2>3. CASE CommitStep
    BY <2>3 DEF CommitStep, Ancestor
  <2>4. CASE FastForwardStep
    BY <2>4 DEF FastForwardStep, Ancestor
  <2> QED
    BY <1>1, <2>1, <2>2, <2>3, <2>4, GitSteps
<1> QED
  BY <1>1, PTL DEF Spec, HistoriesGrow

-----------------------------------------------------------------------------
(***************************************************************************)
(* A divergence is permanent, since the identity of the next commit is in  *)
(* neither history.                                                        *)
(***************************************************************************)
IdsFresh ==
  /\ made \in Nat
  /\ \A n \in local.hist \cup remote.hist : n \in 0..made

LEMMA NextIdIsNew ==
  ASSUME IdsFresh
  PROVE  made + 1 \notin local.hist /\ made + 1 \notin remote.hist
BY DEF IdsFresh

LEMMA IdsFreshStep == ASSUME IdsFresh, [Next]_vars PROVE IdsFresh'
<1>1. CASE GitQuiet
  BY <1>1 DEF GitQuiet, gitVars, IdsFresh
<1>2. CASE ExternalStep
  BY <1>2 DEF ExternalStep, IdsFresh
<1>3. CASE CommitStep
  <2>1. made' = made + 1 /\ local'.hist = local.hist \cup {made + 1}
    BY <1>3 DEF CommitStep
  <2>2. remote' = remote \/ remote' = local'
    BY <1>3 DEF CommitStep
  <2> QED
    BY <2>1, <2>2 DEF IdsFresh
<1>4. CASE FastForwardStep
  BY <1>4 DEF FastForwardStep, IdsFresh
<1> QED
  BY <1>1, <1>2, <1>3, <1>4, GitSteps

LEMMA IdsFreshInit == ASSUME Init PROVE IdsFresh
<1>1. local.hist = {0} /\ remote = local /\ made = 0
  BY DEF Init
<1> QED
  BY <1>1 DEF IdsFresh

\* No operation of the service ends a divergence (push, pullLatest).
THEOREM DivergenceIsPermanent == Spec => DivergedForGood
<1>1. ASSUME IdsFresh, [Next]_vars, Diverged PROVE Diverged'
  <2>1. IdsFresh
    BY <1>1
  <2>2. PICK l \in local.hist, r \in remote.hist :
          l \notin remote.hist /\ r \notin local.hist
    BY <1>1 DEF Diverged, Ancestor
  <2>3. CASE GitQuiet
    BY <1>1, <2>3 DEF GitQuiet, gitVars, Diverged, Ancestor
  <2>4. CASE ExternalStep
    BY <2>1, <2>2, <2>4, NextIdIsNew DEF ExternalStep, Diverged, Ancestor
  <2>5. CASE CommitStep
    <3>1. local'.hist = local.hist \cup {made + 1}
      BY <2>5 DEF CommitStep
    <3>2. r # made + 1
      BY <2>1, <2>2, NextIdIsNew
    <3>3. remote' = remote
      BY <2>2, <2>5, <3>1, <3>2 DEF CommitStep, Ancestor
    <3> QED
      BY <2>1, <2>2, <3>1, <3>2, <3>3, NextIdIsNew DEF Diverged, Ancestor
  <2>6. CASE FastForwardStep
    BY <1>1, <2>6 DEF FastForwardStep, Diverged
  <2> QED
    BY <1>1, <2>3, <2>4, <2>5, <2>6, GitSteps
<1>2. IdsFresh /\ [Next]_vars => (Diverged => Diverged')
  BY <1>1
<1>3. Init => IdsFresh
  BY IdsFreshInit
<1>4. IdsFresh /\ [Next]_vars => IdsFresh'
  BY IdsFreshStep
<1> QED
  BY <1>2, <1>3, <1>4, PTL DEF Spec, DivergedForGood

-----------------------------------------------------------------------------
(***************************************************************************)
(* Type correctness.                                                       *)
(***************************************************************************)
LEMMA ItemTypes ==
  /\ NoItems \in Items
  /\ \A e \in Entities, a \in Action : [NoItems EXCEPT ![e] = a] \in Items
  /\ \A S : [e \in Entities |-> IF e \in S THEN "write" ELSE "none"] \in Items
BY DEF NoItems, Items, Action

LEMMA QueueTypes ==
  ASSUME batch \in Items, NEW items \in Items, QueueChanges(items)
  PROVE  batch' \in Items
BY DEF QueueChanges, Items

LEMMA TreeTypes ==
  ASSUME TypeOK
  PROVE  /\ \A items \in Items : TreeAfter(items) \in Tree
         /\ [e \in Entities |->
               IF db[e] # Absent THEN db[e] ELSE local.tree[e]] \in Tree
<1>1. local.tree \in Tree /\ db \in Tree /\ Absent \in Content
  BY DEF TypeOK, Head, Content
<1>2. \A e \in Entities : db[e] \in Content /\ local.tree[e] \in Content
  BY <1>1 DEF Tree
<1>3. ASSUME NEW items \in Items PROVE TreeAfter(items) \in Tree
  BY <1>1, <1>2 DEF TreeAfter, Tree
<1> QED
  BY <1>2, <1>3 DEF Tree

LEMMA CommitTypes ==
  ASSUME TypeOK, NEW tree \in Tree, NEW failed, CommitAndPush(tree, failed)
  PROVE  local' \in Head /\ remote' \in Head /\ made' \in Nat
<1>1. CASE GitQuiet
  BY <1>1 DEF GitQuiet, gitVars, TypeOK
<1>2. CASE made' = made + 1 /\ local' = Committed(tree) /\ remote' \in {remote, local'}
  <2>1. made + 1 \in Nat /\ local.hist \in SUBSET Nat
    BY DEF TypeOK, Head
  <2>2. local' \in Head
    BY <1>2, <2>1 DEF Committed, Head
  <2> QED
    BY <1>2, <2>1, <2>2 DEF TypeOK
<1> QED
  BY <1>1, <1>2, CommitAndPushHeads

LEMMA PullTypes ==
  ASSUME TypeOK, NEW failed, PullLatest(failed)
  PROVE  local' \in Head
BY PullLatestHeads DEF TypeOK

LEMMA ChangeTypes ==
  ASSUME TypeOK, NEW e \in Entities, NEW c \in Content, Change(e, c)
  PROVE  db' \in Tree /\ edits' \in Nat
BY DEF TypeOK, Change, Tree

LEMMA SetsOutTypes ==
  ASSUME TypeOK, NEW e \in Entities, NEW contrary, SetsOut(e, contrary)
  PROVE  enriched' \subseteq Entities /\ crossed' \subseteq Entities
BY DEF TypeOK, SetsOut

LEMMA GitTypeStep == ASSUME TypeOK, [Next]_vars PROVE TypeOK'
<1> USE ConstantsAssumption DEF ConstantsAssumption, editVars
<1>1. ASSUME NEW e \in Entities, NEW c \in Content, WriteRow(e, c) PROVE TypeOK'
  <2>1. events' \in [Entities -> [Action -> Nat]]
    BY <1>1 DEF WriteRow, TypeOK, Action
  <2> QED
    BY <1>1, <2>1, ChangeTypes, SetsOutTypes DEF WriteRow, TypeOK, pullVars, gitVars
<1>2. ASSUME NEW e \in Entities, DeleteRow(e) PROVE TypeOK'
  <2>1. events' \in [Entities -> [Action -> Nat]]
    BY <1>2 DEF DeleteRow, TypeOK, Action
  <2>2. Absent \in Content
    BY DEF Content
  <2> QED
    BY <1>2, <2>1, <2>2, ChangeTypes, SetsOutTypes
    DEF DeleteRow, TypeOK, pullVars, gitVars
<1>3. ASSUME NEW e \in Entities, NEW c \in Content, SyncRow(e, c) PROVE TypeOK'
  BY <1>3, ChangeTypes, SetsOutTypes DEF SyncRow, TypeOK, pullVars, gitVars
<1>21. ASSUME NEW e \in Entities, NEW c \in Content, EnrichRow(e, c) PROVE TypeOK'
  BY <1>21, ChangeTypes DEF EnrichRow, TypeOK, pullVars, gitVars
<1>4. ASSUME QueueSynced PROVE TypeOK'
  <2>1. batch' \in Items
    BY <1>4, ItemTypes, QueueTypes DEF QueueSynced, TypeOK
  <2> QED
    BY <1>4, <2>1 DEF QueueSynced, TypeOK, pullVars, gitVars
<1>5. ASSUME NEW e \in Entities, NEW a \in Action, DeliverEvent(e, a) PROVE TypeOK'
  <2>1. batch' \in Items
    BY <1>5, ItemTypes, QueueTypes DEF DeliverEvent, TypeOK
  <2>2. events' \in [Entities -> [Action -> Nat]]
    BY <1>5 DEF DeliverEvent, TypeOK
  <2> QED
    BY <1>5, <2>1, <2>2 DEF DeliverEvent, TypeOK, pullVars, gitVars
<1>6. ASSUME NEW f \in Flushers, TimerFires(f) PROVE TypeOK'
  BY <1>6, ItemTypes DEF TimerFires, TypeOK, pullVars, gitVars
<1>7. ASSUME NEW f \in Flushers, Flush(f) PROVE TypeOK'
  <2>1. TreeAfter(taken[f]) \in Tree
    BY TreeTypes DEF TypeOK
  <2>2. local' \in Head /\ remote' \in Head /\ made' \in Nat /\ lastError' \in BOOLEAN
    BY <1>7, <2>1, CommitTypes DEF Flush, TypeOK, gitVars
  <2> QED
    BY <1>7, <2>2, ItemTypes DEF Flush, TypeOK, pullVars
<1>8. ASSUME FullSyncPull PROVE TypeOK'
  <2>1. local' \in Head /\ lastError' \in BOOLEAN
    BY <1>8, PullTypes DEF FullSyncPull, TypeOK
  <2> QED
    BY <1>8, <2>1 DEF FullSyncPull, TypeOK, pullVars
<1>9. ASSUME FullSyncPush PROVE TypeOK'
  <2>1. local' \in Head /\ remote' \in Head /\ made' \in Nat /\ lastError' \in BOOLEAN
    BY <1>9, TreeTypes, CommitTypes DEF FullSyncPush
  <2> QED
    BY <1>9, <2>1 DEF FullSyncPush, TypeOK, pullVars
<1>10. ASSUME PullBegin PROVE TypeOK'
  BY <1>10 DEF PullBegin, TypeOK, pullVars, gitVars
<1>11. ASSUME PullFetch PROVE TypeOK'
  <2>1. local' \in Head
    BY <1>11, PullTypes DEF PullFetch
  <2>2. mu' \in {"free", "walking"} /\ lastError' \in BOOLEAN
    BY <1>11 DEF PullFetch, TypeOK
  <2>3. walk' \subseteq Entities
    BY <1>11 DEF PullFetch, TypeOK
  <2> QED
    BY <1>11, <2>1, <2>2, <2>3 DEF PullFetch, TypeOK
<1>12. ASSUME NEW e \in Entities, PullLook(e) PROVE TypeOK'
  <2>1. seen' \in [file : Entities \cup {NoFile}, row : BOOLEAN]
    BY <1>12 DEF PullLook
  <2> QED
    BY <1>12, <2>1 DEF PullLook, TypeOK, gitVars
<1>13. NotWalking \in [file : Entities \cup {NoFile}, row : BOOLEAN]
  BY DEF NotWalking
<1>14. ASSUME NEW e \in Entities, PullApply(e) PROVE TypeOK'
  <2>1. local.tree[e] \in Content
    BY DEF TypeOK, Head, Tree
  <2>2. db' \in Tree
    BY <1>14, <2>1 DEF PullApply, TypeOK, Tree
  <2> QED
    BY <1>13, <1>14, <2>2 DEF PullApply, TypeOK, gitVars
<1>15. ASSUME PullEnd PROVE TypeOK'
  BY <1>15 DEF PullEnd, TypeOK, gitVars
<1>16. ASSUME ReinitEnd \/ Start PROVE TypeOK'
  <2>1. local' \in Head /\ connected' \in BOOLEAN /\ lastError' \in BOOLEAN
    BY <1>16, PullTypes DEF ReinitEnd, Start, Connect
  <2> QED
    BY <1>16, <2>1 DEF ReinitEnd, Start, TypeOK, pullVars
<1>22. ASSUME ReinitBegin PROVE TypeOK'
  BY <1>22 DEF ReinitBegin, TypeOK, pullVars, gitVars
<1>17. ASSUME Stop PROVE TypeOK'
  BY <1>17, ItemTypes DEF Stop, TypeOK, pullVars, gitVars
<1>18. ASSUME Halt PROVE TypeOK'
  <2>1. NoEvents \in [Entities -> [Action -> Nat]]
    BY DEF NoEvents
  <2>2. taken' \in [Flushers -> Items] /\ batch' \in Items
    BY <1>18, ItemTypes DEF Halt
  <2> QED
    BY <1>13, <1>18, <2>1, <2>2 DEF Halt, TypeOK, gitVars
<1>19. ASSUME NEW e \in Entities, NEW c \in Content, ExternalCommit(e, c)
       PROVE TypeOK'
  <2>1. made' \in Nat /\ remote.hist \in SUBSET Nat /\ remote.tree \in Tree
    BY <1>19 DEF ExternalCommit, TypeOK, Head
  <2>2. [remote.tree EXCEPT ![e] = c] \in Tree
    BY <2>1 DEF Tree
  <2>3. remote' \in Head
    BY <1>19, <2>1, <2>2 DEF ExternalCommit, Head
  <2> QED
    BY <1>19, <2>1, <2>3 DEF ExternalCommit, TypeOK, pullVars
<1>20. ASSUME UNCHANGED vars PROVE TypeOK'
  BY <1>20 DEF TypeOK, vars, pullVars, gitVars
<1> QED
  BY <1>1, <1>2, <1>3, <1>4, <1>5, <1>6, <1>7, <1>8, <1>9, <1>10, <1>11, <1>12,
     <1>14, <1>15, <1>16, <1>17, <1>18, <1>19, <1>20, <1>21, <1>22 DEF Next

LEMMA GitTypeInit == ASSUME Init PROVE TypeOK
<1>1. [hist |-> {0}, tree |-> db] \in Head
  BY DEF Init, Head
<1>2. NotWalking \in [file : Entities \cup {NoFile}, row : BOOLEAN]
  BY DEF NotWalking
<1>3. NoEvents \in [Entities -> [Action -> Nat]]
  BY DEF NoEvents
<1> QED
  BY <1>1, <1>2, <1>3, ItemTypes DEF Init, TypeOK

\* Every reachable state of the service and of Git is of the declared types.
THEOREM GitTypeCorrect == Spec => []TypeOK
BY GitTypeInit, GitTypeStep, PTL DEF Spec

-----------------------------------------------------------------------------
(***************************************************************************)
(* What Service.mu protects: the clone under a pull's walk, and the        *)
(* connection status under a full sync or pull.  The strengthening: but    *)
(* for Reinit, an operation that holds the mutex found the service         *)
(* connected, and no operation outlives the process.                       *)
(***************************************************************************)
HolderConnected == mu \notin {"free", "reinit"} => connected

NoHolderWhenDown == up = "down" => mu = "free"

MutexInv == HolderConnected /\ NoHolderWhenDown /\ DisconnectedIsShown

\* The steps that leave the mutex, the status and the clone alone.
MutexQuiet ==
  UNCHANGED <<mu, connected, lastError, local>> /\ (up = "down" <=> up' = "down")

\* All but these are such steps.
MutexBusy ==
  \/ \E f \in Flushers : Flush(f)
  \/ FullSyncPull \/ FullSyncPush
  \/ PullBegin \/ PullFetch \/ PullEnd
  \/ ReinitBegin \/ ReinitEnd \/ Halt \/ Start

LEMMA MutexSteps == ASSUME [Next]_vars PROVE MutexQuiet \/ MutexBusy
<1>1. ASSUME NEW e \in Entities, NEW c \in Content,
             \/ WriteRow(e, c) \/ SyncRow(e, c) \/ EnrichRow(e, c)
             \/ ExternalCommit(e, c)
      PROVE MutexQuiet
  BY <1>1 DEF WriteRow, SyncRow, EnrichRow, ExternalCommit, MutexQuiet, gitVars
<1>2. ASSUME NEW e \in Entities,
             \/ DeleteRow(e) \/ PullLook(e) \/ PullApply(e)
             \/ \E a \in Action : DeliverEvent(e, a)
      PROVE MutexQuiet
  BY <1>2 DEF DeleteRow, PullLook, PullApply, DeliverEvent, MutexQuiet, gitVars
<1>3. ASSUME \/ \E f \in Flushers : TimerFires(f)
             \/ QueueSynced \/ Stop \/ UNCHANGED vars
      PROVE MutexQuiet
  BY <1>3 DEF TimerFires, QueueSynced, Stop, vars, MutexQuiet, gitVars
<1> QED
  BY <1>1, <1>2, <1>3 DEF Next, MutexBusy

LEMMA MutexInvStep == ASSUME MutexInv, [Next]_vars PROVE MutexInv'
<1> USE DEF MutexInv, HolderConnected, NoHolderWhenDown, DisconnectedIsShown
<1>1. CASE MutexQuiet
  BY <1>1 DEF MutexQuiet
<1>2. ASSUME NEW f \in Flushers, Flush(f) PROVE MutexInv'
  <2>1. mu = "free" /\ mu' = "free" /\ connected' = connected /\ up' = up
    BY <1>2 DEF Flush
  <2>2. connected \/ lastError' = lastError
    BY <1>2 DEF Flush
  <2> QED
    BY <2>1, <2>2
<1>3. ASSUME FullSyncPull \/ FullSyncPush \/ PullBegin PROVE MutexInv'
  BY <1>3 DEF FullSyncPull, FullSyncPush, PullBegin
<1>4. ASSUME PullFetch \/ PullEnd PROVE MutexInv'
  BY <1>4 DEF PullFetch, PullEnd
<1>5. ASSUME ReinitBegin \/ Halt PROVE MutexInv'
  BY <1>5 DEF ReinitBegin, Halt
<1>6. ASSUME ReinitEnd \/ Start PROVE MutexInv'
  <2>1. mu' = "free"
    BY <1>6 DEF ReinitEnd, Start
  <2>2. PICK failed \in BOOLEAN : connected' = ~failed /\ lastError' = failed
    BY <1>6 DEF ReinitEnd, Start, Connect
  <2> QED
    BY <2>1, <2>2
<1> QED
  BY <1>1, <1>2, <1>3, <1>4, <1>5, <1>6, MutexSteps DEF MutexBusy

LEMMA MutexInvInit == ASSUME Init PROVE MutexInv
BY DEF Init, MutexInv, HolderConnected, NoHolderWhenDown, DisconnectedIsShown

\* No flush, full sync, reconfiguration or restart changes the clone while a
\* pull walks through it: all of them wait for the mutex the pull holds.
THEOREM WalkUndisturbed == Spec => WalkIsStable
<1>1. ASSUME NoHolderWhenDown, [Next]_vars, mu = "walking", mu' = "walking"
      PROVE  local' = local
  <2>1. MutexQuiet \/ PullEnd
    BY <1>1, MutexSteps DEF MutexBusy, NoHolderWhenDown, Flush, FullSyncPull,
       FullSyncPush, PullBegin, PullFetch, ReinitBegin, ReinitEnd, Halt, Start
  <2> QED
    BY <2>1 DEF MutexQuiet, PullEnd, gitVars
<1>2. NoHolderWhenDown /\ [Next]_vars
        => (mu = "walking" /\ mu' = "walking" => local' = local)
  BY <1>1
<1>3. MutexInv => NoHolderWhenDown
  BY DEF MutexInv
<1> QED
  BY <1>2, <1>3, MutexInvInit, MutexInvStep, PTL DEF Spec, WalkIsStable

\* A service that has lost its connection never shows a clean status, but
\* while it is being reconfigured: the operations that clear the error run
\* only while it is connected.
THEOREM DisconnectionShown == Spec => []DisconnectedIsShown
<1>1. MutexInv => DisconnectedIsShown
  BY DEF MutexInv
<1> QED
  BY <1>1, MutexInvInit, MutexInvStep, PTL DEF Spec

-----------------------------------------------------------------------------
(***************************************************************************)
(* The push direction: only the two named kinds of change are forgotten    *)
(* between a row and its file, in the setting of the run gitops_push:      *)
(* creations, updates, deletions, syncs of both kinds, full syncs and      *)
(* reconfigurations, but no pulls, failures, stops or commits by others.   *)
(***************************************************************************)
PushOnly == ~Pulls /\ ~NetworkFails /\ ~MayStop /\ MaxCommits = 0

-----------------------------------------------------------------------------
(***************************************************************************)
(* The inductive invariant.                                                *)
(***************************************************************************)
\* Clone and remote are one, the service is up and connected or being
\* reconfigured, no pull runs.
InTune ==
  /\ remote = local
  /\ up = "up"
  /\ mu \in {"free", "fullsync", "reinit"}
  /\ mu # "reinit" => connected
  /\ walk = {} /\ seen = NotWalking

\* Of an entity, unless the contrary was once behind it, only writes or only
\* deletions are on their way; they find the row as they left it, and are
\* there whenever row and file differ, unless a sync has written the row since.
Tracked(e) ==
  e \notin crossed =>
    /\ ~(WriteOnItsWay(e) /\ DeleteOnItsWay(e))
    /\ e \notin enriched =>
         /\ DeleteOnItsWay(e) => db[e] = Absent
         /\ WriteOnItsWay(e) => db[e] # Absent
         /\ db[e] # local.tree[e] => WriteOnItsWay(e) \/ DeleteOnItsWay(e)

AllTracked == \A e \in Entities : Tracked(e)

PushInv == TypeOK /\ InTune /\ AllTracked

-----------------------------------------------------------------------------
(***************************************************************************)
(* Lemmas about groups of steps.                                           *)
(***************************************************************************)
\* In tune, a pull changes nothing and does not fail.
LEMMA PullIsIdle ==
  ASSUME PushOnly, InTune, NEW failed \in BOOLEAN, PullLatest(failed)
  PROVE  local' = local /\ failed = FALSE
BY DEF PushOnly, InTune, PullLatest, Diverged, Ancestor

\* In tune, a commit reaches the remote at once.
LEMMA CommitIsPublished ==
  ASSUME PushOnly, InTune, NEW tree, NEW failed \in BOOLEAN,
         CommitAndPush(tree, failed)
  PROVE  remote' = local' /\ local'.tree = tree
<1>1. CASE GitQuiet /\ tree = local.tree
  BY <1>1 DEF GitQuiet, gitVars, InTune
<1>2. CASE local' = Committed(tree) /\ Push(local', failed)
  <2>1. local'.tree = tree /\ Ancestor(remote, local')
    BY <1>2 DEF Committed, Ancestor, InTune
  <2> QED
    BY <1>2, <2>1 DEF Push, PushOnly
<1> QED
  BY <1>1, <1>2 DEF CommitAndPush, GitQuiet

\* Row, file and history of an entity as they were, and the same on its way:
\* items move from where they are pending into the batch, or from the batch
\* into a flush.
LEMMA MoveKeepsTracked ==
  ASSUME NEW e \in Entities, Tracked(e),
         db'[e] = db[e], local'.tree[e] = local.tree[e],
         e \in crossed' <=> e \in crossed, e \in enriched' <=> e \in enriched,
         e \notin crossed => /\ WriteOnItsWay(e)' <=> WriteOnItsWay(e)
                             /\ DeleteOnItsWay(e)' <=> DeleteOnItsWay(e)
  PROVE  Tracked(e)'
BY DEF Tracked

\* A row is written and its write sets out.
LEMMA WriteKeepsTracked ==
  ASSUME NEW e \in Entities, SetsOut(e, DeleteOnItsWay(e)), db'[e] # Absent,
         WriteOnItsWay(e)', DeleteOnItsWay(e)' <=> DeleteOnItsWay(e)
  PROVE  Tracked(e)'
BY DEF SetsOut, Tracked

\* A row is deleted and its deletion sets out.
LEMMA DeletionKeepsTracked ==
  ASSUME NEW e \in Entities, SetsOut(e, WriteOnItsWay(e)), db'[e] = Absent,
         DeleteOnItsWay(e)', WriteOnItsWay(e)' <=> WriteOnItsWay(e)
  PROVE  Tracked(e)'
BY DEF SetsOut, Tracked

\* A change of one row leaves the others as they are.
LEMMA OthersUnchanged ==
  ASSUME TypeOK, NEW e \in Entities, NEW c \in Content, Change(e, c)
  PROVE  /\ db'[e] = c
         /\ \A d \in Entities : d # e => db'[d] = db[d]
BY DEF Change, TypeOK, Tree

LEMMA SetsOutAlone ==
  ASSUME NEW e \in Entities, NEW contrary, SetsOut(e, contrary)
  PROVE  \A d \in Entities : d # e => /\ d \in crossed' <=> d \in crossed
                                      /\ d \in enriched' <=> d \in enriched
BY DEF SetsOut

\* A flush brings the file of each entity it has taken in step with the row,
\* and leaves the others as they are.
LEMMA FlushedIsInStep ==
  ASSUME PushOnly, PushInv, NEW f \in Flushers, Flush(f)
  PROVE  /\ remote' = local'
         /\ \A e \in Entities :
              e \notin crossed \cup enriched =>
                local'.tree[e] = IF taken[f][e] = "none" THEN local.tree[e] ELSE db[e]
<1>1. connected /\ InTune
  BY DEF PushInv, InTune, Flush
<1>2. \A e \in Entities :
        e \notin crossed \cup enriched =>
          /\ taken[f][e] \in {"none", "write", "delete"}
          /\ taken[f][e] = "write" => db[e] # Absent
          /\ taken[f][e] = "delete" => db[e] = Absent
  BY DEF PushInv, TypeOK, Items, Action, AllTracked, Tracked, WriteOnItsWay,
     DeleteOnItsWay
<1>3. CASE HandlesAFile(taken[f])
  <2>1. PICK failed \in BOOLEAN : CommitAndPush(TreeAfter(taken[f]), failed)
    BY <1>1, <1>3 DEF Flush
  <2>2. remote' = local' /\ local'.tree = TreeAfter(taken[f])
    BY <1>1, <2>1, CommitIsPublished
  <2> QED
    BY <1>2, <2>2 DEF TreeAfter
<1>4. CASE ~HandlesAFile(taken[f])
  <2>1. local' = local /\ remote' = remote
    BY <1>4 DEF Flush, gitVars
  <2> QED
    BY <1>1, <1>2, <1>4, <2>1 DEF HandlesAFile, InTune
<1> QED
  BY <1>3, <1>4

-----------------------------------------------------------------------------
LEMMA PushInvInit == ASSUME PushOnly, Init PROVE PushInv
<1>1. TypeOK
  BY GitTypeInit
<1>2. InTune
  BY DEF Init, InTune
<1>3. ASSUME NEW e \in Entities PROVE Tracked(e)
  <2>1. ~WriteOnItsWay(e) /\ ~DeleteOnItsWay(e)
    BY DEF Init, WriteOnItsWay, DeleteOnItsWay, NoEvents, NoItems, Action
  <2> QED
    BY <2>1 DEF Init, Tracked
<1> QED
  BY <1>1, <1>2, <1>3 DEF PushInv, AllTracked

LEMMA PushInvStep == ASSUME PushOnly, PushInv, [Next]_vars PROVE PushInv'
<1> USE ConstantsAssumption DEF ConstantsAssumption
<1>1. TypeOK /\ TypeOK' /\ InTune /\ \A d \in Entities : Tracked(d)
  BY GitTypeStep DEF PushInv, AllTracked
<1> DEFINE Rest == InTune /\ AllTracked
<1>2. ASSUME NEW e \in Entities, NEW c \in Content, WriteRow(e, c) PROVE Rest'
  <2>1. /\ events'[e]["write"] > 0
        /\ events'[e]["delete"] = events[e]["delete"]
        /\ \A d \in Entities : d # e => events'[d] = events[d]
    BY <1>1, <1>2 DEF WriteRow, TypeOK, Action
  <2>2. InTune'
    BY <1>1, <1>2 DEF WriteRow, InTune, pullVars, gitVars
  <2>3. Tracked(e)'
    <3>1. db'[e] # Absent
      BY <1>1, <1>2, OthersUnchanged DEF WriteRow
    <3>2. WriteOnItsWay(e)' /\ (DeleteOnItsWay(e)' <=> DeleteOnItsWay(e))
      BY <1>2, <2>1 DEF WriteRow, WriteOnItsWay, DeleteOnItsWay
    <3> QED
      BY <1>2, <3>1, <3>2, WriteKeepsTracked DEF WriteRow
  <2>4. ASSUME NEW d \in Entities, d # e PROVE Tracked(d)'
    <3>1. /\ WriteOnItsWay(d)' <=> WriteOnItsWay(d)
          /\ DeleteOnItsWay(d)' <=> DeleteOnItsWay(d)
      BY <1>2, <2>1, <2>4 DEF WriteRow, WriteOnItsWay, DeleteOnItsWay
    <3>2. db'[d] = db[d] /\ local' = local
      BY <1>1, <1>2, <2>4, OthersUnchanged DEF WriteRow, gitVars
    <3>3. /\ d \in crossed' <=> d \in crossed
          /\ d \in enriched' <=> d \in enriched
      BY <1>2, <2>4, SetsOutAlone DEF WriteRow
    <3> QED
      BY <1>1, <3>1, <3>2, <3>3, MoveKeepsTracked
  <2> QED
    BY <2>2, <2>3, <2>4 DEF AllTracked
<1>3. ASSUME NEW e \in Entities, DeleteRow(e) PROVE Rest'
  <2>1. /\ events'[e]["delete"] > 0
        /\ events'[e]["write"] = events[e]["write"]
        /\ \A d \in Entities : d # e => events'[d] = events[d]
    BY <1>1, <1>3 DEF DeleteRow, TypeOK, Action
  <2>2. InTune'
    BY <1>1, <1>3 DEF DeleteRow, InTune, pullVars, gitVars
  <2>3. Absent \in Content
    BY DEF Content
  <2>4. Tracked(e)'
    <3>1. db'[e] = Absent
      BY <1>1, <1>3, <2>3, OthersUnchanged DEF DeleteRow
    <3>2. DeleteOnItsWay(e)' /\ (WriteOnItsWay(e)' <=> WriteOnItsWay(e))
      BY <1>3, <2>1 DEF DeleteRow, WriteOnItsWay, DeleteOnItsWay
    <3> QED
      BY <1>3, <3>1, <3>2, DeletionKeepsTracked DEF DeleteRow
  <2>5. ASSUME NEW d \in Entities, d # e PROVE Tracked(d)'
    <3>1. /\ WriteOnItsWay(d)' <=> WriteOnItsWay(d)
          /\ DeleteOnItsWay(d)' <=> DeleteOnItsWay(d)
      BY <1>3, <2>1, <2>5 DEF DeleteRow, WriteOnItsWay, DeleteOnItsWay
    <3>2. db'[d] = db[d] /\ local' = local
      BY <1>1, <1>3, <2>3, <2>5, OthersUnchanged DEF DeleteRow, gitVars
    <3>3. /\ d \in crossed' <=> d \in crossed
          /\ d \in enriched' <=> d \in enriched
      BY <1>3, <2>5, SetsOutAlone DEF DeleteRow
    <3> QED
      BY <1>1, <3>1, <3>2, <3>3, MoveKeepsTracked
  <2> QED
    BY <2>2, <2>4, <2>5 DEF AllTracked
<1>4. ASSUME NEW e \in Entities, NEW c \in Content, SyncRow(e, c) PROVE Rest'
  <2>1. InTune'
    BY <1>1, <1>4 DEF SyncRow, InTune, pullVars, gitVars
  <2>2. Tracked(e)'
    <3>1. db'[e] # Absent
      BY <1>1, <1>4, OthersUnchanged DEF SyncRow
    <3>2. WriteOnItsWay(e)' /\ (DeleteOnItsWay(e)' <=> DeleteOnItsWay(e))
      BY <1>4 DEF SyncRow, WriteOnItsWay, DeleteOnItsWay
    <3> QED
      BY <1>4, <3>1, <3>2, WriteKeepsTracked DEF SyncRow
  <2>3. ASSUME NEW d \in Entities, d # e PROVE Tracked(d)'
    <3>1. /\ WriteOnItsWay(d)' <=> WriteOnItsWay(d)
          /\ DeleteOnItsWay(d)' <=> DeleteOnItsWay(d)
      BY <1>4, <2>3 DEF SyncRow, WriteOnItsWay, DeleteOnItsWay
    <3>2. db'[d] = db[d] /\ local' = local
      BY <1>1, <1>4, <2>3, OthersUnchanged DEF SyncRow, gitVars
    <3>3. /\ d \in crossed' <=> d \in crossed
          /\ d \in enriched' <=> d \in enriched
      BY <1>4, <2>3, SetsOutAlone DEF SyncRow
    <3> QED
      BY <1>1, <3>1, <3>2, <3>3, MoveKeepsTracked
  <2> QED
    BY <2>1, <2>2, <2>3 DEF AllTracked
<1>5. ASSUME NEW e \in Entities, NEW c \in Content, EnrichRow(e, c) PROVE Rest'
  <2>1. InTune'
    BY <1>1, <1>5 DEF EnrichRow, InTune, pullVars, gitVars
  <2>2. ASSUME NEW d \in Entities PROVE Tracked(d)'
    <3>1. /\ WriteOnItsWay(d)' <=> WriteOnItsWay(d)
          /\ DeleteOnItsWay(d)' <=> DeleteOnItsWay(d)
      BY <1>5 DEF EnrichRow, WriteOnItsWay, DeleteOnItsWay
    <3>2. CASE d = e
      BY <1>1, <1>5, <3>1, <3>2 DEF EnrichRow, Tracked
    <3>3. CASE d # e
      <4>1. db'[d] = db[d] /\ local' = local
        BY <1>1, <1>5, <3>3, OthersUnchanged DEF EnrichRow, gitVars
      <4> QED
        BY <1>1, <1>5, <3>1, <3>3, <4>1, MoveKeepsTracked DEF EnrichRow
    <3> QED
      BY <3>2, <3>3
  <2> QED
    BY <2>1, <2>2 DEF AllTracked
<1>6. ASSUME QueueSynced PROVE Rest'
  <2>1. \A d \in Entities :
          batch'[d] = IF d \in touched THEN "write" ELSE batch[d]
    BY <1>1, <1>6 DEF QueueSynced, QueueChanges, Syncing, InTune
  <2>2. InTune'
    BY <1>1, <1>6 DEF QueueSynced, InTune, pullVars, gitVars
  <2>3. ASSUME NEW d \in Entities PROVE Tracked(d)'
    <3>1. d \notin crossed => /\ WriteOnItsWay(d)' <=> WriteOnItsWay(d)
                              /\ DeleteOnItsWay(d)' <=> DeleteOnItsWay(d)
      <4>1. d \in touched => WriteOnItsWay(d) /\ WriteOnItsWay(d)'
        BY <2>1 DEF WriteOnItsWay
      <4>2. d \in touched /\ d \notin crossed => ~DeleteOnItsWay(d)
        BY <1>1, <4>1 DEF Tracked
      <4>3. DeleteOnItsWay(d)' => DeleteOnItsWay(d)
        BY <1>6, <2>1 DEF QueueSynced, DeleteOnItsWay
      <4>4. CASE d \in touched
        BY <4>1, <4>2, <4>3, <4>4
      <4>5. CASE d \notin touched
        BY <1>6, <2>1, <4>5 DEF QueueSynced, WriteOnItsWay, DeleteOnItsWay
      <4> QED
        BY <4>4, <4>5
    <3> QED
      BY <1>1, <1>6, <3>1, MoveKeepsTracked DEF QueueSynced, gitVars, editVars
  <2> QED
    BY <2>2, <2>3 DEF AllTracked
<1>7. ASSUME NEW e \in Entities, NEW a \in Action, DeliverEvent(e, a) PROVE Rest'
  <2>1. \A d \in Entities : batch'[d] = IF d = e THEN a ELSE batch[d]
    BY <1>1, <1>7 DEF DeliverEvent, QueueChanges, Syncing, InTune, NoItems, Action
  <2>2. \A d \in Entities, b \in Action :
          d # e \/ b # a => events'[d][b] = events[d][b]
    BY <1>1, <1>7 DEF DeliverEvent, TypeOK
  <2>3. \A b \in Action : events[e][b] \in Nat /\ events'[e][b] \in Nat
    BY <1>1 DEF TypeOK
  <2>4. events'[e][a] = events[e][a] - 1 /\ events[e][a] > 0
    BY <1>1, <1>7 DEF DeliverEvent, TypeOK
  <2>5. InTune'
    BY <1>1, <1>7 DEF DeliverEvent, InTune, pullVars, gitVars
  <2>6. ASSUME NEW d \in Entities PROVE Tracked(d)'
    <3>1. d \notin crossed => /\ WriteOnItsWay(d)' <=> WriteOnItsWay(d)
                              /\ DeleteOnItsWay(d)' <=> DeleteOnItsWay(d)
      <4>1. CASE d # e
        BY <1>7, <2>1, <2>2, <4>1
        DEF DeliverEvent, WriteOnItsWay, DeleteOnItsWay, Action
      <4>2. CASE d = e /\ a = "write"
        <5>1. WriteOnItsWay(d) /\ WriteOnItsWay(d)'
          BY <2>1, <2>4, <4>2 DEF WriteOnItsWay
        <5>2. DeleteOnItsWay(d)' => DeleteOnItsWay(d)
          BY <1>7, <2>1, <2>2, <4>2 DEF DeliverEvent, DeleteOnItsWay, Action
        <5> QED
          BY <1>1, <5>1, <5>2 DEF Tracked
      <4>3. CASE d = e /\ a = "delete"
        <5>1. DeleteOnItsWay(d) /\ DeleteOnItsWay(d)'
          BY <2>1, <2>4, <4>3 DEF DeleteOnItsWay
        <5>2. WriteOnItsWay(d)' => WriteOnItsWay(d)
          BY <1>7, <2>1, <2>2, <4>3 DEF DeliverEvent, WriteOnItsWay, Action
        <5> QED
          BY <1>1, <5>1, <5>2 DEF Tracked
      <4> QED
        BY <4>1, <4>2, <4>3 DEF Action
    <3> QED
      BY <1>1, <1>7, <3>1, MoveKeepsTracked DEF DeliverEvent, gitVars, editVars
  <2> QED
    BY <2>5, <2>6 DEF AllTracked
<1>8. ASSUME NEW f \in Flushers, TimerFires(f) PROVE Rest'
  <2>1. \A e \in Entities : /\ batch'[e] = "none" /\ taken[f][e] = "none"
                            /\ taken'[f][e] = batch[e]
    BY <1>1, <1>8 DEF TimerFires, NoItems, TypeOK
  <2>2. \A g \in Flushers : g # f => taken'[g] = taken[g]
    BY <1>1, <1>8 DEF TimerFires, TypeOK
  <2>3. InTune'
    BY <1>1, <1>8 DEF TimerFires, InTune, pullVars, gitVars
  <2>4. ASSUME NEW d \in Entities PROVE Tracked(d)'
    <3>1. WriteOnItsWay(d)' <=> WriteOnItsWay(d)
      BY <1>8, <2>1, <2>2 DEF TimerFires, WriteOnItsWay
    <3>2. DeleteOnItsWay(d)' <=> DeleteOnItsWay(d)
      BY <1>8, <2>1, <2>2 DEF TimerFires, DeleteOnItsWay
    <3> QED
      BY <1>1, <1>8, <3>1, <3>2, MoveKeepsTracked DEF TimerFires, gitVars, editVars
  <2> QED
    BY <2>3, <2>4 DEF AllTracked
<1>9. ASSUME NEW f \in Flushers, Flush(f) PROVE Rest'
  <2>1. /\ \A e \in Entities : taken'[f][e] = "none"
        /\ \A g \in Flushers : g # f => taken'[g] = taken[g]
    BY <1>1, <1>9 DEF Flush, NoItems, TypeOK
  <2>2. InTune'
    BY <1>1, <1>9, FlushedIsInStep DEF Flush, InTune, pullVars
  <2>3. ASSUME NEW d \in Entities PROVE Tracked(d)'
    <3>1. WriteOnItsWay(d)' => WriteOnItsWay(d)
      BY <1>9, <2>1 DEF Flush, WriteOnItsWay
    <3>2. DeleteOnItsWay(d)' => DeleteOnItsWay(d)
      BY <1>9, <2>1 DEF Flush, DeleteOnItsWay
    <3>3. taken[f][d] = "none" =>
            (WriteOnItsWay(d) \/ DeleteOnItsWay(d)
               => WriteOnItsWay(d)' \/ DeleteOnItsWay(d)')
      BY <1>9, <2>1 DEF Flush, WriteOnItsWay, DeleteOnItsWay
    <3>4. d \notin crossed \cup enriched =>
            local'.tree[d] = IF taken[f][d] = "none" THEN local.tree[d] ELSE db[d]
      BY <1>9, FlushedIsInStep
    <3>5. db' = db /\ crossed' = crossed /\ enriched' = enriched
      BY <1>9 DEF Flush, editVars
    <3> QED
      BY <1>1, <3>1, <3>2, <3>3, <3>4, <3>5 DEF Tracked
  <2> QED
    BY <2>2, <2>3 DEF AllTracked
<1>10. ASSUME FullSyncPush PROVE Rest'
  <2>1. /\ remote' = local'
        /\ local'.tree = [e \in Entities |->
             IF db[e] # Absent THEN db[e] ELSE local.tree[e]]
    BY <1>1, <1>10, CommitIsPublished DEF FullSyncPush
  <2>2. InTune'
    BY <1>1, <1>10, <2>1 DEF FullSyncPush, InTune, pullVars
  <2>3. ASSUME NEW d \in Entities PROVE Tracked(d)'
    <3>1. /\ WriteOnItsWay(d)' <=> WriteOnItsWay(d)
          /\ DeleteOnItsWay(d)' <=> DeleteOnItsWay(d)
      BY <1>10 DEF FullSyncPush, WriteOnItsWay, DeleteOnItsWay
    <3>2. local'.tree[d] = db[d] \/ local'.tree[d] = local.tree[d]
      BY <2>1
    <3>3. db' = db /\ crossed' = crossed /\ enriched' = enriched
      BY <1>10 DEF FullSyncPush, editVars
    <3> QED
      BY <1>1, <3>1, <3>2, <3>3 DEF Tracked
  <2> QED
    BY <2>2, <2>3 DEF AllTracked
<1>11. ASSUME FullSyncPull \/ ReinitBegin \/ ReinitEnd \/ UNCHANGED vars
       PROVE Rest'
  <2>1. local' = local /\ InTune'
    <3>1. CASE FullSyncPull
      <4>1. local' = local
        BY <1>1, <3>1, PullIsIdle DEF FullSyncPull
      <4> QED
        BY <1>1, <3>1, <4>1 DEF FullSyncPull, InTune, pullVars
    <3>2. CASE ReinitBegin
      BY <1>1, <3>2 DEF ReinitBegin, InTune, pullVars, gitVars
    <3>3. CASE ReinitEnd
      <4>1. local' = local /\ connected'
        BY <1>1, <3>3, PullIsIdle DEF ReinitEnd, Connect
      <4> QED
        BY <1>1, <3>3, <4>1 DEF ReinitEnd, InTune, pullVars
    <3>4. CASE UNCHANGED vars
      BY <1>1, <3>4 DEF vars, InTune, pullVars, gitVars
    <3> QED
      BY <1>11, <3>1, <3>2, <3>3, <3>4
  <2>2. UNCHANGED <<db, events, touched, batch, taken, crossed, enriched>>
    BY <1>11 DEF FullSyncPull, ReinitBegin, ReinitEnd, vars, editVars
  <2>3. ASSUME NEW d \in Entities PROVE Tracked(d)'
    <3>1. /\ WriteOnItsWay(d)' <=> WriteOnItsWay(d)
          /\ DeleteOnItsWay(d)' <=> DeleteOnItsWay(d)
      BY <2>2 DEF WriteOnItsWay, DeleteOnItsWay
    <3> QED
      BY <1>1, <2>1, <2>2, <3>1, MoveKeepsTracked
  <2> QED
    BY <2>1, <2>3 DEF AllTracked
<1>12. ~PullBegin /\ ~PullFetch /\ ~PullEnd /\ ~Stop /\ ~Halt /\ ~Start
  BY <1>1 DEF PushOnly, InTune, PullBegin, PullFetch, PullEnd, Stop, Halt, Start
<1>13. \A e \in Entities : ~PullLook(e) /\ ~PullApply(e)
  BY <1>1 DEF PushOnly, InTune, PullLook, PullApply, NotWalking
<1>14. \A e \in Entities, c \in Content : ~ExternalCommit(e, c)
  BY <1>1 DEF PushOnly, ExternalCommit, TypeOK
<1>15. Rest'
  <2>1. CASE UNCHANGED vars
    BY <1>11, <2>1
  <2>2. CASE Next
    BY <1>2, <1>3, <1>4, <1>5, <1>6, <1>7, <1>8, <1>9, <1>10, <1>11, <1>12, <1>13,
       <1>14, <2>2 DEF Next
  <2> QED
    BY <2>1, <2>2
<1> QED
  BY <1>1, <1>15 DEF PushInv

\* However events, syncs, timers, flushes, full syncs and reconfigurations
\* interleave, a row that differs from its file has its event, its batch item
\* or its flush still to come, unless a sync that queues nothing was the last
\* to write it or a write and a deletion of it were on their way at once:
\* QueueChange and flushBatch forget no other change.
THEOREM NoOtherChangeForgotten ==
  ASSUME PushOnly PROVE Spec => []OutOfStepMeansPending
<1>1. Init => PushInv
  BY PushInvInit
<1>2. PushInv /\ [Next]_vars => PushInv'
  BY PushInvStep
<1>3. PushInv => OutOfStepMeansPending
  BY DEF PushInv, AllTracked, Tracked, OutOfStepMeansPending
<1> QED
  BY <1>1, <1>2, <1>3, PTL DEF Spec
===========================================================================
