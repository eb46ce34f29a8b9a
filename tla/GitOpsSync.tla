----------------------------- MODULE GitOpsSync -----------------------------
(***************************************************************************)
(* The GitOps service (internal/gitops/service.go): entity changes are     *)
(* queued from the event bus, flushed after a debounce delay as one commit *)
(* and pushed; pulls fetch the remote and reconcile the database with it.  *)
(* With it the parts of the server it lives among: the entity handlers     *)
(* that write rows and publish events, the plugins' syncs, of which the    *)
(* Kubernetes one queues in bulk and the others queue nothing, start-up    *)
(* and shutdown.  The Git remote and the people who commit to it directly  *)
(* are the environment.                                                    *)
(*                                                                         *)
(* A branch head is the set of commits it contains and the entity files of *)
(* its tree: one head is an ancestor of another iff its history is a       *)
(* subset.  The service pushes automatically (autoPush, the default).      *)
(***************************************************************************)
EXTENDS Naturals

CONSTANTS
  Entities,     \* entity references; each has one row and one file
  Values,       \* contents of an entity
  Absent,       \* no row, or no file
  NoFile,       \* reconcileFromRepo is between two files
  Flushers,     \* goroutines that may be running flushBatch at once
  Main,         \* the one of them that runs it from Stop
  MaxEdits,     \* bound on the changes made through the API and by syncs
  MaxCommits,   \* nobody commits to the remote after this many commits
  Deletes,      \* may users delete entities?
  Syncs,        \* the syncs that run: "kubernetes", and "source" for the others
  Pulls,        \* are pulls triggered?
  NetworkFails, \* may a fetch or a push fail?
  MayStop       \* may the process be stopped or killed?

ASSUME ConstantsAssumption ==
  /\ Absent \notin Values
  /\ NoFile \notin Entities
  /\ Main \in Flushers
  /\ MaxEdits \in Nat /\ MaxCommits \in Nat
  /\ Syncs \subseteq {"kubernetes", "source"}
  /\ {Deletes, Pulls, NetworkFails, MayStop} \subseteq BOOLEAN

Content == Values \cup {Absent}
Action  == {"write", "delete"}
Items   == [Entities -> Action \cup {"none"}]
NoItems == [e \in Entities |-> "none"]
Tree    == [Entities -> Content]
Head    == [hist : SUBSET Nat, tree : Tree]

VARIABLES
  \* The server
  db,         \* the entities table
  events,     \* subscriber goroutines not yet run, per entity and action
  touched,    \* entities a Kubernetes sync has written and not yet queued
  batch,      \* batchItems; its timer runs exactly while it is not empty
  taken,      \* the items each flushBatch has taken out of the batch
  mu,         \* the operation that holds Service.mu across several steps
  walk,       \* files a pull has still to reconcile
  seen,       \* the file being reconciled, and whether it had a row
  pullErrors, \* has a file failed during this pull?
  connected,  \* status.Connected
  lastError,  \* is status.LastError set?
  up,         \* the process
  \* Git
  local,      \* head of the service's clone
  remote,     \* head of the branch on the remote
  made,       \* number of commits made so far: the next commit's identity
  edits,      \* number of changes made so far
  \* History: which rows have left the way to Git.  No guard reads these.
  enriched,   \* entities last written by a sync that queues nothing
  crossed     \* entities of which a write and a deletion were on their way at once

pullVars == <<walk, seen, pullErrors>>
gitVars  == <<local, remote, made>>
editVars == <<edits, enriched, crossed>>
vars == <<db, events, touched, batch, taken, mu, pullVars, connected, lastError,
          up, gitVars, editVars>>

NotWalking == [file |-> NoFile, row |-> FALSE]
NoEvents   == [e \in Entities |-> [a \in Action |-> 0]]

Init ==
  /\ db \in Tree
  /\ events = NoEvents
  /\ touched = {}
  /\ batch = NoItems
  /\ taken = [f \in Flushers |-> NoItems]
  /\ mu = "free"
  /\ walk = {} /\ seen = NotWalking /\ pullErrors = FALSE
  /\ connected = TRUE /\ lastError = FALSE
  /\ up = "up"
  /\ local = [hist |-> {0}, tree |-> db]
  /\ remote = local
  /\ made = 0
  /\ edits = 0
  /\ enriched = {} /\ crossed = {}

-----------------------------------------------------------------------------
(***************************************************************************)
(* Changes: the entity handlers and the plugins' syncs.                    *)
(***************************************************************************)
WriteOnItsWay(e) ==
  \/ events[e]["write"] > 0
  \/ e \in touched
  \/ batch[e] = "write"
  \/ \E f \in Flushers : taken[f][e] = "write"

DeleteOnItsWay(e) ==
  \/ events[e]["delete"] > 0
  \/ batch[e] = "delete"
  \/ \E f \in Flushers : taken[f][e] = "delete"

Change(e, c) ==
  /\ up # "down"
  /\ edits < MaxEdits
  /\ edits' = edits + 1
  /\ db' = [db EXCEPT ![e] = c]

\* A change that will be queued sets out: alone, behind others of its kind or
\* while the contrary is on its way.
SetsOut(e, contrary) ==
  /\ enriched' = enriched \ {e}
  /\ crossed' = IF contrary THEN crossed \cup {e}
                ELSE IF WriteOnItsWay(e) \/ DeleteOnItsWay(e) THEN crossed
                ELSE crossed \ {e}

\* CreateEntity or UpdateEntity: the row, then the event.
WriteRow(e, c) ==
  /\ c \in Values
  /\ Change(e, c)
  /\ SetsOut(e, DeleteOnItsWay(e))
  /\ events' = [events EXCEPT ![e]["write"] = @ + 1]
  /\ UNCHANGED <<touched, batch, taken, mu, pullVars, connected, lastError, up,
                 gitVars>>

\* DeleteEntity.
DeleteRow(e) ==
  /\ Deletes /\ db[e] # Absent
  /\ Change(e, Absent)
  /\ SetsOut(e, WriteOnItsWay(e))
  /\ events' = [events EXCEPT ![e]["delete"] = @ + 1]
  /\ UNCHANGED <<touched, batch, taken, mu, pullVars, connected, lastError, up,
                 gitVars>>

\* SyncPlugin, "github", "argocd" and external plugins, which write and delete
\* through the internal endpoints: the row alone, no event, nothing queued.
EnrichRow(e, c) ==
  /\ "source" \in Syncs
  /\ c = Absent => db[e] # Absent
  /\ Change(e, c)
  /\ enriched' = enriched \cup {e}
  /\ UNCHANGED <<events, touched, batch, taken, mu, pullVars, connected,
                 lastError, up, gitVars, crossed>>

\* SyncPlugin, "kubernetes": rows are written one by one, with no event ...
SyncRow(e, c) ==
  /\ "kubernetes" \in Syncs
  /\ c \in Values
  /\ Change(e, c)
  /\ SetsOut(e, DeleteOnItsWay(e))
  /\ touched' = touched \cup {e}
  /\ UNCHANGED <<events, batch, taken, mu, pullVars, connected, lastError, up,
                 gitVars>>

\* s.syncing, TRUE from the moment Pull has the mutex to its return.
Syncing == mu \in {"fetching", "walking"}

\* QueueChange and QueueChanges: nothing while a pull reconciles; otherwise
\* the last action queued for an entity replaces the earlier one.
QueueChanges(items) ==
  batch' = IF Syncing THEN batch
           ELSE [e \in Entities |->
                   IF items[e] = "none" THEN batch[e] ELSE items[e]]

\* ... and queued together when the sync is through.
QueueSynced ==
  /\ touched # {}
  /\ QueueChanges([e \in Entities |-> IF e \in touched THEN "write" ELSE "none"])
  /\ touched' = {}
  /\ UNCHANGED <<db, events, taken, mu, pullVars, connected, lastError, up,
                 gitVars, editVars>>

\* Faulty: an event is handled that was never published, or handled twice.
DeliverAnyEvent(e, a) ==
  /\ up # "down"
  /\ events' = [events EXCEPT ![e][a] = @ - 1]
  /\ QueueChanges([NoItems EXCEPT ![e] = a])
  /\ UNCHANGED <<db, touched, taken, mu, pullVars, connected, lastError, up,
                 gitVars, editVars>>

\* A subscriber goroutine of the event bus runs: in no particular order.
DeliverEvent(e, a) ==
  /\ events[e][a] > 0
  /\ events' = [events EXCEPT ![e][a] = @ - 1]
  /\ QueueChanges([NoItems EXCEPT ![e] = a])
  /\ UNCHANGED <<db, touched, taken, mu, pullVars, connected, lastError, up,
                 gitVars, editVars>>

-----------------------------------------------------------------------------
(***************************************************************************)
(* Git: the operations flushBatch, FullSync, Pull and Reinit are made of.  *)
(***************************************************************************)
Ancestor(a, b) == a.hist \subseteq b.hist

Diverged == ~Ancestor(local, remote) /\ ~Ancestor(remote, local)

\* Faulty: the refspec of the push forces.
ForcedPush(head, failed) ==
  \/ remote' = head /\ failed = FALSE
  \/ NetworkFails /\ remote' \in {remote, head} /\ failed = TRUE

\* push: a fast-forward of the remote, a rejection, or a network failure,
\* before or after the remote has taken the commits.
Push(head, failed) ==
  \/ Ancestor(remote, head) /\ remote' = head /\ failed = FALSE
  \/ ~Ancestor(remote, head) /\ UNCHANGED remote /\ failed = TRUE
  \/ NetworkFails /\ UNCHANGED remote /\ failed = TRUE
  \/ NetworkFails /\ Ancestor(remote, head) /\ remote' = head /\ failed = TRUE

\* The head after committing a worktree.
Committed(tree) == [hist |-> local.hist \cup {made + 1}, tree |-> tree]

\* commitAndPush: a clean worktree is neither committed nor pushed.
CommitAndPush(tree, failed) ==
  \/ /\ tree = local.tree
     /\ failed = FALSE
     /\ UNCHANGED gitVars
  \/ /\ tree # local.tree
     /\ made' = made + 1
     /\ local' = Committed(tree)
     /\ Push(local', failed)

\* Faulty: a pull that cannot fast-forward takes the remote's side.
PullHard(failed) ==
  \/ local' = remote /\ failed = FALSE
  \/ NetworkFails /\ UNCHANGED local /\ failed = TRUE

\* pullLatest: fast-forward only; a clone that is ahead is up to date, one
\* that has diverged is an error.
PullLatest(failed) ==
  \/ Ancestor(local, remote) /\ local' = remote /\ failed = FALSE
  \/ Ancestor(remote, local) /\ UNCHANGED local /\ failed = FALSE
  \/ Diverged /\ UNCHANGED local /\ failed = TRUE
  \/ NetworkFails /\ UNCHANGED local /\ failed = TRUE

-----------------------------------------------------------------------------
(***************************************************************************)
(* Pushing: flushBatch.                                                    *)
(***************************************************************************)
\* The debounce timer fires: the batch becomes the goroutine's own.
TimerFires(f) ==
  /\ f # Main /\ taken[f] = NoItems
  /\ batch # NoItems
  /\ taken' = [taken EXCEPT ![f] = batch]
  /\ batch' = NoItems
  /\ UNCHANGED <<db, events, touched, mu, pullVars, connected, lastError, up,
                 gitVars, editVars>>

\* Faulty: only files that exist are written.
TreeSkippingNew(items) ==
  [e \in Entities |->
    CASE items[e] = "write" /\ db[e] # Absent /\ local.tree[e] # Absent -> db[e]
      [] items[e] = "delete" -> Absent
      [] OTHER -> local.tree[e]]

\* The worktree after a batch: a "write" takes the row as it is now, or
\* nothing if it is gone; a "delete" asks no row.
TreeAfter(items) ==
  [e \in Entities |->
    CASE items[e] = "write" /\ db[e] # Absent -> db[e]
      [] items[e] = "delete" -> Absent
      [] OTHER -> local.tree[e]]

\* flushBatch returns early, without a verdict, when it has handled no file.
HandlesAFile(items) ==
  \E e \in Entities : items[e] = "delete" \/ (items[e] = "write" /\ db[e] # Absent)

\* Faulty: the mutex is only taken for the commit.
FlushUnlocked(f) ==
  /\ taken[f] # NoItems
  /\ connected
  /\ \E failed \in BOOLEAN :
       /\ CommitAndPush(TreeAfter(taken[f]), failed)
       /\ lastError' = failed
  /\ taken' = [taken EXCEPT ![f] = NoItems]
  /\ UNCHANGED <<db, events, touched, batch, mu, pullVars, connected, up, editVars>>

\* Faulty: the error of the last operation is cleared whatever happened.
FlushForgetsError(f) ==
  /\ taken[f] # NoItems
  /\ mu = "free"
  /\ lastError' = FALSE
  /\ IF connected
     THEN \E failed \in BOOLEAN : CommitAndPush(TreeAfter(taken[f]), failed)
     ELSE UNCHANGED gitVars
  /\ taken' = [taken EXCEPT ![f] = NoItems]
  /\ UNCHANGED <<db, events, touched, batch, mu, pullVars, connected, up, editVars>>

\* Faulty: a flush that finds the mutex taken gives up.
FlushIfFree(f) ==
  /\ taken[f] # NoItems
  /\ IF connected /\ mu = "free" /\ HandlesAFile(taken[f])
     THEN \E failed \in BOOLEAN :
            /\ CommitAndPush(TreeAfter(taken[f]), failed)
            /\ lastError' = failed
     ELSE UNCHANGED <<gitVars, lastError>>
  /\ taken' = [taken EXCEPT ![f] = NoItems]
  /\ UNCHANGED <<db, events, touched, batch, mu, pullVars, connected, up, editVars>>

\* The rest of flushBatch, under the mutex.  The rows are read one by one,
\* but every change touches one row: a change between two reads is one just
\* before or just after the flush.
Flush(f) ==
  /\ taken[f] # NoItems
  /\ mu = "free"
  /\ \/ /\ connected /\ HandlesAFile(taken[f])
        /\ \E failed \in BOOLEAN :
             /\ CommitAndPush(TreeAfter(taken[f]), failed)
             /\ lastError' = failed
     \/ /\ ~(connected /\ HandlesAFile(taken[f]))
        /\ UNCHANGED <<gitVars, lastError>>
  /\ taken' = [taken EXCEPT ![f] = NoItems]
  /\ UNCHANGED <<db, events, touched, batch, mu, pullVars, connected, up, editVars>>

-----------------------------------------------------------------------------
(***************************************************************************)
(* FullSync: pull, but push even if that failed; files are never removed.  *)
(***************************************************************************)
FullSyncPull ==
  /\ mu = "free" /\ up # "down" /\ connected
  /\ mu' = "fullsync"
  /\ \E failed \in BOOLEAN :
       /\ PullLatest(failed)
       /\ lastError' = (lastError \/ failed)
  /\ UNCHANGED <<db, events, touched, batch, taken, pullVars, connected, up,
                 remote, made, editVars>>

FullSyncPush ==
  /\ mu = "fullsync"
  /\ mu' = "free"
  /\ \E failed \in BOOLEAN :
       /\ CommitAndPush([e \in Entities |->
                           IF db[e] # Absent THEN db[e] ELSE local.tree[e]], failed)
       /\ lastError' = failed
  /\ UNCHANGED <<db, events, touched, batch, taken, pullVars, connected, up, editVars>>

-----------------------------------------------------------------------------
(***************************************************************************)
(* Pull and reconcileFromRepo.                                             *)
(***************************************************************************)
PullBegin ==
  /\ Pulls
  /\ mu = "free" /\ up # "down" /\ connected
  /\ mu' = "fetching"
  /\ UNCHANGED <<db, events, touched, batch, taken, pullVars, connected,
                 lastError, up, gitVars, editVars>>

PullFetch ==
  /\ mu = "fetching"
  /\ \E failed \in BOOLEAN :
       /\ PullLatest(failed)
       /\ \/ /\ failed
             /\ mu' = "free" /\ lastError' = TRUE
             /\ UNCHANGED walk
          \/ /\ ~failed
             /\ mu' = "walking" /\ UNCHANGED lastError
             /\ walk' = {e \in Entities : local'.tree[e] # Absent}
  /\ UNCHANGED <<db, events, touched, batch, taken, seen, pullErrors, connected,
                 up, remote, made, editVars>>

\* One file: look its row up ...
PullLook(e) ==
  /\ e \in walk /\ seen = NotWalking
  /\ seen' = [file |-> e, row |-> db[e] # Absent]
  /\ UNCHANGED <<db, events, touched, batch, taken, mu, walk, pullErrors,
                 connected, lastError, up, gitVars, editVars>>

\* ... then update it, which fails if the row has gone since, or create it,
\* which fails if it has appeared since.
PullApply(e) ==
  /\ seen.file = e
  /\ \/ /\ seen.row = (db[e] # Absent)
        /\ db' = [db EXCEPT ![e] = local.tree[e]]
        /\ UNCHANGED pullErrors
     \/ /\ seen.row # (db[e] # Absent)
        /\ pullErrors' = TRUE
        /\ UNCHANGED db
  /\ walk' = walk \ {e}
  /\ seen' = NotWalking
  /\ UNCHANGED <<events, touched, batch, taken, mu, connected, lastError, up,
                 gitVars, editVars>>

PullEnd ==
  /\ mu = "walking" /\ walk = {}
  /\ mu' = "free"
  /\ lastError' = pullErrors
  /\ pullErrors' = FALSE
  /\ UNCHANGED <<db, events, touched, batch, taken, walk, seen, connected, up,
                 gitVars, editVars>>

-----------------------------------------------------------------------------
(***************************************************************************)
(* Configuration, start and stop.                                          *)
(***************************************************************************)
\* Connected exactly if the clone could be brought up to date.
Connect ==
  \E failed \in BOOLEAN :
    /\ PullLatest(failed)
    /\ connected' = ~failed
    /\ lastError' = failed

\* Reinit with the same repository, after the plugin was reconfigured: the
\* status is cleared first, and Status shows it so until the clone has been
\* opened and fast-forwarded, since it does not wait for the mutex.
ReinitBegin ==
  /\ mu = "free" /\ up # "down"
  /\ mu' = "reinit"
  /\ connected' = FALSE /\ lastError' = FALSE
  /\ UNCHANGED <<db, events, touched, batch, taken, pullVars, up, gitVars,
                 editVars>>

ReinitEnd ==
  /\ mu = "reinit"
  /\ mu' = "free"
  /\ Connect
  /\ UNCHANGED <<db, events, touched, batch, taken, pullVars, up, remote, made,
                 editVars>>

\* Stop, on SIGTERM: what is queued is flushed before the process exits; the
\* HTTP server goes on serving until then.
Stop ==
  /\ MayStop /\ up = "up"
  /\ up' = "stopping"
  /\ taken' = [taken EXCEPT ![Main] = batch]
  /\ batch' = NoItems
  /\ UNCHANGED <<db, events, touched, mu, pullVars, connected, lastError,
                 gitVars, editVars>>

\* The process ends: after Stop has flushed, or by a crash at any time.  What
\* is in memory is gone.
Halt ==
  /\ \/ up = "stopping" /\ taken[Main] = NoItems
     \/ MayStop /\ up # "down"
  /\ up' = "down"
  /\ events' = NoEvents
  /\ touched' = {}
  /\ batch' = NoItems
  /\ taken' = [f \in Flushers |-> NoItems]
  /\ mu' = "free"
  /\ walk' = {} /\ seen' = NotWalking /\ pullErrors' = FALSE
  /\ UNCHANGED <<db, connected, lastError, gitVars, editVars>>

\* New: open the clone and fast-forward it; the database is left as it is.
Start ==
  /\ up = "down"
  /\ up' = "up"
  /\ Connect
  /\ UNCHANGED <<db, events, touched, batch, taken, mu, pullVars, remote, made,
                 editVars>>

-----------------------------------------------------------------------------
\* Somebody merges a change of one entity file into the branch.
ExternalCommit(e, c) ==
  /\ made < MaxCommits
  /\ c # remote.tree[e]
  /\ made' = made + 1
  /\ remote' = [hist |-> remote.hist \cup {made'},
                tree |-> [remote.tree EXCEPT ![e] = c]]
  /\ UNCHANGED <<db, events, touched, batch, taken, mu, pullVars, connected,
                 lastError, up, local, editVars>>

-----------------------------------------------------------------------------
Next ==
  \/ \E e \in Entities :
       \/ \E c \in Content : \/ WriteRow(e, c) \/ SyncRow(e, c) \/ EnrichRow(e, c)
                           \/ ExternalCommit(e, c)
       \/ DeleteRow(e)
       \/ \E a \in Action : DeliverEvent(e, a)
       \/ PullLook(e)
       \/ PullApply(e)
  \/ QueueSynced
  \/ \E f \in Flushers : TimerFires(f) \/ Flush(f)
  \/ FullSyncPull \/ FullSyncPush
  \/ PullBegin \/ PullFetch \/ PullEnd
  \/ ReinitBegin \/ ReinitEnd
  \/ Stop \/ Halt \/ Start

Spec == Init /\ [][Next]_vars

\* Goroutines that can run do, timers fire, and the mutex is not denied for
\* ever to one that waits for it (sync.Mutex hands over to a starving waiter).
\* Pulls come back on the configured interval.  A full sync or reconfiguration
\* that has started is finished; nobody has to start one.
FairSpec ==
  /\ Spec
  /\ \A e \in Entities : /\ \A a \in Action : WF_vars(DeliverEvent(e, a))
                         /\ WF_vars(PullLook(e)) /\ WF_vars(PullApply(e))
  /\ WF_vars(QueueSynced)
  /\ \A f \in Flushers : WF_vars(TimerFires(f)) /\ SF_vars(Flush(f))
  /\ WF_vars(FullSyncPush) /\ WF_vars(ReinitEnd)
  /\ SF_vars(PullBegin) /\ WF_vars(PullFetch) /\ WF_vars(PullEnd)

-----------------------------------------------------------------------------
(***************************************************************************)
(* Properties.                                                             *)
(***************************************************************************)
TypeOK ==
  /\ db \in Tree
  /\ events \in [Entities -> [Action -> Nat]]
  /\ touched \subseteq Entities
  /\ batch \in Items
  /\ taken \in [Flushers -> Items]
  /\ mu \in {"free", "fullsync", "fetching", "walking", "reinit"}
  /\ walk \subseteq Entities
  /\ seen \in [file : Entities \cup {NoFile}, row : BOOLEAN]
  /\ pullErrors \in BOOLEAN /\ connected \in BOOLEAN /\ lastError \in BOOLEAN
  /\ up \in {"up", "stopping", "down"}
  /\ local \in Head /\ remote \in Head
  /\ made \in Nat /\ edits \in Nat
  /\ enriched \subseteq Entities /\ crossed \subseteq Entities

\* No commit is ever lost, neither from the shared branch nor from the clone:
\* pushes do not force, pulls do not reset, and the retry after a push whose
\* answer was lost does not rewrite what the remote has taken (push,
\* pullLatest).
HistoriesGrow ==
  [][local.hist \subseteq local'.hist /\ remote.hist \subseteq remote'.hist]_vars

\* Once the clone and the remote have diverged, no flush, full sync, pull,
\* reconfiguration or restart brings them together again (pullLatest, push).
DivergedForGood == [][Diverged => Diverged']_vars

\* The clone does not change while a pull walks through its files: not by the
\* flushes that go on taking batches, nor by a full sync or a reconfiguration
\* asked for meanwhile (Service.mu, reconcileFromRepo).
WalkIsStable ==
  [][mu = "walking" /\ mu' = "walking" => local' = local]_vars

\* A service that is left without a connection says why: a queued flush that is
\* dropped, or any other operation, leaves the error of the failed connection
\* in the status.  Not so while Reinit is still connecting (Reinit, flushBatch).
DisconnectedIsShown ==
  up # "down" /\ mu # "reinit" /\ ~connected => lastError

\* Where nothing is pulled, a row that differs from its file is on its way
\* there: its event, its batch item or its flush is still to come, under any
\* interleaving of handlers, events, syncs and flushes (QueueChange,
\* flushBatch).  The two ways in which the code does lose a change are named:
\* the last to write it was a sync that queues nothing, or a write and a
\* deletion of it were on their way at once and have changed places.
OutOfStepMeansPending ==
  \A e \in Entities :
    db[e] # local.tree[e] =>
      WriteOnItsWay(e) \/ DeleteOnItsWay(e) \/ e \in enriched \cup crossed

\* Every change reaches the remote, as long as the network and the process
\* hold, but for changes lost in one of those two ways.
EditsReachGit ==
  \A e \in Entities :
    db[e] # remote.tree[e] ~>
      db[e] = remote.tree[e] \/ e \in enriched \cup crossed

-----------------------------------------------------------------------------

\* The guide: "changes made directly in Git (via pull requests) are pulled
\* back into Gantry".  A flush commits without pulling first: if the remote
\* has moved, the two diverge, and every later pull and push fails.
ExternalChangesArePulled ==
  \A n \in 1..MaxCommits : n \in remote.hist ~> n \in local.hist

\* The comment where the Kubernetes sync queues its writes: they are committed
\* "before the next pull can overwrite it".  Nothing makes a pull wait for the
\* batch, or for a flush that has taken it.
PullSparesQueued ==
  [][\A e \in Entities :
       PullApply(e) /\ (batch[e] = "write" \/ \E f \in Flushers : taken[f][e] = "write")
         => db'[e] = db[e]]_vars

\* The guide: a full sync is for "ensuring the repo reflects the current
\* database state".  After a push that failed the worktree is clean, and a
\* full sync reports success without pushing.
FullSyncPublishes ==
  [][FullSyncPush /\ ~lastError'
       => \A e \in Entities : db[e] # Absent => remote'.tree[e] = db[e]]_vars
=============================================================================
