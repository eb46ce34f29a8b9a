---------------------------- MODULE RunLifecycle ----------------------------
(***************************************************************************)
(* What an action run promises to whoever reads the action_runs table: the *)
(* life of one row as the run history page, the REST API and the CLI see   *)
(* it.  A row appears as "pending", may be "running" for a while, and ends *)
(* in "success" or "failed"; an ended row never changes again.             *)
(***************************************************************************)
CONSTANT Runs

VARIABLE status

Live  == {"pending", "running"}
Ended == {"success", "failed"}

Init == status = [r \in Runs |-> "absent"]

Submit(r) ==
  /\ status[r] = "absent"
  /\ status' = [status EXCEPT ![r] = "pending"]

Start(r) ==
  /\ status[r] = "pending"
  /\ status' = [status EXCEPT ![r] = "running"]

\* A row may end without ever having been seen running: the update that
\* records "running" is allowed to fail.
End(r) ==
  /\ status[r] \in Live
  /\ \E s \in Ended : status' = [status EXCEPT ![r] = s]

Next == \E r \in Runs : Submit(r) \/ Start(r) \/ End(r)

Spec == Init /\ [][Next]_status

=============================================================================
