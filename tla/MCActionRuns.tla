---------------------------- MODULE MCActionRuns ----------------------------
(***************************************************************************)
(* Instances of ActionRuns for TLC: runs of github-action actions that     *)
(* dispatch the same workflow on the same branch, and mixed action types.  *)
(***************************************************************************)
EXTENDS ActionRuns, TLC

CONSTANTS r1, r2, r3, w1, w2

TwoGitHub  == [r \in {r1, r2} |-> "github-action"]
OneOfEach  == (r1 :> "github-action") @@ (r2 :> "webhook") @@ (r3 :> "other")
SameBranch == [r \in Runs |-> "main"]
Outcomes   == {"success", "failed"}

\* Runs of one type and one branch are interchangeable, and so are the ids
\* GitHub gives its workflow runs.
Interchangeable == Permutations({r1, r2}) \cup Permutations({w1, w2})
=============================================================================
