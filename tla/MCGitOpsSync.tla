---------------------------- MODULE MCGitOpsSync ----------------------------
(***************************************************************************)
(* Instances of GitOpsSync for TLC.                                        *)
(***************************************************************************)
EXTENDS GitOpsSync, TLC

CONSTANTS e1, e2, v1, v2

\* Entities are interchangeable.
Interchangeable == Permutations({e1, e2})
=============================================================================
