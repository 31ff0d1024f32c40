---------------------------- MODULE MCGitStatus ----------------------------
(* GitStatus on two folders with three statuses. *)
EXTENDS GitStatus
=============================================================================
