---------------------------- MODULE MCTaskQueue ----------------------------
(* TaskQueue with two workers, two jobs with a completion and one without. *)
EXTENDS TaskQueue
=============================================================================
