-------------------------- MODULE MCWorkspaceScans --------------------------
(* WorkspaceScans on two folders, one of them where the editor started. *)
EXTENDS WorkspaceScans

\* The state, and of an editor that shuts down only what its scans still do: the
\* properties that go on to the end of time ask nothing of it any more.
WhileAlive ==
  IF alive THEN vars
  ELSE <<workspace, disk, alive, formatting,
         [jobs |-> defs.jobs, running |-> defs.running, shown |-> defs.shown],
         [jobs |-> web.jobs, running |-> web.running]>>
=============================================================================
