------------------------------ MODULE MCPicker ------------------------------
(* Picker on a workspace and a folder in it. *)
EXTENDS Picker, TLC

CONSTANTS top, sub
MCParent == top :> top @@ sub :> top
=============================================================================
