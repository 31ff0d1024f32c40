------------------------------ MODULE MCLspSync ------------------------------
(* LspSync on one file and its primary server, or with an extra server. *)
EXTENDS LspSync
=============================================================================
