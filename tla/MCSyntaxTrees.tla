--------------------------- MODULE MCSyntaxTrees ---------------------------
(* SyntaxTrees on a long and a short file of two languages. *)
EXTENDS SyntaxTrees, TLC

CONSTANTS long, short
MCLang == long :> "cpp" @@ short :> "lua" @@ Scratch :> None
=============================================================================
