----------------------------- MODULE MCUndoTree -----------------------------
(* The contents of a region: the cleanup of a save and the formatter do not *)
(* agree, so what the one writes the other rewrites.                        *)
EXTENDS UndoTree

CleanContent(c) == IF c = "a_" THEN "a" ELSE c

FormattedContent(c) == IF c = "a" THEN "a_" ELSE c

\* The state without the modified flag and its copies in the snapshots: nothing
\* else depends on them, and no property of the run says more of them than their type.
Blind(s) == IF s = <<>> THEN s ELSE <<[s[1] EXCEPT !.modified = FALSE]>>

WithoutFlags ==
  <<text, cursor, touched, writes, disk, jobs, walked, crossed, Blind(pending),
    tree.current, tree.last,
    [i \in DOMAIN tree.nodes |-> [tree.nodes[i] EXCEPT !.state = Blind(@)]]>>
=============================================================================
