---------------------------- MODULE MCBufferTabs ----------------------------
(* No step reads a stored view to decide anything but what view to store, so *)
(* states that differ only in the stored views need not be told apart.       *)
EXTENDS BufferTabs

CONSTANTS f1, f2, f3

Opened == <<f1, f2>>

WithoutViews ==
  <<buffers, [p \in DOMAIN panes |-> <<panes[p].buffer, panes[p].tabs>>],
    current, shown, preview, closed, opening, added>>
=============================================================================
