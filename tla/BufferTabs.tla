----------------------------- MODULE BufferTabs -----------------------------
(***************************************************************************)
(* Buffers, panes and their tabs: the part of buffers/buffers.cpp,         *)
(* buffers/file.cpp, panes/panes_tabs.cpp and panes/panes_layout.cpp that  *)
(* keeps the indices of the buffer vector right.  Every pane holds a list  *)
(* of buffer indices (its tabs), the one it shows, and the view it had of  *)
(* the buffer it last left; closing a buffer shifts all of them.           *)
(*                                                                         *)
(* Indices start at 1 here and 0 is the code's -1.  The geometry of the    *)
(* splits is left out: the pane that gets the focus when one closes is any *)
(* of the others.  The position of a view is left out as well: `view` is   *)
(* view_buffer_id, and `viewOf`, a history variable, is where the buffer   *)
(* the view was captured from is now (0 when it has been closed).          *)
(* Everything runs on the main thread; a file that is opened is read by a  *)
(* worker and becomes a buffer when its completion lands.                  *)
(***************************************************************************)
EXTENDS Naturals, Sequences, SequencesExt, FiniteSetsExt

CONSTANTS Files,       \* the files that can be opened
          Session,     \* the files that are open to begin with
          NoFile,      \* the path of an unnamed buffer
          MaxBuffers,  \* bound on the buffers, and on the files being read
          MaxAdded,    \* bound on the buffers asked for in a behaviour
          MaxPanes,    \* bound on the panes
          MaxClosed    \* kMaxClosedBufferHistory

ASSUME NoFileAssumption == NoFile \notin Files
ASSUME SessionAssumption == Session \in Seq(Files)
ASSUME BoundsAssumption == /\ MaxBuffers \in Nat \ {0}
                           /\ MaxAdded \in Nat
                           /\ MaxPanes \in Nat \ {0}
                           /\ MaxClosed \in Nat \ {0}

VARIABLES
  buffers,  \* the buffer vector
  panes,    \* the panes
  current,  \* current_pane
  shown,    \* current_buffer
  preview,  \* preview_buffer_index
  closed,   \* closed_buffer_history
  opening,  \* the open_file() calls whose file is still being read
  added     \* history: how many buffers were asked for

vars == <<buffers, panes, current, shown, preview, closed, opening, added>>

\* The variables the operations below compute together.
Here == [buffers |-> buffers, panes |-> panes, current |-> current,
         shown |-> shown, preview |-> preview, closed |-> closed]

Become(s) ==
  /\ buffers' = s.buffers
  /\ panes' = s.panes
  /\ current' = s.current
  /\ shown' = s.shown
  /\ preview' = s.preview
  /\ closed' = s.closed

\* A buffer: its path, and its flags as far as the indices depend on them.  An
\* untouched "placeholder" and an untouched "blank" become "kept" with the first
\* edit, a "preview" with the first edit or when it is opened for good.
Kinds == {"placeholder", "blank", "preview", "kept"}

Buffer(f, kind) == [file |-> f, kind |-> kind]

\* What the editor starts with.
Placeholder == Buffer(NoFile, "placeholder")

\* A session that has opened Session's files for good, one after the other: the
\* placeholder is still in the vector, but no longer a tab.
Init ==
  LET n == Len(Session) + 1
  IN  /\ buffers = <<Placeholder>> \o
           [i \in DOMAIN Session |-> Buffer(Session[i], "kept")]
      /\ panes = <<[buffer |-> n, tabs |-> IF n = 1 THEN <<1>> ELSE [i \in 1..(n - 1) |-> i + 1],
                    view |-> n - 1, viewOf |-> n - 1]>>
      /\ current = 1
      /\ shown = n
      /\ preview = 0
      /\ closed = <<>>
      /\ opening = <<>>
      /\ added = 0

-----------------------------------------------------------------------------
(* The helpers of the panes                                                *)

WithTab(tabs, b) == IF b \in ToSet(tabs) THEN tabs ELSE Append(tabs, b)

\* The tabs that are in a set, in their order.
Keeping(tabs, S) ==
  LET kept[k \in 0..Len(tabs)] ==
        IF k = 0 THEN <<>>
        ELSE IF tabs[k] \in S THEN Append(kept[k - 1], tabs[k]) ELSE kept[k - 1]
  IN  kept[Len(tabs)]

WithoutTab(tabs, b) == Keeping(tabs, ToSet(tabs) \ {b})

\* The tabs without the untouched placeholders.
Replacing(tabs, bufs) ==
  Keeping(tabs, {t \in DOMAIN bufs : bufs[t].kind # "placeholder"})

\* capture_pane_view(): the view the pane has of the buffer it shows.
Captured(pane) == [pane EXCEPT !.view = pane.buffer, !.viewOf = pane.buffer]

\* restore_pane_view(): a view of another index is replaced by the buffer's.
Restored(pane) == IF pane.view = pane.buffer THEN pane ELSE Captured(pane)

\* The pane shows buffer b: captured, pointed at it, restored.
Showing(pane, b) == Restored([Captured(pane) EXCEPT !.buffer = b])

\* activate_pane()
Activated(s, p) ==
  IF p = s.current
  THEN [s EXCEPT !.shown = s.panes[p].buffer]
  ELSE [s EXCEPT !.panes = [s.panes EXCEPT ![s.current] = Captured(@),
                                           ![p] = Restored(@)],
                 !.current = p,
                 !.shown = s.panes[p].buffer]

\* close_pane(): what is left when the focused pane goes and another gets the
\* focus; the last pane stays.
PaneClosings(s) ==
  IF Len(s.panes) = 1 THEN {s}
  ELSE LET rest == RemoveAt(s.panes, s.current)
       IN  {[s EXCEPT !.panes = [rest EXCEPT ![n] = Restored(@)],
                      !.current = n,
                      !.shown = rest[n].buffer] : n \in DOMAIN rest}

\* Every new pane inherits the tabs of the one it was cut from.
SplitOffInherits(s, target, b, tabs) ==
  LET new == Captured([buffer |-> b, tabs |-> WithTab(s.panes[target].tabs, b),
                       view |-> 0, viewOf |-> 0])
  IN  [s EXCEPT !.panes = Append(s.panes, new), !.current = Len(s.panes) + 1, !.shown = b]

\* split_pane_at(): a new pane with these tabs, which gets the focus.
SplitOff(s, target, b, tabs) ==
  LET left == IF target = s.current
              THEN [s.panes EXCEPT ![s.current] = Captured(@)]
              ELSE s.panes
      new == Restored([buffer |-> b, tabs |-> WithTab(tabs, b), view |-> 0, viewOf |-> 0])
  IN  [s EXCEPT !.panes = Append(left, new), !.current = Len(left) + 1, !.shown = b]

-----------------------------------------------------------------------------
(* close_buffer_at()                                                       *)

Remembered(s, i) ==
  LET b == s.buffers[i]
      kept == IF Len(s.closed) >= MaxClosed THEN Tail(s.closed) ELSE s.closed
  IN  IF b.file # NoFile \/ b.kind = "kept" THEN Append(kept, b.file) ELSE kept

\* Where buffer b is once buffer i is closed.
Shifted(b, i) == IF b = i THEN 0 ELSE IF b > i THEN b - 1 ELSE b

\* The last buffer is emptied instead; it is the same entry of the vector, but
\* another buffer to whoever looks at it.
Emptied(s, i) ==
  [s EXCEPT !.closed = Remembered(s, i),
            !.buffers = <<Placeholder>>,
            !.shown = 1,
            !.preview = 0,
            !.panes = [p \in DOMAIN s.panes |->
                        [s.panes[p] EXCEPT !.buffer = 1, !.tabs = <<1>>, !.viewOf = 0]]]

\* current_buffer is left where it was.
FocusAfterStays(shownBefore, i, rest) ==
  IF shownBefore > Len(rest) THEN Len(rest) ELSE shownBefore

FocusAfter(shownBefore, i, rest) ==
  IF shownBefore > i THEN shownBefore - 1
  ELSE IF shownBefore > Len(rest) THEN Len(rest) ELSE shownBefore

\* First every higher number moves down, then the number that was closed goes.
TabsAfter(tabs, i) ==
  WithoutTab([k \in DOMAIN tabs |-> IF tabs[k] > i THEN tabs[k] - 1 ELSE tabs[k]], i)

\* The preview's number is not moved down.
PreviewAfterStays(p, i, rest) == IF p = i THEN 0 ELSE p

PreviewAfter(p, i, rest) ==
  LET q == IF p = i THEN 0 ELSE IF p > i THEN p - 1 ELSE p
  IN  IF q = 0 \/ rest[q].kind # "preview" THEN 0 ELSE q

Removed(s, i) ==
  LET rest == RemoveAt(s.buffers, i)
      focus == FocusAfter(s.shown, i, rest)
      pane(p) ==
        LET tabs == TabsAfter(p.tabs, i)
            b == IF p.buffer = i THEN (IF tabs # <<>> THEN Head(tabs) ELSE focus)
                 ELSE IF p.buffer > i THEN p.buffer - 1 ELSE p.buffer
        IN  [p EXCEPT !.buffer = b, !.tabs = WithTab(tabs, b), !.viewOf = Shifted(@, i)]
      focused(p) == [Showing(pane(p), focus) EXCEPT !.tabs = WithTab(@, focus)]
  IN  [s EXCEPT !.closed = Remembered(s, i),
                !.buffers = rest,
                !.shown = focus,
                !.preview = PreviewAfter(@, i, rest),
                !.panes = [p \in DOMAIN s.panes |->
                            IF p = s.current THEN focused(s.panes[p]) ELSE pane(s.panes[p])]]

Closed(s, i) == IF Len(s.buffers) = 1 THEN Emptied(s, i) ELSE Removed(s, i)

Close(i) ==
  /\ Become(Closed(Here, i))
  /\ UNCHANGED <<opening, added>>

-----------------------------------------------------------------------------
(* New buffers                                                             *)

\* Bounds the buffers, open or on their way, and those of a behaviour.
Room(s) == Len(s.buffers) + Len(opening) < MaxBuffers /\ added < MaxAdded

\* A buffer at the end of the vector, shown by the focused pane.  Whoever adds
\* it captures the view the pane had; only reopening also restores one.
Added(s, b, replace, restore) ==
  LET bufs == Append(s.buffers, b)
      n == Len(bufs)
      old == s.panes[s.current]
      new == IF restore THEN Showing(old, n)
             ELSE [Captured(old) EXCEPT !.buffer = n]
      tabs == IF replace THEN Replacing(old.tabs, bufs) ELSE old.tabs
  IN  [s EXCEPT !.buffers = bufs,
                !.panes[s.current] = [new EXCEPT !.tabs = WithTab(tabs, n)],
                !.shown = n]

\* create_new_buffer()
NewBuffer ==
  /\ Room(Here)
  /\ added' = added + 1
  /\ Become(Added(Here, Buffer(NoFile, "blank"), TRUE, FALSE))
  /\ UNCHANGED opening

\* reopen_last_closed_buffer()
Reopen ==
  /\ closed # <<>>
  /\ Room(Here)
  /\ added' = added + 1
  /\ Become(Added([Here EXCEPT !.closed = SubSeq(@, 1, Len(@) - 1), !.preview = 0],
                  Buffer(Last(closed), "kept"), FALSE, TRUE))
  /\ UNCHANGED opening

OpenIndex(bufs, f) ==
  LET same == {i \in DOMAIN bufs : bufs[i].file = f}
  IN  IF same = {} THEN 0 ELSE Min(same)

\* A preview of another file makes room for this one, unless it was edited.
PreviewReplaced(s, f) ==
  IF s.preview # 0 /\ s.preview # OpenIndex(s.buffers, f)
       /\ s.buffers[s.preview].kind = "preview"
  THEN Closed(s, s.preview)
  ELSE s

\* A file that has a buffer is shown; opening it for good ends its preview.
Revisited(s, i, asPreview) ==
  LET pane == Showing(s.panes[s.current], i)
      isPreview == s.buffers[i].kind = "preview"
      pins == isPreview /\ ~asPreview
  IN  [s EXCEPT !.shown = i,
                !.panes[s.current] = [pane EXCEPT !.tabs = WithTab(Replacing(@, s.buffers), i)],
                !.buffers[i].kind = IF pins THEN "kept" ELSE @,
                !.preview = IF pins /\ @ = i THEN 0
                            ELSE IF isPreview /\ asPreview THEN i ELSE @]

\* open_file(): the file is read in the background if no buffer has it.
OpenFile(f, asPreview) ==
  LET s == IF asPreview THEN PreviewReplaced(Here, f) ELSE Here
      i == OpenIndex(s.buffers, f)
  IN  IF i # 0
      THEN Become(Revisited(s, i, asPreview)) /\ UNCHANGED <<opening, added>>
      ELSE /\ Room(s)
           /\ Become(s)
           /\ opening' = Append(opening, [file |-> f, preview |-> asPreview])
           /\ added' = added + 1

\* finish_open_file(), as the completion of any of the reads.
FinishOpen(k) ==
  /\ LET o == opening[k]
         fb == Buffer(o.file, IF o.preview THEN "preview" ELSE "kept")
         s == Added(Here, fb, TRUE, FALSE)
     IN  Become([s EXCEPT !.preview = IF o.preview THEN s.shown ELSE @])
  /\ opening' = RemoveAt(opening, k)
  /\ UNCHANGED added

\* The first edit of the buffer in front: save_state() ends its preview.
Edit ==
  /\ buffers[shown].kind # "kept"
  /\ buffers' = [buffers EXCEPT ![shown].kind = "kept"]
  /\ preview' = IF preview = shown THEN 0 ELSE preview
  /\ UNCHANGED <<panes, current, shown, closed, opening, added>>

-----------------------------------------------------------------------------
(* Panes and tabs                                                          *)

\* A click into a pane.
ActivatePane(p) ==
  /\ Become(Activated(Here, p))
  /\ UNCHANGED <<opening, added>>

\* switch_pane_to_local_tab()
SwitchTab(p, k) ==
  LET s == Activated(Here, p)
      b == s.panes[p].tabs[k]
  IN  /\ Become([s EXCEPT !.panes[p] = Showing(@, b), !.shown = b])
      /\ UNCHANGED <<opening, added>>

\* show_buffer_in_current_pane(), from the workspace strip, which leaves out the
\* untouched placeholders.
ShowBuffer(b) ==
  /\ buffers[b].kind # "placeholder"
  /\ Become([Here EXCEPT !.panes[current] =
               [Showing(panes[current], b) EXCEPT !.tabs = WithTab(@, b)],
             !.shown = b])
  /\ UNCHANGED <<opening, added>>

\* split_pane_direction(): the new pane inherits the tabs.
Split ==
  /\ Len(panes) < MaxPanes
  /\ LET p == panes[current] IN Become(SplitOff(Here, current, p.buffer, p.tabs))
  /\ UNCHANGED <<opening, added>>

ClosePane ==
  /\ \E s \in PaneClosings(Here) : Become(s)
  /\ UNCHANGED <<opening, added>>

\* detach_pane_tab(): a pane that loses its active tab falls back to the one
\* that slid into its place.
Detached(s, p, b) ==
  LET pane == s.panes[p]
      k == CHOOSE i \in DOMAIN pane.tabs : pane.tabs[i] = b
      tabs == RemoveAt(pane.tabs, k)
      next == tabs[IF k <= Len(tabs) THEN k ELSE Len(tabs)]
  IN  IF tabs = <<>> THEN [s EXCEPT !.panes[p].tabs = tabs]
      ELSE IF pane.buffer # b THEN [s EXCEPT !.panes[p].tabs = tabs]
      ELSE IF p # s.current
           THEN [s EXCEPT !.panes[p] = [pane EXCEPT !.tabs = tabs, !.buffer = next]]
           ELSE [s EXCEPT !.panes[p] = Restored([pane EXCEPT !.tabs = tabs, !.buffer = next]),
                          !.shown = next]

\* The states after buffer b left pane src, and where pane dst is then: an empty
\* group is focused and closed, which moves the panes to its right.
TakenOut(b, src, dst) ==
  LET s == Detached(Here, src, b)
  IN  IF s.panes[src].tabs # <<>> THEN {<<s, dst>>}
      ELSE {<<t, IF src < dst THEN dst - 1 ELSE dst>> : t \in PaneClosings(Activated(s, src))}

\* move_buffer_to_pane(): to a slot of the same strip, or of another pane's.
MoveTab(b, src, dst, slot) ==
  /\ IF src = dst
     THEN LET rest == WithoutTab(panes[src].tabs, b)
              at == IF slot <= Len(rest) THEN slot ELSE Len(rest) + 1
          IN  Become([Here EXCEPT !.panes[src].tabs = InsertAt(rest, at, b)])
     ELSE \E out \in TakenOut(b, src, dst) :
            LET s == out[1]
                p == out[2]
                rest == WithoutTab(s.panes[p].tabs, b)
                at == IF slot <= Len(rest) THEN slot ELSE Len(rest) + 1
            IN  Become(Activated([s EXCEPT !.panes[p] = [@ EXCEPT !.tabs = InsertAt(rest, at, b),
                                                                  !.buffer = b]], p))
  /\ UNCHANGED <<opening, added>>

\* split_pane_with_buffer(): a tab dropped on the edge of a pane.
DropOnEdge(b, src, dst) ==
  /\ IF src = dst /\ Len(panes[src].tabs) = 1
     THEN /\ Len(panes) < MaxPanes
          /\ Become(SplitOff(Here, dst, b, panes[dst].tabs))
     ELSE \E out \in TakenOut(b, src, dst) :
            /\ Len(out[1].panes) < MaxPanes
            /\ Become(SplitOff(out[1], out[2], b, <<>>))
  /\ UNCHANGED <<opening, added>>

-----------------------------------------------------------------------------
FromTab ==
  \E src \in DOMAIN panes : \E b \in ToSet(panes[src].tabs) : \E dst \in DOMAIN panes :
    \/ DropOnEdge(b, src, dst)
    \/ \E slot \in {1, Len(panes[dst].tabs) + 1} : MoveTab(b, src, dst, slot)

Landing == \E k \in DOMAIN opening : FinishOpen(k)

Next ==
  \/ \E i \in DOMAIN buffers : Close(i) \/ ShowBuffer(i)
  \/ NewBuffer \/ Reopen \/ Edit \/ Split \/ ClosePane
  \/ \E f \in Files, asPreview \in BOOLEAN : OpenFile(f, asPreview)
  \/ Landing
  \/ \E p \in DOMAIN panes : ActivatePane(p) \/ \E k \in DOMAIN panes[p].tabs : SwitchTab(p, k)
  \/ FromTab

\* The workers finish what they read.
Spec == Init /\ [][Next]_vars /\ WF_vars(Landing)

-----------------------------------------------------------------------------
TypeOK ==
  /\ Len(buffers) \in 1..MaxBuffers
  /\ \A i \in DOMAIN buffers : buffers[i] \in [file : Files \cup {NoFile}, kind : Kinds]
  /\ Len(panes) \in 1..MaxPanes
  /\ \A p \in DOMAIN panes : /\ ToSet(panes[p].tabs) \subseteq DOMAIN buffers
                             /\ panes[p].buffer \in DOMAIN buffers
                             /\ panes[p].viewOf \in DOMAIN buffers \cup {0}
  /\ current \in DOMAIN panes
  /\ shown \in DOMAIN buffers
  /\ preview \in DOMAIN buffers \cup {0}
  /\ Len(closed) <= MaxClosed
  /\ Len(opening) <= MaxBuffers
  /\ added \in 0..MaxAdded

\* "Every move keeps the one-buffer-per-pane invariant": the buffer a pane shows
\* is one of its tabs, no buffer has two tabs in a pane, and the editor's own
\* idea of the buffer in front is the focused pane's.  The preview the next one
\* replaces is a preview, whatever was closed in between: never a buffer the user
\* has edited or opened for good.
PanesAgree ==
  /\ \A p \in DOMAIN panes : /\ panes[p].buffer \in ToSet(panes[p].tabs)
                             /\ IsInjective(panes[p].tabs)
  /\ shown = panes[current].buffer
  /\ preview # 0 => preview \in DOMAIN buffers /\ buffers[preview].kind = "preview"

\* Closing a buffer leaves every pane that shows another one on that one, in
\* spite of the shift of the indices.
CloseKeepsWhatPanesShow ==
  [][\A i \in DOMAIN buffers :
       Len(buffers') < Len(buffers) /\ Close(i) => \A p \in DOMAIN panes :
                     panes[p].buffer # i =>
                       panes'[p].buffer = Shifted(panes[p].buffer, i)]_vars

\* Dragging a tab, on a strip or against an edge, moves that tab only: every
\* other buffer keeps a tab in as many panes as before, whichever group closed
\* and whichever was split off, and the dragged one still has a tab.
DragMovesOneTab ==
  [][UNCHANGED <<buffers, closed, opening>> /\ FromTab =>
       \E b \in DOMAIN buffers :
         /\ \E p \in DOMAIN panes' : b \in ToSet(panes'[p].tabs)
         /\ \A c \in DOMAIN buffers \ {b} :
              Cardinality({p \in DOMAIN panes' : c \in ToSet(panes'[p].tabs)})
                = Cardinality({p \in DOMAIN panes : c \in ToSet(panes[p].tabs)})]_vars

-----------------------------------------------------------------------------
(* What comments and docs say and the code does not do                     *)

\* "Each pane gets its own list, with ... a close control on every tab"
\* (FEATURES.md): closing a buffer takes its tab out of every pane, and no other.
CloseKeepsOtherTabs ==
  [][\A i \in DOMAIN buffers :
       Len(buffers') < Len(buffers) /\ Close(i) => \A p \in DOMAIN panes :
                     {Shifted(t, i) : t \in ToSet(panes[p].tabs) \ {i}}
                       \subseteq ToSet(panes'[p].tabs)]_vars

\* "view_buffer_id is the buffer the stored view belongs to" (SplitPane): the
\* view a pane keeps is of the buffer at the index it keeps with it, as long as
\* that buffer is open.
ViewBelongsToItsBuffer ==
  \A p \in DOMAIN panes :
    panes[p].view # 0 => panes[p].viewOf \in {panes[p].view, 0}
=============================================================================
