------------------------------ MODULE UndoTree ------------------------------
(***************************************************************************)
(* The undo history of one buffer (buffers/undo.cpp, UndoNode and State in *)
(* core/buffer.h): a tree of states, the snapshot save_state() takes       *)
(* before a command and turns into a node only later (undo_reconcile), the *)
(* walks of undo, redo and goto, the trimming to the caps, and the stamps  *)
(* a save leaves on it: one when it writes the file, and one more when the *)
(* formatter it hands the file to, in the background, is done.             *)
(*                                                                         *)
(* A text is a function from the regions of the file to their content.  A  *)
(* snapshot of a file of at most kMaxFullSnapshotLines lines holds every   *)
(* region; a snapshot of a longer one holds only the window around the     *)
(* caret.  The number of lines does not change.  The byte account of the   *)
(* history is abstracted to whether it is over its budget, which may be    *)
(* the case whenever it is consulted if ByteBudget is set.                 *)
(*                                                                         *)
(* A command is one step: it runs on the main thread.  The formatters run  *)
(* in workers.  The history is gone with its buffer, so the buffer stays   *)
(* open; nobody but the editor and its formatters writes the file.         *)
(***************************************************************************)
EXTENDS Naturals, Sequences, SequencesExt

CONSTANTS Regions,     \* the parts of the file a window can cover
          Contents,    \* what a region can hold
          Clean(_),    \* what the cleanup of a save makes of a content
          Format(_),   \* what the formatter makes of a content
          Windowed,    \* the file is longer than kMaxFullSnapshotLines
          ByteBudget,  \* the byte budget can be exceeded
          Cap,         \* kMaxUndoHistory
          Least,       \* kMinUndoStates
          MaxSeq,      \* bound on the states created
          MaxWrites,   \* bound on the stamps
          MaxJobs      \* bound on the formatters under way

ASSUME RegionsAssumption == Regions # {}
ASSUME CleanAssumption == \A c \in Contents : Clean(c) \in Contents
ASSUME FormatAssumption == \A c \in Contents : Format(c) \in Contents
ASSUME FlagAssumption == Windowed \in BOOLEAN /\ ByteBudget \in BOOLEAN
ASSUME CapAssumption == Cap \in Nat /\ Least \in Nat /\ 0 < Least /\ Least < Cap
ASSUME BoundAssumption == MaxSeq \in Nat /\ MaxWrites \in Nat /\ MaxJobs \in Nat

VARIABLES
  text,      \* the lines of the buffer
  cursor,    \* the region the caret is in
  modified,  \* FileBuffer::modified
  tree,      \* undo_nodes, undo_current (0: none) and undo_seq_last
  pending,   \* undo_pending: a sequence that holds it, if it is valid
  touched,   \* edit_generation differs from undo_pending_generation
  writes,    \* undo_writes
  disk,      \* the file
  jobs,      \* the formatters under way on the file
  walked,    \* history: the last step restored a state
  crossed    \* history: since the last save that met no formatter under way, one
             \* met one, or one failed and the buffer was not what the file holds

vars == <<text, cursor, modified, tree, pending, touched, writes, disk, jobs, walked, crossed>>

Texts == [Regions -> Contents]

\* A State: the regions it holds, and the caret and the flag to restore.  For
\* the properties it also carries the whole text it was taken from.
Capture(t, c, m) ==
  [part |-> [r \in IF Windowed THEN {c} ELSE Regions |-> t[r]],
   cursor |-> c, modified |-> m, from |-> t]

States == {Capture(t, c, m) : t \in Texts, c \in Regions, m \in BOOLEAN}

\* apply_state() on the text: what the state holds replaces what is there.
Applied(t, s) == [r \in Regions |-> IF r \in DOMAIN s.part THEN s.part[r] ELSE t[r]]

SameContent(t, s) == Applied(t, s) = t

\* A node; its state is a sequence that is empty while !state_known.  For the
\* properties, `held` is the whole text of the buffer when the node was created.
Node(parent, seq, state, held) ==
  [parent |-> parent, seq |-> seq, saved |-> 0, state |-> state, held |-> held]

Known(n) == n.state # <<>>

\* A formatter: how far it is, and a sequence that holds the text it read last,
\* empty if it read none or failed.
Job(stage, read) == [stage |-> stage, text |-> read]

Init ==
  /\ text \in Texts
  /\ cursor \in Regions
  /\ modified = FALSE
  /\ tree = [nodes |-> <<>>, current |-> 0, last |-> 0]
  /\ pending = <<>>
  /\ touched = FALSE
  /\ writes = 0
  /\ disk = text
  /\ jobs = <<>>
  /\ walked = FALSE
  /\ crossed = FALSE

-----------------------------------------------------------------------------
(* The shape of the tree                                                   *)

\* From a node to its root, the node first.
Chain(nodes, n) ==
  LET chain[i \in 0..Len(nodes)] ==
        IF i = 0 THEN <<>> ELSE <<i>> \o chain[nodes[i].parent]
  IN  chain[n]

OnPath(nodes, n, ancestor) == ancestor \in ToSet(Chain(nodes, n))

\* The elements of a sequence that are in a set, in their order.
Keeping(s, S) ==
  LET kept[i \in 0..Len(s)] ==
        IF i = 0 THEN <<>>
        ELSE IF s[i] \in S THEN Append(kept[i - 1], s[i]) ELSE kept[i - 1]
  IN  kept[Len(s)]

\* What drop_nodes() keeps of the nodes, and remap: where it puts them.
Kept(nodes, D) == Keeping([i \in DOMAIN nodes |-> i], DOMAIN nodes \ D)

Remap(kept, i) ==
  IF \E k \in DOMAIN kept : kept[k] = i
  THEN CHOOSE k \in DOMAIN kept : kept[k] = i ELSE 0

\* The dropped nodes' successors keep the parent numbers they had.
DropKeepsParents(tr, D) ==
  LET kept == Kept(tr.nodes, D)
  IN  [tr EXCEPT !.nodes = [k \in DOMAIN kept |-> tr.nodes[kept[k]]],
                 !.current = Remap(kept, @)]

\* The node in front keeps the index it had.
DropKeepsFront(tr, D) ==
  LET kept == Kept(tr.nodes, D)
  IN  [tr EXCEPT !.nodes = [k \in DOMAIN kept |->
                             [tr.nodes[kept[k]] EXCEPT !.parent = Remap(kept, @)]]]

\* drop_nodes(): the rest closes up, and a node whose parent went is a root.
Drop(tr, D) ==
  LET kept == Kept(tr.nodes, D)
  IN  [tr EXCEPT !.nodes = [k \in DOMAIN kept |->
                             [tr.nodes[kept[k]] EXCEPT !.parent = Remap(kept, @)]],
                 !.current = Remap(kept, @)]

Oldest(nodes, S) == CHOOSE i \in S : \A j \in S : nodes[i].seq <= nodes[j].seq

\* What one turn of trim_undo_tree()'s loop drops: the oldest branch the node
\* in front did not grow from, or else the oldest state behind it.
Victims(tr) ==
  LET off == {i \in DOMAIN tr.nodes : ~OnPath(tr.nodes, tr.current, i)}
  IN  IF off # {}
      THEN LET v == Oldest(tr.nodes, off)
           IN  {i \in DOMAIN tr.nodes : OnPath(tr.nodes, i, v)}
      ELSE {Oldest(tr.nodes, DOMAIN tr.nodes)} \ {tr.current}

\* The loop has something to drop as long as the tree is larger than Least; it
\* goes on while the tree is over Cap, or as long as the bytes stay over their
\* budget.
Droppable(tr) == Len(tr.nodes) > Least /\ Victims(tr) # {}

Trimmed(tr) ==
  IF (Len(tr.nodes) > Cap \/ ByteBudget) /\ Droppable(tr) THEN Drop(tr, Victims(tr)) ELSE tr

\* The trees trim_undo_tree() can leave.
Trims(tr) ==
  LET after[k \in 0..Len(tr.nodes)] == IF k = 0 THEN tr ELSE Trimmed(after[k - 1])
  IN  {t \in {after[k] : k \in DOMAIN after} : Len(t.nodes) <= Cap \/ ~Droppable(t)}

-----------------------------------------------------------------------------
(* undo_reconcile()                                                        *)

\* The tree with the pending snapshot rooted, or given to the node in front if
\* its content was not captured yet.
Settled(tr, p) ==
  IF tr.current = 0
  THEN [nodes |-> <<Node(0, tr.last + 1, <<p>>, p.from)>>,
        current |-> 1, last |-> tr.last + 1]
  ELSE IF Known(tr.nodes[tr.current]) THEN tr
       ELSE [tr EXCEPT !.nodes[tr.current].state = <<p>>]

\* The trees undo_reconcile() can leave, given the buffer's text and whether
\* its edit generation moved.  The new node in front holds the live buffer.
Reconciled(tr, p, t, moved) ==
  IF p = <<>> \/ (~moved /\ SameContent(t, p[1]))
  THEN {tr}
  ELSE LET s == Settled(tr, p[1])
       IN  Trims([nodes |-> Append(s.nodes, Node(s.current, s.last + 1, <<>>, t)),
                  current |-> Len(s.nodes) + 1, last |-> s.last + 1])

\* Bound: a step that would create more states is not taken.
InBound == tree'.last <= MaxSeq

-----------------------------------------------------------------------------
(* Commands: save_state() or save_state_for(), then the edit               *)

\* The caret is moved without touching the text, within its region or out of it.
Move ==
  /\ cursor' \in Regions
  /\ walked' = FALSE
  /\ UNCHANGED <<text, modified, tree, pending, touched, writes, disk, jobs, crossed>>

\* A command on the region the caret is in, or on the whole file.  One that
\* ends where it started returns early; one that changes the text may replace
\* the lines without going through mark_edited().
Edited ==
  {[text EXCEPT ![cursor] = c] : c \in Contents}
    \cup {[r \in Regions |-> c] : c \in Contents}

Command ==
  /\ tree' \in Reconciled(tree, pending, text, TRUE)
  /\ InBound
  /\ pending' = <<Capture(text, cursor, modified)>>
  /\ text' \in Edited
  /\ touched' \in {FALSE, text' # text}
  /\ modified' = (modified \/ text' # text)
  /\ walked' = FALSE
  /\ UNCHANGED <<cursor, writes, disk, jobs, crossed>>

-----------------------------------------------------------------------------
(* Saves: the part of save_buffer_at() that concerns the history           *)

Cleaned == [r \in Regions |-> Clean(text[r])]

\* The buffer stamps the state in front as it is, pending snapshot or not.
MarkedUnreconciled(tr, p, t, moved) ==
  {IF tr.current = 0 THEN tr ELSE [tr EXCEPT !.nodes[tr.current].saved = writes + 1]}

\* undo_mark_saved(): the trees it can leave.
Marked(tr, p, t, moved) ==
  {IF n.current = 0 THEN n ELSE [n EXCEPT !.nodes[n.current].saved = writes + 1] :
     n \in Reconciled(tr, p, t, moved)}

\* The snapshot is taken from the lines that are swapped in.
BeforeSwapLate(t) == <<Capture(t, cursor, TRUE)>>

\* save_state_for(buf, as_modified = true), before t is swapped in.
BeforeSwap(t) == <<Capture(text, cursor, TRUE)>>

\* The cleanup and the formatter's result are edits like any other, with their
\* own snapshot, if they change the text: the trees and the snapshot they leave.
Swapped(t) == IF t # text THEN Reconciled(tree, pending, text, TRUE) ELSE {tree}

Snapshot(t) == IF t # text THEN BeforeSwap(t) ELSE pending

\* The buffer holds t, and undo_mark_saved() stamps it.
MarkSaved(t) ==
  /\ tree' \in UNION {Marked(tr, Snapshot(t), t, touched \/ t # text) : tr \in Swapped(t)}
  /\ text' = t
  /\ pending' = <<>>
  /\ touched' = FALSE
  /\ modified' = FALSE
  /\ writes' = writes + 1

\* A save whose write succeeds may hand the file to a formatter, if its type, the
\* settings and the machine have one.  A write that fails leaves the cleanup in the
\* buffer and ends the save.
Save ==
  /\ writes < MaxWrites
  /\ \/ \* write_file_atomic() succeeds
        /\ MarkSaved(Cleaned)
        /\ disk' = Cleaned
        /\ \/ jobs' = jobs
           \/ Len(jobs) < MaxJobs /\ jobs' = Append(jobs, Job("queued", <<>>))
        /\ crossed' = (jobs # <<>>)
     \/ \* it fails
        /\ tree' \in Swapped(Cleaned)
        /\ text' = Cleaned
        /\ pending' = Snapshot(Cleaned)
        /\ touched' = (touched \/ Cleaned # text)
        /\ UNCHANGED <<modified, writes, disk, jobs, crossed>>
  /\ InBound
  /\ walked' = FALSE
  /\ UNCHANGED cursor

-----------------------------------------------------------------------------
(* Formatters: the job of a save, and its completion                       *)

\* The job goes on; the history and the buffer are the main thread's.
Works(k, job) ==
  /\ jobs' = [jobs EXCEPT ![k] = job]
  /\ walked' = FALSE
  /\ UNCHANGED <<text, cursor, modified, tree, pending, touched, writes, crossed>>

\* The formatter reads the file.
Reads(k) ==
  /\ jobs[k].stage = "queued"
  /\ Works(k, Job("busy", <<disk>>))
  /\ UNCHANGED disk

\* It replaces the file by what it makes of what it read.
Formats(k) ==
  /\ jobs[k].stage = "busy"
  /\ Works(k, [jobs[k] EXCEPT !.stage = "rewritten"])
  /\ disk' = [r \in Regions |-> Format(jobs[k].text[1][r])]

\* Or it does not start, or rejects the text, and what it read does not matter:
\* an empty result.
FormatFails(k) ==
  /\ jobs[k].stage = "queued"
  /\ Works(k, Job("done", <<>>))
  /\ UNCHANGED disk

\* After a success the worker reads the file again, whoever wrote it last.
ReadsAgain(k) ==
  /\ jobs[k].stage = "rewritten"
  /\ Works(k, Job("done", <<disk>>))
  /\ UNCHANGED disk

\* The completion: what was read back takes the place of what the buffer holds by
\* now, and that is stamped; after a failure what it holds is stamped as it is.
LandFormat(k) ==
  /\ writes < MaxWrites
  /\ jobs[k].stage = "done"
  /\ MarkSaved(IF jobs[k].text = <<>> THEN text ELSE jobs[k].text[1])
  /\ InBound
  /\ jobs' = RemoveAt(jobs, k)
  /\ crossed' = (crossed \/ (jobs[k].text = <<>> /\ text # disk))
  /\ walked' = FALSE
  /\ UNCHANGED <<cursor, disk>>

-----------------------------------------------------------------------------
(* Walks                                                                   *)

\* path_between(): the states to restore, in order.
Path(nodes, from, target) ==
  LET up == Keeping(Chain(nodes, from), {n \in DOMAIN nodes : ~OnPath(nodes, target, n)})
      down == Keeping(Chain(nodes, target), {n \in DOMAIN nodes : ~OnPath(nodes, from, n)})
  IN  [i \in DOMAIN up |-> nodes[up[i]].parent] \o Reverse(down)

\* The text a walk along `path` makes of t.
Along(nodes, path, t) ==
  LET along[i \in 0..Len(path)] ==
        IF i = 0 THEN t
        ELSE IF Known(nodes[path[i]]) THEN Applied(along[i - 1], nodes[path[i]].state[1])
        ELSE along[i - 1]
  IN  along[Len(path)]

\* The walk leaves the node in front without capturing it.
LeftUncaptured(tr) == tr

\* The node in front is captured when the walk leaves it.
Left(tr) ==
  IF Known(tr.nodes[tr.current]) THEN tr
  ELSE [tr EXCEPT !.nodes[tr.current].state = <<Capture(text, cursor, modified)>>]

\* A reconciliation that finds nothing to walk to.
Stay(tr) ==
  /\ tree' = tr
  /\ walked' = FALSE
  /\ UNCHANGED <<text, cursor, modified>>

\* undo_walk_to() on a reconciled tree.
WalkTo(tr, target) ==
  IF target = 0 \/ target = tr.current \/ ~Known(tr.nodes[target])
  THEN Stay(tr)
  ELSE LET path == Path(tr.nodes, tr.current, target)
           onto == tr.nodes[target].state[1]
       IN  /\ text' = Along(tr.nodes, path, text)
           /\ cursor' = onto.cursor
           /\ modified' = onto.modified
           /\ tree' \in Trims([Left(tr) EXCEPT !.current = target])
           /\ walked' = TRUE

\* Undo goes to the parent whatever it holds.
UndoTargetPlain(tr) == tr.nodes[tr.current].parent

\* The parent, or behind it the first state that is not what the buffer holds;
\* a root is never skipped.
UndoTarget(tr) ==
  LET behind == Tail(Chain(tr.nodes, tr.current))
      stop(n) == \/ tr.nodes[n].parent = 0
                 \/ ~Known(tr.nodes[n])
                 \/ ~SameContent(text, tr.nodes[n].state[1])
  IN  IF behind = <<>> THEN 0
      ELSE behind[CHOOSE i \in DOMAIN behind :
                    stop(behind[i]) /\ \A j \in 1..(i - 1) : ~stop(behind[j])]

\* The newest child.
RedoTarget(tr) ==
  LET children == {i \in DOMAIN tr.nodes : tr.nodes[i].parent = tr.current}
  IN  IF children = {} THEN 0
      ELSE CHOOSE i \in children : \A j \in children : tr.nodes[i].seq >= tr.nodes[j].seq

\* Everything that looks at the tree reconciles it first.
Looking(Then(_)) ==
  /\ \E tr \in Reconciled(tree, pending, text, touched) :
       IF tr.current = 0 THEN Stay(tr) ELSE Then(tr)
  /\ InBound
  /\ pending' = <<>>
  /\ touched' = FALSE
  /\ UNCHANGED <<writes, disk, jobs, crossed>>

Undo == Looking(LAMBDA tr : WalkTo(tr, UndoTarget(tr)))

Redo == Looking(LAMBDA tr : WalkTo(tr, RedoTarget(tr)))

\* jot.undo.goto(): to the state with the number asked for, if one has it.
Goto == Looking(LAMBDA tr : Stay(tr) \/ \E n \in DOMAIN tr.nodes : WalkTo(tr, n))

\* jot.undo.tree() and jot.undo.lines() only reconcile.
Inspect == Looking(Stay)

\* jot.undo.clear()
Clear ==
  /\ tree' = [nodes |-> <<>>, current |-> 0, last |-> 0]
  /\ pending' = <<>>
  /\ walked' = FALSE
  /\ UNCHANGED <<text, cursor, modified, touched, writes, disk, jobs, crossed>>

Next ==
  \/ Move \/ Command \/ Save \/ Undo \/ Redo \/ Goto \/ Inspect \/ Clear
  \/ \E k \in DOMAIN jobs : \/ Reads(k) \/ Formats(k) \/ FormatFails(k)
                            \/ ReadsAgain(k) \/ LandFormat(k)

Spec == Init /\ [][Next]_vars

-----------------------------------------------------------------------------
InFront == tree.nodes[tree.current]

NodeOK(n) ==
  /\ n.parent \in 0..Len(tree.nodes)
  /\ n.seq \in 1..MaxSeq
  /\ n.saved \in 0..writes
  /\ n.state = <<>> \/ (Len(n.state) = 1 /\ n.state[1] \in States)
  /\ n.held \in Texts

JobOK(j) ==
  \/ j.stage \in {"queued", "done"} /\ j.text = <<>>
  \/ /\ j.stage \in {"busy", "rewritten", "done"}
     /\ Len(j.text) = 1 /\ j.text[1] \in Texts

TypeOK ==
  /\ text \in Texts /\ disk \in Texts
  /\ cursor \in Regions
  /\ modified \in BOOLEAN /\ touched \in BOOLEAN
  /\ walked \in BOOLEAN /\ crossed \in BOOLEAN
  /\ \A i \in DOMAIN tree.nodes : NodeOK(tree.nodes[i])
  /\ tree.current \in 0..Len(tree.nodes)
  /\ tree.last \in 0..MaxSeq
  /\ pending = <<>> \/ (Len(pending) = 1 /\ pending[1] \in States)
  /\ writes \in 0..MaxWrites
  /\ Len(jobs) <= MaxJobs /\ \A k \in DOMAIN jobs : JobOK(jobs[k])

\* Whatever is trimmed, the history stays one tree: the first node is its only
\* root, a node comes after its parent and is younger, and there is a node in
\* front exactly when there is a history.
TreeShape ==
  /\ tree.current = 0 <=> tree.nodes = <<>>
  /\ \A i \in DOMAIN tree.nodes :
       /\ tree.nodes[i].parent < i
       /\ tree.nodes[i].parent = 0 => i = 1
       /\ \A j \in 1..(i - 1) : tree.nodes[j].seq < tree.nodes[i].seq
       /\ tree.nodes[i].seq <= tree.last

\* "A node holds the content it reached, so coming back to it is a restore"
\* (UndoNode): the buffer is what its node held when it was first reached, as
\* long as no command is pending.
RestoresWhatItReached ==
  tree.current # 0 /\ pending = <<>> => text = InFront.held

\* Every walk can restore every state on its way: only the node in front may not
\* have its content captured, and the captured states, the pending one as well,
\* hold what their nodes reached.
StatesHoldWhatTheyReached ==
  /\ \A i \in DOMAIN tree.nodes : i # tree.current => Known(tree.nodes[i])
  /\ \A i \in DOMAIN tree.nodes :
       Known(tree.nodes[i]) =>
         tree.nodes[i].state[1].part = Restrict(tree.nodes[i].held,
                                                DOMAIN tree.nodes[i].state[1].part)
  /\ pending # <<>> /\ tree.current # 0 => pending[1].from = InFront.held

\* A formatter that has changed the file, and whose result is still to land.
Unlanded == \E k \in DOMAIN jobs : jobs[k].stage \in {"rewritten", "done"} /\ jobs[k].text # <<>>

\* undo_mark_saved() reconciles first, so the stamp of the last write is on a
\* state that holds what is on disk ("saved: 1 on the state the last write landed
\* on"), though commands and walks came between the save, the formatter's rewrite
\* and the completion that stamps again; that is, once the result has landed, and
\* unless a save met a formatter under way, or one failed after another edit.
LastWriteStampIsOnDisk ==
  ~crossed /\ ~Unlanded =>
    \A i \in DOMAIN tree.nodes :
      writes > 0 /\ tree.nodes[i].saved = writes => tree.nodes[i].held = disk

\* "One press reaches the previous real edit": an undo that walks changes the
\* text, unless it lands on the oldest state kept.
UndoReachesARealEdit ==
  [][walked' /\ text' = text /\ Undo => Head(tree'.nodes).seq = tree'.nodes[tree'.current].seq]_vars

-----------------------------------------------------------------------------
(* What comments and docs say and the code does not do                     *)

\* "never dropping below kMinUndoStates" (core/buffer.h): a history that has
\* created that many states keeps that many.
NeverBelowLeast ==
  tree.last >= Least => Len(tree.nodes) >= Least

\* "the restored text disagrees with the file and has to read as an unsaved
\* change" (save_buffer_at): so it must after every undo past a save.
RestoredReadsModified ==
  walked /\ text # disk => modified
=============================================================================
