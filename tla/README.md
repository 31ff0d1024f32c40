# jot-editor in TLA+

TLA+ models of the parts of jot-editor where the order of events, shared state
or a shifting index decides whether the program is right, the TLC runs that
check them, and TLAPS proofs about all of the models. Paths are relative to the
repository's `src/` directory unless they start with `docs/`.

    tlc -workers 2 -config MCTaskQueue.cfg MCTaskQueue.tla     # a run
    tlapm TaskQueueProofs.tla                                  # the proofs

`PROJECT.json` lists the components, the runs with their properties, for every
definition the lines it models, the hazards with the properties that cover
them, and for every property a mutation of the model that breaks it.

## 1. The system

jot is a single-process editor. One **main thread** owns all editor state and
runs a libuv loop; everything slow is done elsewhere and comes back as a
callback on that loop. There are three ways "elsewhere":

* the **task queue** (`base/task_queue.cpp`), a pool of up to 8 workers, used
  for reading files, formatters, workspace scans, git, HTTP clients;
* **detached threads** for parsing (`syntax/runtime.cpp`);
* **child processes** whose pipes the loop polls: language servers
  (`lsp/client.cpp`), debug adapters (`dap/`), shells (`terminal/`).

A completion therefore always meets an editor that moved on since the request:
buffers were edited, closed, opened. Buffers live in a vector and are named by
their *index* almost everywhere (panes, tabs, preview, current buffer), and a
close in the middle shifts all of them. These two facts - late results and
shifting indices - and the history that must survive both (undo, saving) are
what the models are about.

| Component | State | Operations | What is hard | What makes it correct |
|---|---|---|---|---|
| Task queue, `base/task_queue.*` | queue, mutex, condition variable, `running_` (atomic), workers | `submit`, `worker_loop`, `shutdown` | lost wake-ups, `running_` written outside the mutex, teardown | every accepted job is claimed; `shutdown` returns; a job runs at most once, in order, completion after work |
| Event loop, `base/event_loop.*` | pending posts, coalescing `uv_async`, stop flag; fd/timer/fs watches | `post`, `drain_posts`, `run`, `stop`, destructor | posts during a drain, destruction while workers still post | no stranded completion; loop outlives the workers |
| Undo history, `buffers/undo.cpp` | tree of states, node in front, pending snapshot, write counter | `save_state`, `undo_reconcile`, `undo`, `redo`, goto, trim, mark saved, clear | nodes created after the fact, lazily captured content, trimming that renumbers | coming back to a state restores it; the tree stays one; the last stamp is on what is on disk |
| Buffers and indices, `buffers/buffers.cpp`, `buffers/file.cpp` | buffer vector, current, preview, closed history, reads under way | open (asynchronous), preview, close, reopen, new | index shifts, reads that land late or twice | every index denotes the buffer it denoted before |
| Panes and tabs, `panes/` | panes with tab lists, shown buffer, stored view | split, close, focus, drag a tab, drop on an edge | a drag that closes its own pane; the same index kept in four places | a pane shows one of its tabs; a drag moves one tab |
| Saving, `buffers/file.cpp`, `buffers/auto_save.cpp`, `base/file_util.cpp` | text, modified flag, file, formatter jobs | save, save-all, auto-save, format on save, land | formatter results that are late, failing, or of an older save | nothing typed is lost; "clean" means written |
| LSP client, `lsp/` | initialization state, deferred messages, versions, pending requests, owed changes | didOpen/Change/Save/Close, requests, replies, publishes, restart, stop | queue bound, stale replies, ids reused after a restart, a claim about another process | the claim is what the server will hold; a reply is used on the text it was computed for; the server catches up |
| Workspace scans, `commands/cpp_definitions.cpp`, `extras/web_index.cpp` | root, running/pending flags, newest epoch, findings, signature | request, read, land, switch, timer | coalescing, change of root while running | one scan at a time; no findings of another workspace; no request forgotten |
| Git status, `git/git.cpp` | folder, status, digest, one refresh in flight | poll, forced refresh, digest, parse, land | dropped refreshes, failures, a repository that changes during one | the digest kept is of the status shown; the right status comes back |
| Telescope, `extras/telescope*.cpp` | folder, prompt, cached listing, rows, walks | open, close, type, go up, rescan, walk, land | overtaken walks, a picker closed and opened again | Enter opens what is asked for; no scanning for ever |
| Syntax trees, `syntax/` | parser, tree, snapshot, in-sync flag per buffer; parses in flight | announce, edit, query, frame, land, evict, reload, install | edits announced before they land, results for moved buffers, detached threads | the tree in sync is of the text shown; repairs start from the text that was parsed |
| Decorations, `core/decorations_rebase.cpp` | marks, the text before an edit, a dirty flag | set, move, delete, search highlight, log rows, edit, frame | lazy rebase by comparing two texts, several readers and writers | a mark is moved by exactly the edits made since it was set |
| Debugger, `dap/` | session state, pending requests | launch, breakpoints, stop | like LSP | like LSP |
| Large files, folds, bookmarks, jump list, macros, terminals, input, rendering, Lua API, session, extras | see `PROJECT.json` | | mostly text arithmetic, layout or I/O | |

**Interactions.** Saving submits formatters to the task queue; completions look
the buffer up by path, save undo state, and mark the tree saved. Opening submits
reads; landing pushes a buffer and points the focused pane at it. Closing calls
into buffers, panes and the preview. Undo is called by every editing command
(`save_state` first) and by every save (`undo_mark_saved`). `save_state` also
announces the edit to the syntax tree and keeps the text for the decorations;
the edit itself owes the language servers a change. A save asks for both
workspace scans and for a git refresh, but not at once when the file has a
formatter on save: then the formatter's completion asks for them, if the file is
still open. Opening a workspace asks for all of them and stops the servers.

## 2. Plan

Done, most central first:

1. `AsyncTasks` (abstract) and `TaskQueue` (detailed), with `TaskQueueProofs`,
   which also proves that the second implements the first;
2. `UndoTree`, with `UndoTreeProofs`;
3. `BufferTabs`, with `BufferTabsProofs`;
4. `Document`, with `DocumentProofs`, which puts saving, formatter jobs and reads on top of an
   abstraction of 1 (jobs served and landed in any order, which several workers
   allow) and of 2 (the set of texts an undo can reach);
5. `LspSync`, client and server together, with `LspSyncProofs`;
6. the single-flight refreshes `WorkspaceScans`, `GitStatus` and `Picker`, with
   `LateAnswersProofs` for the three of them;
7. `SyntaxTrees`, with `SyntaxTreesProofs`;
8. `Decorations`, with `DecorationsProofs`.

Next:

9. `AtomicFile`: the steps inside `write_file_atomic` (the temporary
   `.jot-saving`, its mode, the rename), with crashes and two saves of one file.
10. The debugger, as far as its client differs from the one of `LspSync`.

## 3. Modules

### AsyncTasks, TaskQueue, TaskQueueProofs

`AsyncTasks` is the promise of background work as its callers rely on it: a job
is accepted unless shut down; jobs start in the order they were accepted; each
runs and completes at most once, the completion on the main thread after the
work; at shutdown what has not started is discarded and what runs finishes.

`TaskQueue` is the code. Each worker has a program counter in `worker_loop`:

| pc | in the code |
|---|---|
| `lock` | about to take `queue_mutex_` (first time, or inside `wait` after a wake-up) |
| `check`, `sleep`, `waiting` | the predicate of `cv.wait`, the step that unlocks and sleeps, asleep |
| `recheck` | after `wait`: `if (!running_) return;` and `front`/`pop` |
| `work`, `post`, `send` | `task.work()`, `EventLoop::post`'s push, its `uv_async_send` |
| `done` | returned |

`queue_mutex_` is a variable, because `shutdown()` writes `running_` without it
and that write may fall between a worker's test and its sleep. A critical
section that nothing else can be interleaved with in a way the code could
observe (`submit`'s, `pending_mutex_`'s) is one step; `notify_one` is a step of
its own after it. `main` is where the main thread is: in the loop, in
`drain_posts` (`swap`, `drain`), in `run()`'s last drain, and in the teardown:
`~TaskQueue` (`flagged`, `cleared`, `joining`), then `~EventLoop`, the order
`core/engine_state.h:63-64` gives. libuv is modelled as its documented
contract: sends coalesce, a pending one is cleared before the callback runs.
External: the condition variable, which may wake a thread spuriously.

The model starts after `EventLoop::prepare()`. In the code `post` calls
`prepare()` itself and sends only if the wake-up is set up, and `run()` submits
jobs for what was asked before it before it calls `prepare()`
(`events/main_loop.cpp:192-212`); what a worker that is done in that window does
to the loop is left out.

### UndoTree, UndoTreeProofs

The history of one buffer. A text maps the *regions* of a file to contents; a
snapshot of a small file holds every region, one of a file over
`kMaxFullSnapshotLines` (`Windowed`) only the region of the caret. `pending`
and `touched` are `undo_pending` and the comparison of the edit generations;
`Reconciled` is `undo_reconcile`, `Trims` the loop of `trim_undo_tree`, `WalkTo`
is `undo_walk_to`, called by `Undo`, `Redo` and `Goto`. What a trim leaves is
`Kept`, the nodes of a set in their order, and `Remap` their new numbers. `Command` is a command
that calls `save_state()` and then changes the text or does not; `Save` cleans
up, writes, may fail, stamps (`MarkSaved`), and may hand the file to a formatter.
A formatter is a job: it reads the file (`Reads`), rewrites it (`Formats`) or
fails, and the worker reads it again (`ReadsAgain`). `LandFormat` is its
completion: what was read takes the place of whatever the buffer holds by then,
with a snapshot of its own (`BeforeSwap`), and is stamped; after a failure what
the buffer holds is stamped as it is. Commands, walks and other saves come in
between. `Inspect` is what a plugin reads (`undo_state_lines`), `Clear` is
`jot.undo.clear`.

A stamp can therefore be on a text that is not the file's: from the formatter's
rewrite until its result has landed; after a save that met a formatter of an
earlier one still under way, whose results then land in turn; and after a
formatter that failed while the buffer was edited, since the completion stamps
the edit. `LastWriteStampIsOnDisk` excepts the first as `Unlanded` and the other
two as `crossed` (history), and holds of everything else.

Abstractions: the byte account is a choice (if `ByteBudget`, the budget may be
exceeded whenever it is consulted, and stays so as long as the loop likes);
the number of lines does not change; carets other than the main one and
selections are left out. The history goes with its buffer, so the buffer stays
open, and a completion that finds it closed, which does nothing, is left out; so
is the formatter run inside the save when there is no task queue. `held` (the text
a node stood for when it was created), `from`, `walked` and `crossed` are history
for the properties.

### BufferTabs, BufferTabsProofs

Buffers, panes and everything that holds a buffer index. Indices start at 1, 0
is the code's -1. `Removed` is the body of `close_buffer_at` in the code's
order: `TabsAfter`, `FocusAfter`, `PreviewAfter`, then the focused pane is
pointed at the buffer in front. `OpenFile` decides at the call (already open,
preview to replace, else a background read) and `FinishOpen` lands later, on
whatever panes there are by then. `MoveTab`, `DropOnEdge` are the two drags,
with `PaneClosings` when a group is emptied.

Abstractions: geometry is left out, so the pane that gets the focus when one
closes is any other; the strip's order and pins, zoom, pane swapping, image
tabs and workspace switches are left out. A buffer's kind is
what the indices depend on: an untouched placeholder, an untouched blank, a
preview, or anything kept. `viewOf` is history: where the buffer that the pane's
stored view was taken of is now.

### Document, DocumentProofs

Every file's contents on disk and every buffer's text, with saves, formatters
and reads as jobs of four stages. A text is the number of the edit that made it
and its form (as typed, cleaned, formatted), so a formatter's stale result is
distinguishable from what replaced it. `past` is the set of texts the buffer's
undo can reach, `typed` (history) the text of the user's last edit in it,
`written` (history) the edits that reached their file. `Saved` is
`save_buffer_at` up to the submission of the formatter, including the
failing write; `LandFormat` is the formatter's completion, which finds its
buffer by path; `SaveModified` is auto-save and save-all: it fixes which buffers
are `due`, and `SaveNext` saves them one after the other, each of which may fail
on its own, while the workers go on and no other command comes in between; `Formats` is the external formatter, which
rewrites the file it read a while ago.

Abstractions: every edit leaves something to clean; what the formatter wrote
needs no cleaning; untitled buffers, `:w <name>`, renames in the explorer,
lazily loaded files and the path without a task queue (formatting inside the
save) are left out; the atomic write is one step that succeeds or changes
nothing.

### LspSync, LspSyncProofs

The client and the server processes it talks to. A handler of the editor is a
function from one state to the next, so `Flushed` (the change a request sends
first), `NotifyOpen`, `ToAll`, `Handled` (one message of a server) and
`HintsAsked` compose in the code's order, as in `Poll` (`poll_lsp_clients`:
changes that are due, messages, hints). Per server, `link` has the client's
half (`status`, `docs` the claimed versions and texts, `queue` the messages
deferred until `initialize` is answered, `pend` the pending requests of all
kinds with the version they were asked for, `applied` the version of the last
findings) and the process (`sent` what it has not read, `known` the documents it
holds, `answers` what it wrote). `Serve` reads a message and answers it,
`Publish` sends findings of any document the process holds, `Exit` is a process
that dies. Replies are matched by id in the code's order of the maps
(`Found`, `Usable`); `Stopped` empties exactly the tables `stop()` empties, and
what survives is marked `old`. `Hearing` is what the process holds after each of
a sequence of messages. Starting servers again tells them of the open files in
the order of the buffers, which is any (`Orders`).

Abstractions: full texts only, as the client sends them; byte limits of the
outbound pipe, starts that fail, switching one server off and findings held
back while typing are left out; completion and signature help ask and land
like hover. `opening` tells two openings of one document apart, `refused` which
documents had a message refused by a full queue; both are history.

### WorkspaceScans, LateAnswersProofs

Both walks of the workspace: `defs` (C++ definition checks) and `web` (class
names and custom properties) have the same bookkeeping (`running`, `pending`,
the jobs that are out, what is shown), and the definitions also `signature` and
`revision`. `Wanted` is the request (a flag while one runs or
there is no queue yet), `Submitted` starts one and makes it the newest, `Landed`
and `DefsAgain`/`WebAgain` are the completion. `Read*` is the worker, which
reads the disk as it is then or the unsaved text it was given. The workspace may
change (`OpenWorkspace`), get its full name (`LoadTree`: root_dir is "." until
then), the setting may be switched, the timer compares the modified buffers with
their edit generations.

A save ends (`EndSave`) by asking for both scans, or by starting a formatter that
will. The formatter rewrites its file or fails (`Format`); its completion finds
the buffer, which counts as saved whatever was typed meanwhile, and asks
(`LandFormat`); or the file has been closed, or the editor shuts down, and nobody
asks (`FormatTooLate`): the findings and the index stay as they are until another
save or request. `lost` remembers that, and that a result was dropped.

Abstractions: a workspace is one source file whose text stands for its
declarations, beside any file that is no source file (`Other`). What an arriving
result does besides being kept (opening the list, jumping to a finding) is left
out. The timer is there unless `JOT_SAFE_MODE` is set.

### GitStatus, LateAnswersProofs

A refresh (`job`) goes through `asked`, `digested`, then `unchanged`, `parsed` or
`failed`: the two passes of `run_git_commands` each see the repository as it is
then, and each may fail. `Refresh` is `refresh_git_status`: dropped when one is
in flight or, unless forced, within 1500 ms; before the queue exists the commands
run at once. `Installed` is the completion with its clearings. `TimerRefresh` is the
timer of 1500 ms, which `run()` registers if there is a folder to ask about and
`JOT_SAFE_MODE` is not set (`events/main_loop.cpp:384-387`): in safe mode nothing
brings a dropped refresh back, and `StatusCatchesUp` is not claimed.

Abstraction: what git says of a repository is one of a few statuses; staging,
committing, diffs and the panels, which run git and then force a refresh, are
`Change` followed by `Forced`.

### Picker, LateAnswersProofs

The file picker: `Scanned` is the start of `scan_async`, `Overtaken` what raising
`scan_id_` does to the walks that are out, `LandScan` the completion with its test
(`Accepts`), `Listed`, `Failed`. Folders may become unreadable at any time.

Abstraction: a listing is known by its folder, the rows by folder and query.
The selection, the preview, the ranking and the synchronous walk that is used
when there is no queue are left out.

### SyntaxTrees, SyntaxTreesProofs

Per buffer the parser, the tree (known by the text it describes, `Garbage` after
a repair from a wrong snapshot), `base` (`ts_edit_base`), `synced`, `pending`,
`failed`. `Announced` is `ts_begin_edit`, `Initialised` is
`init_ts_for_buffer` with `Repaired`, `Confirmed` what a frame does to a
finished edit, `Landed`/`LandedFailed` are `install_finished_parses` for one
result, which finds its buffer by index and language, `Evicted` is the release
beyond the budget of trees, `Reloaded` is `:tsreload`. `Edit` is a whole command:
it announces, may ask for the tree before or between its changes, and may
invalidate.

`Hasty = FALSE` is the assumption under which a command finds the tree as the
last frame left it, which holds unless a key is handled before the first frame
of a buffer; with `TRUE` see section 6. Abstractions: queries, colours, their
cache and the deferred compilation of queries are left out; `Name` gives a
buffer any other file.

### Decorations, DecorationsProofs

A text is a short sequence with line ends in it, so that rows and columns,
which the marks are kept in, and offsets, which the transform works in, are
different things. `Begun` is `decoration_rebase_begin`, `Ensured`
`ensure_decorations_anchored`, `Ready` its guard, `Prefix`/`Suffix`/`Moved`/
`Anchored` the transform of one anchor; `Inserted` the sorted insertion
(`Places` are the places `lower_bound` allows), `Erased` the removal by number.
Writers are plugins (`Plugin*`), incremental search (`SearchFinds`, `SearchEnds`)
and the compilation log (`LogAppends`); `Command` is any command, undo or redo.
A plugin may give any number of a mark, its own or not, and any row and column
(`Positions`): `decoration_set` refuses only negative ones. A column past the end
of its row is an offset in the rows after it, or past the end of the text; a row
the text does not have counts as its last. So marks can be outside the text, and
an edit leaves them there: what `AnchorsComeBack` says is that a mark inside stays
inside, one past the end stays as far past it, and the undo of an edit brings each
back to its offset, if the edit did not replace what it was on. By row and column
it comes back unless its column was past the end of its row, in which case the
first edit before it moves it to the row the offset is in. Of a mark on a row the
text does not have nothing of the kind is true, and section 6 shows what happens
to its order.

`Hasty = FALSE`, `Logs = FALSE` assume that a frame comes between an edit and
the next search step, and that a log does not grow under marks; section 6 has
what happens otherwise. Abstractions: a mark has one anchor (the two ends of a
range are moved each on its own), what it looks like is left out, and the first
edit of a paged file reads it in. `of` is history: the text a mark is meant in.

## 4. Runs

| Run | Shows | Bounds |
|---|---|---|
| `task_queue` | no job queued while only sleepers are left; no sleeper at join; loop outlives workers; no stranded completion; implements `AsyncTasks`; `shutdown` returns; every completion runs unless the loop is stopped | 2 workers, 3 jobs (one without a completion), 1 spurious wake-up |
| `undo_tree` | tree shape under trimming, states hold and restore what they reached, the last stamp is on what is on disk once formatters have landed, undo reaches a real edit | 1 region, 2 contents, cap 3, least 2, 4 states, 2 stamps, 1 formatter under way |
| `buffer_tabs` | panes and preview agree with the buffers, closing keeps what panes show, a drag moves one tab | 3 files (2 of them open at first), 2 panes, 4 buffers, 1 added, closed history of 1 |
| `document` | nothing typed is lost, clean means saved without a formatter, landings touch only their own file | 2 files (one formatted), 2 edits, 6 commands, 3 buffers, 2 jobs |
| `lsp_sync` | the claim is what the server will hold; no edit is forgotten; answers fit the text they are used on; findings never go back; the server catches up | 1 server, 1 file, 2 texts, requests of 2 kinds, queue and pending caps 2, versions to 2, ids to 3, 2 openings, 2 answers, 1 unread message |
| `workspace_scans` | one scan at a time, no findings of another workspace, findings and index catch up | 2 folders and ".", 2 texts, 1 edit, 1 formatter out |
| `git_status` | the digest is of the status shown; the right status comes back | 2 folders, 3 statuses and no repository, git may fail |
| `picker` | Enter opens what is asked; one walk is taken; the picker settles | 2 folders, one in the other; 2 queries |
| `syntax_trees` | a tree in sync is of the text; repairs start from its text; only moves strand a buffer | a long file, a short one and one without a file; 2 texts, 2 buffers, 2 panes, 2 parses, budget 1 |
| `decorations` | marks are of the text they are painted on; those on a row of the text come back after an undo and none overtakes another | texts up to 2 characters, 2 marks, numbers 0 and 1, 4 positions, both gravities |
| `close_tabs`, `clean_means_saved` | each a disagreement of the code with its documentation, section 6 | as the run it belongs to |

The type invariant (`TypeOK`) is a property of `undo_tree` and of `lsp_sync`,
where it also states a cap. It is proved (section 5) of `TaskQueue`, `UndoTree`,
`LspSync`, `SyntaxTrees`, `WorkspaceScans`, `GitStatus` and `Picker`; in the last
two it has a name of its own (`GitTypeOK`, `PickerTypeOK`), as one module extends
all three. `BufferTabs`, `Document` and
`Decorations` define it and it holds on their instances (add it under
`INVARIANTS`).

**Why the bounds are enough.** Two workers are enough for one to sleep while
another works and for one of two sleepers to be woken; three jobs for a queue
of two behind a running one; one spurious wake-up because every wake-up leads
to the same test. In the history, four states against a cap of 3 make trimming
happen on a branching tree, both kinds of victims included; a region more adds nothing to full snapshots. Two
stamps are those of a save and of its formatter's completion, with every command
and walk between them, or of two saves, the second of which meets the formatter of
the first. The cleanup and the formatter of the instance undo each other's work,
so that both always have something to do. Two formatters at a time set `crossed`,
after which the property of the stamp asks for nothing; the proof covers any number. Two panes suffice for every
two-pane operation, three buffers for a close below, at and above an index. Two
edits and two jobs let a formatter's result of an older save land after a newer
edit, and let two formatters of one file finish in the wrong order; six commands
cover edit, save, edit, save, close, reopen.

In `lsp_sync` a queue of 2 is filled by opening and changing one document, so
that refusals, the flush of the queue and its loss by a restart all occur; two
openings let a reply of the first meet the second; ids to 3 let an id come back
after a restart; two answers arrive in either order. One server and one file are
enough for these, since tables are kept per server and file and no handler
relates two files; the extra servers are the subject of `EveryServerIsTold`
(section 6). Hints (`InFront`) multiply the states beyond what a run can hold
and were explored on smaller instances by hand. Scans need two folders for a
switch, two texts for a stale read and an edit for one that arrives during a scan;
one formatter may outlive a switch, a close and other saves. Git needs two folders for a refresh that lands for the other one and three
statuses to tell what was digested, what was parsed and what is true. In
`syntax_trees` two buffers suffice for a result that meets the other buffer after
a close, two parses for one that was overtaken. In `decorations` two
characters give repeated characters (where prefix and suffix overlap), three
rows, and insertions and removals at both edges of a window; the four positions
are the start, a column in the row or just past it, one past any text, and a
second row, which the text may not have.

**Views.** `buffer_tabs` identifies states that differ only in the stored views:
they decide nothing but later stored views, and no property of that run reads
them. `document` identifies states that differ only in the order of the jobs
(served in any order anyway) and in those past texts no property asks for.
`undo_tree` identifies states that differ only in the modified flag and its copies
in the snapshots: nothing else depends on them, and no property of the run asks
more of them than their type. These three runs check no liveness of their own.
`workspace_scans` does, and identifies, once the editor shuts down, the states in
which the scans that are out will do the same: such a state is never left for one
with `alive`, so every behaviour that gets there satisfies both liveness
properties, by what they except, and before that nothing is identified. No other
run uses a view.

**Deadlock** is checked in `task_queue` (the final state stutters explicitly),
`lsp_sync`, `picker`, `syntax_trees` and `decorations`. `undo_tree`, `buffer_tabs`
and `document` stop when a bound on the behaviour's length is used up,
`workspace_scans` and `git_status` when the editor has quit and the last result
has landed; they say `CHECK_DEADLOCK FALSE`.

**Fairness.** `FairSpec` of `TaskQueue` has weak fairness of each worker, of the
main thread's loop and of its teardown: the operating system schedules runnable
threads, and libuv delivers a pending wake-up. Strong fairness of the mutex is
not needed, since no thread holds it for ever and the sleepers release it.
Nothing obliges the user to submit or quit, nor the condition variable to wake
spuriously. The others rest on the same grounds:

* `LspSync`: the poll every 250 ms (`events/main_loop.cpp:408`) sends a change
  whose debounce has run out; the answer to `initialize` is read; a server reads
  its pipe. Nothing else a server writes need come or be read, and nothing is
  asked of the user. `ServerCatchesUp` excepts a server that is started again and
  again.
* `WorkspaceScans`: weak fairness of `run()`, of the timer of 600 ms, of the
  workers and of the landings; and of formatters, one of which comes to an end as
  long as any is out (a formatter that hangs would keep its worker, and a scan
  behind it, waiting).
* `GitStatus`: weak fairness of `run()`, of time, of the timer, of the worker and
  of landing, and strong fairness of a command succeeding: one that is run again
  and again does not always fail. The property asks for nothing while the
  repository or the workspace keeps changing.
* `Picker`: weak fairness of walks and landings. `PickerSettles` asks for nothing
  while keys keep coming.

`UndoTree`, `Document`, `SyntaxTrees` and `Decorations` are checked for safety
only and state none; `BufferTabs` has weak fairness of landing reads and no run
depends on it.

## 5. Proofs

Every theorem rests only on the named assumptions of the module it is about, and
on what is stated with it. In each proof module the type invariant alone does not
carry the others, so a stronger one (`IndInv`, `IInv`) is shown to be inductive,
action by action, in the theorem `Invariance` (`SyncInvariance`, `GitInvariance`,
`ScansInvariance`, `PickerInvariance`; `AlwaysAgreeing` of the panes).

**`TaskQueueProofs`**, for every finite non-empty set of workers, every set
of jobs and every bound on spurious wake-ups: `TypeCorrect`
(`Spec => []TypeOK`), `NoLostShutdownWakeup` (`NoSleeperAtJoin`), `LoopOutlives`
(`LoopOutlivesWorkers`), `PostsAnnounced` (`PostsAreAnnounced`). `IndInv` adds:

* `MutexHeld`: the mutex is held exactly by a worker at `check`, `recheck` or
  `sleep`. Hence `DropQueue`, which needs the mutex, finds no worker there.
* `TaskHeld`: a worker has a job exactly while it works on it or posts it.
* `ReadStillTrue`: what a worker read under the mutex is still so while it holds
  it, apart from `running_`, which can only have been cleared; so `front()` is
  never of an empty queue.
* `TeardownOrder`: how far the teardown is, and that past `DropQueue` the queue
  is empty and nobody is about to sleep. This is the argument against the lost
  wake-up: after `DropQueue` a worker that takes the mutex sees `running_`
  false, and one that slept before is woken by `notify_all`.

The lemmas split the step: `WorkerCore` and `MainCore` for everything but the
posts, `AnnouncedStep` for the posts.

`NoJobIsLeftToSleepers` proves `WorkConserving` on top of `IndInv` by counting:
`submit` adds one job and one owed notification, `notify_one` turns the
notification into a worker that is awake or finds that nobody sleeps, and a
worker stops looking only after it took a job or saw none.

The refinement is in the same module: `JobsAreInOnePlace` (`Placed`) and
`Implements` (`ImplementsAsyncTasks`). The contract keeps sets of
jobs where the code keeps sequences and hands, and a set cannot tell how often a
job is in it, so the mapping is right only because a job is in one place at a
time (`OnePlace`) and a batch exists only inside `drain_posts`
(`BatchInDrain`). With these every step of a thread is a step of `AsyncTasks` or
a stutter.

**`UndoTreeProofs`**, for any regions, contents and bounds: `TypeCorrect`,
`HistoryStaysATree` (`TreeShape`), `UndoIsReal` (`UndoReachesARealEdit`), and,
for files that are snapshot whole (`~Windowed`), `Restores`
(`RestoresWhatItReached`), `StatesHold` (`StatesHoldWhatTheyReached`) and
`StampIsOnDisk` (`LastWriteStampIsOnDisk`). The invariant has three parts.

* `Typed` says that the nodes are numbered from the root downwards, a parent
  before its children and stamps of creation rising (`Shape`), and needs nothing
  of the texts. Trimming is the hard case: a set can be dropped if it leaves the
  front, and no node of it is the parent of one that stays, unless that becomes
  the root (`Safe`); then the nodes that stay, renumbered, are such a tree again
  and still say what they said (`DropIsSafe`, `LeftOf`). Both kinds of victims of
  `trim_undo_tree` are safe (`VictimsAreSafe`), so the whole loop is.
* `Faithful` says what the texts have to do with the nodes: every node but the
  front has its content, and a content is what the node reached (`Holding`); the
  front reached what the buffer holds, or held when the pending snapshot was
  taken (`OnText`); the last stamp is on what is on disk, unless a result is
  still to land or saves crossed (`StampOnDisk`). A walk captures the node it
  leaves before it goes, and so keeps this (`WalkKeeps`). With windows it is false,
  section 6.
* `Alone` is why a formatter's late completion mends the stamp: unless saves
  crossed there is at most one formatter under way, so what it read back is still
  what the file holds when it lands, whatever was typed and walked since; it takes
  the place of the text, and `MarkSaved` stamps the state that holds it. If it
  failed without an edit in between, the text that is stamped again is the one the
  save wrote.

Recursive operators are opaque to the prover, so the walk to the root, the
trimming loop and the filtering of the node list are recursive functions, and
what they compute is shown by induction on how far they have come. The library's
induction theorem takes an operator; `EveryNumber` states induction for sets of
numbers, which is enough here, and `LeastOf` that such a set has a least member.

**`DocumentProofs`**, for any files, numbers of edits, commands, buffers and jobs:
`TypedIsKept` (`NothingTypedIsLost`), `CleanIsSaved` (`CleanMeansSavedIfPlain`),
`LandingIsOwn` (`LandingKeepsOtherFiles`). The invariant is relative to `written`, the
edits that reached their file. Every text on disk, and every text a job has read
or made, is of one of them; what a job holds is what its stage says; every
buffer, open or remembered for `reopen`, has the user's last text in front or in
its undo, and if it reads as saved and no formatter may rewrite its file, what it
shows was written. A landing finds
the first buffer of its file, hence one of its own (`ItsFile`).

**`SyntaxTreesProofs`**, for any files, languages, texts, buffers, panes and
parses, assuming `~Hasty`: `TypeCorrect`, `InSync` (`InSyncMeansMatching`),
`RepairsAreSound` (`RepairStartsFromTheTree`), `NothingIsReplaced`
(`PendingHoldsNothing`), `OthersStrandNone` (`OnlyMovesStrand`). The invariant is
that every buffer is good: in sync its tree is of its text, a snapshot it has is
the tree's text, while it waits it holds nothing. Commands that ask for the tree
in their middle pass through a state that is not good; a lemma says what is true
there and that the rest of the command makes it good again.

**`BufferTabsProofs`**, for any files, panes, buffers and bounds: `PanesStayInStep`
(`PanesAgree`), `CloseShiftsWithoutSlips` (`CloseKeepsWhatPanesShow`) and
`DragsMoveOneTab` (`DragMovesOneTab`). In the model an operation is a function from
the buffers and panes it finds to those it leaves, so most of the proof is one
lemma for each such function, and the actions follow from them.

* The invariant (`Agreeing`) says of every pane that its tabs are buffers, none
  twice, and that it shows one of them, and of the state that the buffer in
  front is the focused pane's.
* Some operations call others in the middle: opening a file may first close the
  preview, a drag may close the group it emptied and then look for the target
  again, whose number may have moved. In between, a pane may show a buffer that
  is no tab of it. `SoundBut(s, P)` is the invariant but for the panes in P;
  every operation keeps it for some P, and the last one mends what is left.
* Closing removes a number from every tab list after moving the higher ones
  down. That the list has no buffer twice afterwards holds although two
  buffers may just have had the same number, because both go (section 6).
* A drag is about how many panes have a tab. The panes that hold a tab before and
  after are put in one-to-one correspondence, also when panes were inserted or
  taken out between them (`Holders`).

What the lemmas say of removing, inserting and keeping elements of a list is
again by induction on how far a recursive function has come. `TypeOK` states in
addition the bounds on lengths that the guards impose for TLC, and is not proved.

**`LspSyncProofs`**, for any finite sets of servers and files, any texts, caps
and bounds: `TypeCorrect` (`TypeOK`, with the caps), `ClaimHolds`
(`ClaimIsWhatTheServerWillHold`), `BehindIsOwed` (`BehindMeansOwed`),
`AnswersFit` (`AnswersFitTheirDocument`) and `FindingsAdvance`
(`FindingsNeverGoBack`). What is in the pipe and what waits for `initialize` are
one sequence, the messages on the way (`Way`), and the invariant speaks of what
the server will hold after each of them (`Hearing`):

* `Claimed`: after the last one it holds what the client claims. A message that
  is accepted is appended together with the claim it leads to, the server takes
  the head, and the flush of the queue moves the border between pipe and queue.
* `Editions`: no document the server holds, is told of or has answered with is
  ahead of the claim of the same opening, and the one with the version of the
  claim is the claim. This is what makes comparing versions a comparison of
  texts.
* `Questions`: when a question is reached the server holds the document its
  pending entry remembers, and a reply was computed on that one; ids of entries
  of this process are below the next one, so a new question meets no old entry
  except those `stop()` does not clear (`old`).
* `Phase` and `Capped`: a process that has not answered `initialize` has heard
  nothing else, one that does not run is owed nothing; the tables keep to their
  caps.

To these come, for the editor, that findings are of a document the process was
told of and `applied` says how far they are (`Applied`), that servers run only
when enabled, and `Told`, which is `BehindMeansOwed` itself. A refused message
breaks the chain for its file, which the parts about its document therefore
except. As the handlers are functions from one editor to the next, most lemmas
are about them (`EnsuredSound`, `NotifyOpenSound`, `FlushedSound`,
`HandledSound`, ...), the one about reopening by induction on how many buffers
have been told, and each action has a lemma that puts them together.

**`LateAnswersProofs`** is about three parts that show what comes back from the
background.

* Git status, for any folders and statuses: `GitTypeCorrect`, `SnapshotIsKept`
  (`SnapshotIsOfTheShown`). The invariant adds that a job's digest is of the
  folder it was asked for, which is what makes the digest that is installed one
  of the status installed with it.
* The file picker, for any folders and queries: `PickerTypeCorrect`,
  `EnterIsSafe` (`EnterOpensWhatIsAsked`), `OneWalkIsTaken`
  (`ScanningIsForThisRoot`). The invariant says what rows can be there in each
  phase of the picker, and that of the walks at most one is the latest.
* Workspace scans, for any folders, texts, bound on edits and number of formatters:
  `ScansTypeCorrect`, `NoTwoScans` (`OneScanAtATime`), `FindingsBelong`
  (`FindingsOfThisWorkspace`). The invariant adds what the names of the workspace
  can be: "." only until the first folder is known, so that comparing a job's
  root with the root by name is right although one folder has two names.

**`DecorationsProofs`**, for any texts and any number of marks, assuming `~Hasty`
and `~Logs`: `MarksFollow` (`InTheirText`). The invariant says besides that
without a kept text nothing is dirty that an edit could move, and that whoever
sets a mark does so when the kept text is the text or there is none; lemmas say
what insertion, removal and the rebase keep of it. `EditsAreUndone`
(`AnchorsComeBack`) and `NoneOvertakes` (`OrderIsKept`) are then facts about the
transform of a mark on a row the text has, in the text or past its end: the offset
becomes a row and a column and comes back without loss (also past the end, which
is in the last row), on offsets the transform is monotone and takes those past the
end to those past the end, and away from what was replaced the transform of the
opposite edit undoes it. No bound on rows and columns is used.

**Only model-checked**: all liveness (`ShutdownReturns`, `EveryCompletionRuns`,
`ServerCatchesUp`, `FindingsCatchUp`, `IndexCatchesUp`, `StatusCatchesUp`,
`PickerSettles`), which needs reasoning about fairness and `ENABLED` that is out
of the prover's reach; the bounds in `BufferTabs.TypeOK`,
`Document.TypeOK` and `Decorations.TypeOK`.

## 6. Where the code and its documentation disagree

With a run that shows it:

* `close_tabs`: `close_buffer_at` shifts tab numbers *before* removing the closed
  one, so the tab of the next buffer is removed with it, in every pane that does
  not show that buffer.
* `clean_means_saved`: a formatter's completion clears the modified flag whatever
  was typed since the save, even if the formatter failed. A restart or quit then
  drops the edit without asking.

Definitions that TLC finds violated when they are put in the place of a run's
properties, with the constants that differ from the run's:

| Module | Definition | Constants | What the code does |
|---|---|---|---|
| `UndoTree` | `RestoresWhatItReached` | `Windowed = TRUE`, 2 regions | A state of a file over 5000 lines holds a window around the caret of the snapshot: edit, move away, undo, redo, and the edit does not come back. `core/buffer.h:134`: "A node holds the content it reached, so coming back to it is a restore". |
| `UndoTree` | `NeverBelowLeast` | `Least = 3` | One turn of `trim_undo_tree` drops a whole branch and can go below `kMinUndoStates`, which `core/buffer.h:39-40` excludes. |
| `UndoTree` | `RestoredReadsModified` | | An undo past a save can leave a text that is not the file's in a buffer that reads as saved; `buffers/file.cpp:764-765` says it "has to read as an unsaved change". |
| `UndoTree` | `LastWriteStampIsOnDisk` without its exceptions | | The formatter rewrites the file after the stamp, and its completion stamps what the buffer holds even if the formatter failed and something was typed (`buffers/file.cpp:901`). The modified flag has the same cause in `clean_means_saved`. |
| `BufferTabs` | `ViewBelongsToItsBuffer` | no view | `view_buffer_id` is not shifted by a close, so a pane's stored caret and scroll are applied to another buffer. |
| `LspSync` | `EveryServerIsTold` | `Servers = {p1, x1}` | A request's flush erases the owed change although only the primary server was told. |
| `LspSync` | `DroppedFindingsAreOlder` | `MaxAnswers = 1` | After a close and a reopening versions start over, and findings of the new document are dropped as older than those of the old one. |
| `LspSync` | `HintsFollowTheText` | `InFront = {f1}`, `Asked = {"hover"}`, `MaxId = 4` | A reply that is dropped leaves no refresh due; `lsp/inlay_hints.cpp:4`: "Hints refresh when the file changes". |
| `WorkspaceScans` | `NoWishIsLeft` | | A scan of the workspace before lands without starting the one that waits; `core/cpp_defs_state.h` says it "runs the moment the current one lands". |
| `WorkspaceScans` | `OffMeansNoFindings` | | A scan that is out when the checks are turned off publishes; `docs/FEATURES.md:725-726`: turning them off "drops their rows again". |
| `WorkspaceScans` | `TimerSeesEveryEdit` | | The timer looks at the texts only if the modified buffers, each with its edit generation, are not those it saw at its last tick (`commands/cpp_definitions.cpp:192-199`). A request may take up an edit before a tick sees it (another file is saved), and when the edit is undone or closed before the next tick the list is empty as before: the signature, and the findings, stay those of the text that is gone (`events/main_loop.cpp:390-391`: "Unsaved declarations need findings too"). |
| `GitStatus` | `NeverSkippedOnStaleText` | | The status is read twice, once for the digest and once to be parsed; after a change in between every later refresh is skipped. `git/git.cpp:105-106`: "never skipped on stale text". |
| `SyntaxTrees` | `NoBufferWaitsForever` | | A parse in the background finds its buffer by index (`syntax/syntax_editor.cpp:1471`): after a close below it, or `:tsreload`, the buffer that waits gets no tree. The comment at 1427-1428: "Nothing to do until install_finished_parses hands the tree back". |
| `SyntaxTrees` | `InSyncMeansMatching` | `Hasty = TRUE` | A tree built inside a command that was announced before there was one is taken to be in sync with what the command makes of the text. |
| `Decorations` | `SortedForTheRenderer` | | A mark that leans left and one that leans right swap when text is inserted between them; the list is not sorted again (`core/buffer.h:197`), and the renderer's binary search (`render/buffer.cpp:773-792`) relies on it. |
| `Decorations` | `OrderIsKeptBelowToo` | | A mark on a row the text does not have counts as being on the last (`core/decorations_rebase.cpp:167-175`) and, while no edit moves it, keeps naming its row: an edit that brings the row takes it past marks that counted as level with it. |
| `Decorations` | `OnlyOwnMarksGo` | | Searches and plugins both number their marks from 1, and a search erases by number. |
| `Decorations` | `InTheirText` | `Hasty = TRUE` | A search step handled before the frame sets its mark while an edit is still to be absorbed. |
| `Decorations` | `InTheirText` | `Logs = TRUE`, `MaxLen = 4` | `compile_append_rows` changes the text without `decoration_rebase_begin`; `core/decorations.h:8-9`: "Every content mutation goes through decoration_rebase_begin". |

## 7. Not modelled

Text algorithms (motions, regular expressions, symbol scanners, folding, fuzzy
ranking) work on unbounded strings and are better served by unit tests.
Rendering, input dispatch, themes, settings and the Lua bindings keep no state
the rest depends on. Terminals and child processes are I/O. Bookmarks and the
jump list are line numbers no edit moves; folds are recomputed from the text.
Macros replay keys through the dispatcher. The steps inside an atomic write and
the debugger are planned (section 2).

Most of the source is of these kinds (scanners and their tables, painting, key
dispatch, bindings), so the lines the models stand for are a small part of it;
the modules take the parts in which state outlives an event.

Within the components that are partly modelled: the outbound byte limits,
failing starts, the switching off of single servers and the held-back findings
of the LSP client; the picker's synchronous walks; the colour cache and the
deferred compilation of syntax queries, and whether a buffer off screen gets
its tree; image tabs, workspace switches and pane geometry; untitled buffers and
`:w <name>`; formatting inside the save when there is no task queue; the set-up of
the loop's wake-up while `run()` starts; `JOT_SAFE_MODE`, which takes the timers
away that `WorkspaceScans`, `GitStatus` and `LspSync` rely on. `PROJECT.json` has
the reason for each.
