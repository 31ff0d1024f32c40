----------------------------- MODULE SyntaxTrees -----------------------------
(***************************************************************************)
(* The tree-sitter trees of the open buffers                               *)
(* (src/src/syntax/syntax_editor.cpp, runtime.cpp): built when a frame or  *)
(* a command asks, on a thread of their own for a long file, repaired from *)
(* a snapshot of the text they were parsed from, and released when they    *)
(* are no longer on screen.                                                *)
(*                                                                         *)
(* A tree is known by the text it describes.  The repair edits the tree by *)
(* the difference between ts_edit_base and the text: with a base that is   *)
(* not the tree's own text the outcome is Garbage.  A command announces    *)
(* its edit (save_state), may ask for the tree (Enter's indent query) and  *)
(* changes the text afterwards; no frame comes in between.                 *)
(***************************************************************************)
EXTENDS Naturals, Sequences, FiniteSets

CONSTANTS Files,      \* files by what they are to the parser
          Scratch,    \* the buffer without a file
          Lang,       \* the language of each, or None
          Big,        \* those with more than kAsyncParseThresholdLines lines
          Shipped,    \* the languages whose grammar is there at the start
          Texts,      \* contents
          Empty,      \* the content of a buffer without a file
          None,
          Garbage,    \* what a tree describes after a repair from a wrong base
          Budget,     \* kMaxCachedSyntaxTrees
          MaxBuffers, \* bound on the buffers
          MaxPanes,   \* bound on the buffers on screen
          MaxJobs,    \* bound on the parses that are out
          Hasty,      \* a command may reach a buffer before a frame did
          MayFail     \* a background parse may fail to load its library

ASSUME SyntaxAssumption == /\ Lang \in [Files \cup {Scratch} -> STRING \cup {None}]
                           /\ Lang[Scratch] = None
                           /\ None # Garbage /\ {None, Garbage} \cap Texts = {}
                           /\ Empty \in Texts
                           /\ {MaxBuffers, MaxPanes} \subseteq Nat \ {0}
                           /\ Shipped \subseteq {Lang[f] : f \in Files} \ {None}

VARIABLES
  buffers,   \* the buffers and their bookkeeping (core/buffer.h)
  shown,     \* the indices the panes show
  jobs,      \* background parses whose result has not been taken
  installed  \* the languages whose grammar can be loaded

vars == <<buffers, shown, jobs, installed>>

Languages == {Lang[f] : f \in Files} \ {None}
Buffers == [file: Files \cup {Scratch}, text: Texts, parser: BOOLEAN,
            tree: Texts \cup {None, Garbage}, lang: Languages \cup {None},
            synced: BOOLEAN, base: Texts \cup {None}, pending: BOOLEAN, failed: BOOLEAN]
Jobs == [index: 1..MaxBuffers, lang: Languages, text: Texts]

Indices == DOMAIN buffers
Fresh(f, t) == [file |-> f, text |-> t, parser |-> FALSE, tree |-> None, lang |-> None,
                synced |-> TRUE, base |-> None, pending |-> FALSE, failed |-> FALSE]

-----------------------------------------------------------------------------
\* ts_begin_edit()
Announced(b) == IF b.parser /\ b.tree # None /\ b.synced
                THEN [b EXCEPT !.base = b.text, !.synced = FALSE] ELSE b

\* A snapshot that matches the text is taken for a finished edit.
RepairedInSync(b) ==
  IF b.tree # None /\ b.base # None
  THEN [b EXCEPT !.tree = IF b.tree = b.base THEN b.text ELSE Garbage,
                 !.base = None, !.synced = TRUE]
  ELSE [b EXCEPT !.tree = b.text, !.base = None, !.synced = TRUE]

\* reparse_tree(), with a parser: wait for the announced edit, repair, or rebuild.
Repaired(b) ==
  IF b.tree # None /\ b.base # None
  THEN IF b.base = b.text THEN b
       ELSE [b EXCEPT !.tree = IF b.tree = b.base THEN b.text ELSE Garbage,
                      !.base = b.text, !.synced = FALSE]
  ELSE [b EXCEPT !.tree = b.text, !.base = None, !.synced = TRUE]

\* release_syntax()
Released(b) == [b EXCEPT !.parser = FALSE, !.tree = None]

\* Nothing is left of the language or of the edits.
Bare(b) == [Released(b) EXCEPT !.lang = None, !.base = None, !.synced = TRUE]

\* init_ts_for_buffer() needs a parser, and the grammar can be loaded.
NeedsParser(b, known) == /\ ~b.pending
                         /\ Lang[b.file] \in known
                         /\ ~(b.parser /\ b.lang = Lang[b.file])

\* It leaves the parse to a thread of its own.
Queues(b, known) == NeedsParser(b, known) /\ b.file \in Big /\ ~b.failed

\* init_ts_for_buffer()
Initialised(b, known) ==
  CASE b.pending -> b
    [] ~b.pending /\ b.parser /\ b.lang = Lang[b.file] ->
         IF b.tree = None \/ ~b.synced THEN Repaired(b) ELSE b
    [] Queues(b, known) ->
         [Bare(b) EXCEPT !.lang = Lang[b.file], !.synced = FALSE, !.pending = TRUE]
    [] NeedsParser(b, known) /\ ~Queues(b, known) ->
         Repaired([Bare(b) EXCEPT !.parser = TRUE, !.lang = Lang[b.file], !.failed = FALSE])
    [] OTHER -> Bare(b)

\* The job of a buffer: a copy of its text, and its place.
JobOf(i, b) == [index |-> i, lang |-> Lang[b.file], text |-> b.text]

\* The parses that init_ts_for_buffer() starts for some of the buffers bs.
Started(bs, S, known) ==
  /\ jobs' = jobs \cup {JobOf(i, bs[i]) : i \in {j \in S : Queues(bs[j], known)}}
  /\ Cardinality(jobs') <= MaxJobs

\* init_ts_for_buffer() for some of the buffers bs, and what it leaves.
InitialisedAll(bs, S, known) ==
  [i \in DOMAIN bs |-> IF i \in S THEN Initialised(bs[i], known) ELSE bs[i]]

\* The buffer's text is taken for the one that was parsed.
LandedAsParsed(b, job) ==
  [b EXCEPT !.parser = TRUE, !.tree = job.text, !.pending = FALSE,
            !.base = IF b.text # job.text THEN b.text ELSE b.base,
            !.synced = (b.text = job.text)]

\* install_finished_parses(): the tree, and the text it still has to follow.
Landed(b, job) ==
  [b EXCEPT !.parser = TRUE, !.tree = job.text, !.pending = FALSE,
            !.base = IF b.text # job.text THEN job.text ELSE b.base,
            !.synced = (b.text = job.text)]

\* A failed parse is noted and the buffer goes on waiting.
LandedNoted(b) == [b EXCEPT !.failed = TRUE]

\* A failed parse leaves the next one to the main thread.
LandedFailed(b) == [b EXCEPT !.pending = FALSE, !.failed = TRUE]

\* confirm_pending_syntax_edits(), for one buffer.
Confirmed(b) ==
  IF b.tree = None \/ b.base = None THEN b
  ELSE LET r == Repaired(b)
       IN  IF r.base = r.text THEN [r EXCEPT !.base = None, !.synced = TRUE] ELSE r

\* evict_stale_syntax_trees(), for one that goes.
Evicted(b) == [Released(b) EXCEPT !.pending = FALSE, !.base = None, !.synced = TRUE]

\* invalidate_syntax_cache()
Invalidated(b) == [b EXCEPT !.synced = FALSE]

\* reload_tree_sitter(), for one buffer.
Reloaded(b) == Invalidated([Released(b) EXCEPT !.lang = None])

-----------------------------------------------------------------------------
\* What the panes may show.
Shows(n) == {S \in SUBSET (1..n) : S # {} /\ Cardinality(S) <= MaxPanes}

Init == /\ buffers = <<Fresh(Scratch, Empty)>>
        /\ shown = {1}
        /\ jobs = {}
        /\ installed = Shipped

\* finish_open_file(), create_new_buffer(): the parse waits for a frame.
Open(f, t) == /\ Len(buffers) < MaxBuffers
              /\ buffers' = Append(buffers, Fresh(f, t))
              /\ shown' \in {S \in Shows(Len(buffers) + 1) : Len(buffers) + 1 \in S}
              /\ UNCHANGED <<jobs, installed>>

\* close_buffer_at(): the last buffer is reset in place, the others move down.
Close(i) ==
  /\ IF Len(buffers) = 1
     THEN buffers' = <<[Released(buffers[1]) EXCEPT !.file = Scratch, !.text = Empty]>>
     ELSE buffers' = SubSeq(buffers, 1, i - 1) \o SubSeq(buffers, i + 1, Len(buffers))
  /\ shown' \in Shows(Len(buffers'))
  /\ UNCHANGED <<jobs, installed>>

\* Another workspace: every buffer goes.
OpenWorkspace == /\ buffers' = <<Fresh(Scratch, Empty)>>
                 /\ shown' = {1}
                 /\ UNCHANGED <<jobs, installed>>

\* Tabs and panes.
Show(S) == /\ shown' = S
           /\ UNCHANGED <<buffers, jobs, installed>>

\* :w <name>, a rename: another name, and with it perhaps another language.
Name(i, f) == /\ buffers' = [buffers EXCEPT ![i].file = f]
              /\ UNCHANGED <<shown, jobs, installed>>

\* The tree would be built anew from the text of now.
OwesRebuild(b) ==
  ~b.pending /\ (b.tree = None \/ b.lang # Lang[b.file] \/ (~b.synced /\ b.base = None))

\* query_indent_for_new_line() in the middle of a command.
Asks(b) == Lang[b.file] # None /\ (Hasty \/ ~OwesRebuild(b))

\* A command on a buffer: save_state() announces it, and it changes the text; it
\* may ask for the tree before that (asks), or between two changes (t is the text
\* in between, or None).  One that replaced the lines (a formatter, a Lua write)
\* then invalidates the cache.
Edit(i, asks, t, u, replaced) ==
  LET b == Announced(buffers[i])
      c == IF t = None THEN b ELSE [b EXCEPT !.text = t]
      d == [IF asks THEN Initialised(c, installed) ELSE c EXCEPT !.text = u]
  IN  /\ asks => Asks(c)
      /\ buffers' = [buffers EXCEPT ![i] = IF replaced THEN Invalidated(d) ELSE d]
      /\ jobs' = IF asks /\ Queues(c, installed) THEN jobs \cup {JobOf(i, c)} ELSE jobs
      /\ Cardinality(jobs') <= MaxJobs
      /\ UNCHANGED <<shown, installed>>

\* The tree is asked for outside a command: a text object, the playground.
Query(i) == /\ Lang[buffers[i].file] # None
            /\ Started(buffers, {i}, installed)
            /\ buffers' = InitialisedAll(buffers, {i}, installed)
            /\ UNCHANGED <<shown, installed>>

\* A formatter that found nothing to change.
FormattedNothing(i) == /\ buffers[i].file # Scratch
                       /\ buffers' = [buffers EXCEPT ![i] = Invalidated(@)]
                       /\ UNCHANGED <<shown, jobs, installed>>

\* :tsreload
Reload == /\ buffers' = [i \in Indices |-> Reloaded(buffers[i])]
          /\ UNCHANGED <<shown, jobs, installed>>

\* A grammar has been installed: everything is reloaded and every file parsed.
Install(l) == LET reloaded == [i \in Indices |-> Reloaded(buffers[i])]
                  named == {i \in Indices : buffers[i].file # Scratch}
              IN  /\ installed' = installed \cup {l}
                  /\ Started(reloaded, named, installed')
                  /\ buffers' = InitialisedAll(reloaded, named, installed')
                  /\ UNCHANGED shown

\* A frame: what is shown asks for its tree, finished edits are confirmed, and
\* all but the newest of the trees that are off screen go.
Frame ==
  LET asks == {i \in shown : Lang[buffers[i].file] # None}
      painted == InitialisedAll(buffers, asks, installed)
      confirmed == [i \in Indices |-> Confirmed(painted[i])]
      holders == {i \in Indices : confirmed[i].tree # None}
      spare == IF Cardinality(holders \cap shown) >= Budget THEN 0
               ELSE Budget - Cardinality(holders \cap shown)
  IN  /\ UNCHANGED <<shown, installed>>
      /\ Started(buffers, asks, installed)
      /\ \E kept \in SUBSET (holders \ shown) :
           /\ Cardinality(kept) <= spare
           /\ Cardinality(kept) < spare => kept = holders \ shown
           /\ buffers' = [i \in Indices |-> IF i \in holders \ (shown \cup kept)
                                            THEN Evicted(confirmed[i]) ELSE confirmed[i]]

\* install_finished_parses() takes the result for a buffer.
Takes(job) == /\ job.index \in Indices
              /\ buffers[job.index].pending
              /\ buffers[job.index].lang = job.lang

\* install_finished_parses(), for one result: it depends on the copy of the text
\* alone, so when the thread got it does not matter.
Land == \E job \in jobs :
          /\ jobs' = jobs \ {job}
          /\ buffers' \in IF ~Takes(job) THEN {buffers}
                          ELSE {[buffers EXCEPT ![job.index] = Landed(@, job)]} \cup
                               (IF MayFail THEN {[buffers EXCEPT ![job.index] = LandedFailed(@)]}
                                ELSE {})
          /\ UNCHANGED <<shown, installed>>

Commands == \/ \E f \in Files, t \in Texts : Open(f, t)
            \/ Open(Scratch, Empty)
            \/ \E S \in Shows(Len(buffers)) : Show(S)
            \/ \E i \in Indices : Close(i) \/ Query(i) \/ FormattedNothing(i)
            \/ \E i \in Indices, u \in Texts :
                 \/ \E replaced \in BOOLEAN : Edit(i, FALSE, None, u, replaced)
                 \/ \E t \in Texts \cup {None} : Edit(i, TRUE, t, u, FALSE)
            \/ \E i \in Indices, f \in Files : Name(i, f)
            \/ \E l \in Languages : Install(l)
            \/ OpenWorkspace \/ Reload

Next == Commands \/ Frame \/ Land

Spec == Init /\ [][Next]_vars

-----------------------------------------------------------------------------
\* The variables have their types, and what is shown exists.
TypeOK == /\ buffers \in Seq(Buffers) /\ Len(buffers) \in 1..MaxBuffers
          /\ shown \in Shows(Len(buffers))
          /\ jobs \subseteq Jobs
          /\ installed \subseteq Languages

\* What the painter relies on: a tree in sync is a tree of the text, through
\* announced edits, queries inside a command, results of parses that come late or
\* for a buffer that has moved, reloads and evictions.
InSyncMeansMatching ==
  \A i \in Indices : buffers[i].synced /\ buffers[i].tree # None => buffers[i].tree = buffers[i].text

\* The repair starts from the text the tree was parsed from, whoever took the
\* snapshot (ts_begin_edit, an earlier repair, a result of the background), so no
\* tree is ever edited by a difference that is not its own.
RepairStartsFromTheTree ==
  \A i \in Indices : /\ buffers[i].tree # Garbage
                     /\ buffers[i].base # None /\ buffers[i].tree # None
                          => buffers[i].base = buffers[i].tree

\* A buffer that waits for a background parse holds neither parser nor tree: the
\* result that is installed replaces nothing that would be lost without being freed.
PendingHoldsNothing ==
  \A i \in Indices : buffers[i].pending => ~buffers[i].parser /\ buffers[i].tree = None

\* The buffer waits for a result that nobody is going to deliver.
Stranded(i) ==
  buffers[i].pending /\ ~\E job \in jobs : job.index = i /\ job.lang = buffers[i].lang

\* "Nothing to do until install_finished_parses hands the tree back": a buffer that
\* waits has a parse out that it will take.
NoBufferWaitsForever == \A i \in Indices : ~Stranded(i)

\* Only a close, a reload or an installed grammar strands a buffer: no edit,
\* frame, eviction, rename or result, whoever else's it is, leaves one waiting for
\* a parse that is not coming.
OnlyMovesStrand ==
  [][ \/ \A i \in DOMAIN buffers' : Stranded(i)' => i \in Indices /\ Stranded(i)
      \/ Reload \/ (\E i \in Indices : Close(i)) \/ (\E l \in Languages : Install(l)) ]_vars
=============================================================================
