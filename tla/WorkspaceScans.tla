--------------------------- MODULE WorkspaceScans ---------------------------
(***************************************************************************)
(* The two walks of the workspace that run on the task queue: the C++      *)
(* definition checks (src/src/commands/cpp_definitions.cpp) and the index  *)
(* of class names and custom properties (src/src/extras/web_index.cpp).    *)
(* Both keep one scan in flight, remember that another is wanted, and drop *)
(* a result that no longer belongs: a root, an epoch and a flag each.      *)
(*                                                                         *)
(* A workspace is one source file: what it holds on disk, and what the     *)
(* editor holds of it that is not saved.  Its text stands for the          *)
(* declarations in it (signature_of), and what a scan publishes for the    *)
(* text it read.  What is left out is what the editor does with findings   *)
(* besides keeping them: cpp_defs_announce and cpp_defs_pending_jump only  *)
(* say whether to open their list, and to jump, when they arrive.          *)
(*                                                                         *)
(* A save asks for both scans, but not at once when the file has a         *)
(* formatter on save: the completion of the formatter asks for them, and   *)
(* only if the file is still open then (src/src/buffers/file.cpp).         *)
(***************************************************************************)
EXTENDS Naturals, Sequences, SequencesExt

CONSTANTS Workspaces, \* the directories that can be opened as a workspace
          Launched,   \* the one the editor was started in
          Dot,        \* what root_dir calls that one until a tree is loaded
          Texts,      \* contents of the source file
          Clean,      \* no unsaved text
          Unread,     \* the scan has not read the file yet
          Nothing,    \* no result published
          Other,      \* any file of the workspace that is no source file
          MaxEdits,   \* bound: edits of the buffer
          MaxFormatters \* bound: formatters that are out

ASSUME WorkspacesAssumption == Launched \in Workspaces /\ Dot \notin Workspaces
ASSUME OtherAssumption == Other \notin Workspaces
ASSUME BoundsAssumption == Texts # {} /\ MaxEdits \in Nat /\ MaxFormatters \in Nat

VARIABLES
  workspace, \* root_dir
  disk,      \* the source file of each folder, on disk
  typed,     \* the unsaved text of its buffer, Clean when it is not modified
  edits,     \* edit_generation of the buffer
  enabled,   \* cpp_defs_enabled
  up,        \* run() has made task_queue_ and its timers
  alive,     \* running: the editor is not shutting down
  formatting, \* the formatters that saves have started, in the order of the saves
  defs,      \* CppDefsState
  web        \* the same bookkeeping of the index

vars == <<workspace, disk, typed, edits, enabled, up, alive, formatting, defs, web>>

Names == Workspaces \cup {Dot}
Folder(name) == IF name = Dot THEN Launched ELSE name
Unsaved == Texts \cup {Clean}
Formatters == [file: Workspaces \cup {Other}, done: BOOLEAN]
Jobs == [root: Names, unsaved: Unsaved, read: Texts \cup {Unread}, newest: BOOLEAN]
Results == [folder: Workspaces, text: Texts] \cup {Nothing}
Books == [running: BOOLEAN, pending: BOOLEAN, jobs: SUBSET Jobs, shown: Results,
          lost: BOOLEAN]
DefsBooks == [running: BOOLEAN, pending: BOOLEAN, jobs: SUBSET Jobs, shown: Results,
              lost: BOOLEAN, signature: Unsaved, revision: 0..MaxEdits]

Idle == [running |-> FALSE, pending |-> FALSE, jobs |-> {}, shown |-> Nothing,
         lost |-> TRUE]
IdleDefs == [running |-> FALSE, pending |-> FALSE, jobs |-> {}, shown |-> Nothing,
             lost |-> TRUE, signature |-> Clean, revision |-> 0]

-----------------------------------------------------------------------------
(* The bookkeeping of a scan.  The epoch a job was given is out of date as *)
(* soon as another job is submitted.  "lost" is no field of the code: no   *)
(* scan has been submitted since the editor started, or since a result was *)
(* dropped with nothing submitted in its place, or a formatter was done    *)
(* with a file that had been closed.                                       *)

\* A job that will read the unsaved texts it was given, and the disk for the rest.
Submitted(b, r, unsaved) ==
  [b EXCEPT !.running = TRUE,
            !.lost = FALSE,
            !.jobs = {[j EXCEPT !.newest = FALSE] : j \in @}
                     \cup {[root |-> r, unsaved |-> unsaved, read |-> Unread,
                            newest |-> TRUE]}]

\* A request does not look whether a scan is running.
WantedAtOnce(b, r, queue, unsaved) ==
  IF ~queue THEN [b EXCEPT !.pending = TRUE] ELSE Submitted(b, r, unsaved)

\* One scan at a time, and none before the queue exists: the request is kept.
Wanted(b, r, queue, unsaved) ==
  IF b.running \/ ~queue THEN [b EXCEPT !.pending = TRUE] ELSE Submitted(b, r, unsaved)

\* A result is taken whatever workspace it was started for.
BelongsAnywhere(j, r) == alive /\ j.newest

\* A result belongs if nothing it was started for has moved on.
Belongs(j, r) == alive /\ j.root = r /\ j.newest

\* The job is over and another one may start.
Landed(b, j) == [b EXCEPT !.jobs = @ \ {j}, !.running = FALSE]

\* The result is dropped, and nothing is submitted in its place.
Dropped(b) == [b EXCEPT !.lost = TRUE]

Published(b, j) == [b EXCEPT !.shown = [folder |-> Folder(j.root), text |-> j.read]]

-----------------------------------------------------------------------------
(* request_cpp_definitions_scan() and clear_cpp_definitions(), with the    *)
(* editor's root, text and switch given.                                   *)

DefsWanted(b, r, on, queue, text) ==
  IF on THEN Wanted([b EXCEPT !.signature = text], r, queue, text) ELSE b

DefsCleared(b) ==
  [b EXCEPT !.signature = Clean, !.revision = 0, !.pending = FALSE, !.shown = Nothing]

\* A wish that came while the scan ran is dropped with it.
DefsAgainForgets(b) == [b EXCEPT !.pending = FALSE]

\* A scan that was wanted meanwhile, by a save or because the queue was not there.
DefsAgain(b) ==
  IF b.pending
  THEN DefsWanted([b EXCEPT !.pending = FALSE], workspace, enabled, TRUE, typed)
  ELSE b

WebWanted(b, r, queue) == Wanted(b, r, queue, Clean)

\* A wish that came while the scan ran is dropped with it.
WebAgainForgets(b) == [b EXCEPT !.pending = FALSE]

WebAgain(b) == IF b.pending THEN WebWanted([b EXCEPT !.pending = FALSE], workspace, TRUE) ELSE b

-----------------------------------------------------------------------------
\* The setting can be off from the start; the queue comes with run().  Which text
\* the files have at first does not matter: nothing tells one from another.
Init == /\ workspace = Dot
        /\ disk = [f \in Workspaces |-> CHOOSE t \in Texts : TRUE]
        /\ typed = Clean
        /\ edits = 0
        /\ enabled \in BOOLEAN
        /\ up = FALSE
        /\ alive = TRUE
        /\ formatting = <<>>
        /\ defs = IdleDefs
        /\ web = Idle

\* open_workspace(): the buffers go, the findings go, both scans are asked for.
OpenWorkspace(r) ==
  /\ alive
  /\ workspace' = r
  /\ typed' = Clean
  /\ defs' = DefsWanted(DefsCleared(defs), r, enabled, up, Clean)
  /\ web' = WebWanted(web, r, up)
  /\ UNCHANGED <<disk, edits, enabled, up, alive, formatting>>

\* load_file_tree(root_dir), as for the explorer: "." becomes the full path.
LoadTree == /\ alive
            /\ workspace = Dot
            /\ workspace' = Launched
            /\ UNCHANGED <<disk, typed, edits, enabled, up, alive, formatting, defs, web>>

\* run() starts what was asked for before there was a queue.
Run == /\ alive
       /\ ~up
       /\ up' = TRUE
       /\ defs' = DefsAgain(defs)
       /\ web' = WebAgain(web)
       /\ UNCHANGED <<workspace, disk, typed, edits, enabled, alive, formatting>>

\* An edit of the source file, perhaps back to a text it had.
Edit(t) == /\ alive
           /\ up
           /\ edits < MaxEdits
           /\ typed' = t
           /\ edits' = edits + 1
           /\ UNCHANGED <<workspace, disk, enabled, up, alive, formatting, defs, web>>

\* The buffer is undone to what was saved, or closed without saving.
Discard == /\ alive
           /\ typed # Clean
           /\ typed' = Clean
           /\ UNCHANGED <<workspace, disk, edits, enabled, up, alive, formatting, defs, web>>

\* What a save asks for in the end.
ScansAfterSave(text) ==
  /\ defs' = DefsWanted(defs, workspace, enabled, up, text)
  /\ web' = WebWanted(web, workspace, up)

\* The bytes are on disk: the scans are asked for, or a formatter is started
\* that will ask for them.
EndSave(file, text) ==
  \/ /\ ScansAfterSave(text)
     /\ UNCHANGED formatting
  \/ /\ Len(formatting) < MaxFormatters
     /\ formatting' = Append(formatting, [file |-> file, done |-> FALSE])
     /\ UNCHANGED <<defs, web>>

\* The source file is saved.
Save == /\ alive
        /\ typed # Clean
        /\ disk' = [disk EXCEPT ![Folder(workspace)] = typed]
        /\ typed' = Clean
        /\ EndSave(Folder(workspace), Clean)
        /\ UNCHANGED <<workspace, edits, enabled, up, alive>>

\* Another file of the workspace is saved.
SaveOther == /\ alive
             /\ up
             /\ EndSave(Other, typed)
             /\ UNCHANGED <<workspace, disk, typed, edits, enabled, up, alive>>

\* The formatter runs on a worker.  It rewrites its file, or fails.
Format(k) ==
  LET file == formatting[k].file
  IN /\ ~formatting[k].done
     /\ formatting' = [formatting EXCEPT ![k].done = TRUE]
     /\ \/ disk' = disk
        \/ file # Other /\ \E t \in Texts : disk' = [disk EXCEPT ![file] = t]
     /\ UNCHANGED <<workspace, typed, edits, enabled, up, alive, defs, web>>

\* Its completion finds the buffer, whatever was typed in it meanwhile: the
\* buffer counts as saved, and the scans are asked for.
LandFormat(k) ==
  LET file == formatting[k].file
  IN /\ alive
     /\ formatting[k].done
     /\ formatting' = RemoveAt(formatting, k)
     /\ typed' = IF file = Folder(workspace) THEN Clean ELSE typed
     /\ ScansAfterSave(typed')
     /\ UNCHANGED <<workspace, disk, edits, enabled, up, alive>>

\* Or the file has been closed, or the editor shuts down: nothing is asked for.
FormatTooLate(k) ==
  /\ formatting[k].done
  /\ alive => typed = Clean \/ formatting[k].file # Folder(workspace)
  /\ formatting' = RemoveAt(formatting, k)
  /\ defs' = Dropped(defs)
  /\ web' = Dropped(web)
  /\ UNCHANGED <<workspace, disk, typed, edits, enabled, up, alive>>

\* :cppcheck, and :cppcheck next or prev while the findings are being computed.
Check == /\ alive
         /\ up
         /\ enabled
         /\ defs' = DefsWanted(defs, workspace, enabled, up, typed)
         /\ UNCHANGED <<workspace, disk, typed, edits, enabled, up, alive, formatting, web>>

\* apply_config_live() after the setting cpp_definitions changed.
Switch == /\ alive
          /\ up
          /\ enabled' = ~enabled
          /\ defs' = IF enabled' THEN DefsWanted(defs, workspace, enabled', up, typed)
                                 ELSE DefsCleared(defs)
          /\ UNCHANGED <<workspace, disk, typed, edits, up, alive, formatting, web>>

\* The generations of the modified buffers, as the timer compares them.
Revision == IF typed = Clean THEN 0 ELSE edits

\* cpp_definitions_dirty_changed() tells the 600 ms timer whether to ask for a scan.
Tick ==
  /\ alive
  /\ up
  /\ enabled
  /\ Revision # defs.revision
  /\ LET seen == [defs EXCEPT !.revision = Revision]
     IN defs' = IF typed = seen.signature
                THEN seen
                ELSE DefsWanted(seen, workspace, enabled, up, typed)
  /\ UNCHANGED <<workspace, disk, typed, edits, enabled, up, alive, formatting, web>>

\* scan_workspace() on a worker reads the file, or the text it was given for it;
\* that text is of no use to the job after that.
Read(b, j) ==
  [b EXCEPT !.jobs = (@ \ {j}) \cup
    {[j EXCEPT !.unsaved = Clean,
               !.read = IF j.unsaved # Clean THEN j.unsaved ELSE disk[Folder(j.root)]]}]

ReadDefs == /\ \E j \in defs.jobs : j.read = Unread /\ defs' = Read(defs, j)
            /\ UNCHANGED <<workspace, disk, typed, edits, enabled, up, alive, formatting, web>>

ReadWeb == /\ \E j \in web.jobs : j.read = Unread /\ web' = Read(web, j)
           /\ UNCHANGED <<workspace, disk, typed, edits, enabled, up, alive, formatting, defs>>

\* The completion on the main thread.
LandDefs ==
  /\ \E j \in defs.jobs :
       LET b == Landed(defs, j)
       IN /\ j.read # Unread
          /\ defs' = IF Belongs(j, workspace) THEN DefsAgain(Published(b, j))
                     ELSE IF alive /\ b.pending /\ j.root = workspace THEN DefsAgain(b)
                     ELSE Dropped(b)
  /\ UNCHANGED <<workspace, disk, typed, edits, enabled, up, alive, formatting, web>>

LandWeb ==
  /\ \E j \in web.jobs :
       LET b == Landed(web, j)
       IN /\ j.read # Unread
          /\ web' = IF Belongs(j, workspace) THEN WebAgain(Published(b, j))
                    ELSE IF alive /\ b.pending /\ j.root = workspace THEN WebAgain(b)
                    ELSE Dropped(b)
  /\ UNCHANGED <<workspace, disk, typed, edits, enabled, up, alive, formatting, defs>>

\* The editor shuts down; scans that are out still land.
Quit == /\ alive
        /\ alive' = FALSE
        /\ UNCHANGED <<workspace, disk, typed, edits, enabled, up, formatting, defs, web>>

Formatting(k) == Format(k) \/ LandFormat(k) \/ FormatTooLate(k)

Next == \/ \E r \in Workspaces : OpenWorkspace(r)
        \/ \E t \in Texts : Edit(t)
        \/ LoadTree \/ Run \/ Discard \/ Save \/ SaveOther \/ Check \/ Switch \/ Tick
        \/ ReadDefs \/ ReadWeb \/ LandDefs \/ LandWeb \/ Quit
        \/ \E k \in DOMAIN formatting : Formatting(k)

Spec == Init /\ [][Next]_vars

\* The editor starts its loop, the timer fires, the workers and the loop go on,
\* and a formatter comes to an end.
Fairness == /\ WF_vars(Run) /\ WF_vars(Tick)
            /\ WF_vars(ReadDefs) /\ WF_vars(ReadWeb)
            /\ WF_vars(LandDefs) /\ WF_vars(LandWeb)
            /\ WF_vars(\E k \in DOMAIN formatting : Formatting(k))

FairSpec == Spec /\ Fairness

-----------------------------------------------------------------------------
\* The variables have their types.
TypeOK == /\ workspace \in Names
          /\ disk \in [Workspaces -> Texts]
          /\ typed \in Unsaved
          /\ edits \in 0..MaxEdits
          /\ {enabled, up, alive} \subseteq BOOLEAN
          /\ formatting \in Seq(Formatters) /\ Len(formatting) <= MaxFormatters
          /\ defs \in DefsBooks
          /\ web \in Books

\* However requests and landings interleave, a walk of the tree never runs
\* beside another of its kind, and the flag says so.
OneScanAtATime == \A b \in {defs, web} : /\ \A j, k \in b.jobs : j = k
                                         /\ b.running <=> b.jobs # {}

\* Findings are of the open workspace: neither a switch nor a scan that lands
\* after one leaves those of another on screen.
FindingsOfThisWorkspace ==
  defs.shown # Nothing => defs.shown.folder = Folder(workspace)

\* The findings come up to date again and again, as far as the signature the
\* editor compares with says: an edit, a save or a request that arrives during
\* a scan is never forgotten, unless a result was dropped or the file of a
\* formatter was closed.
FindingsCatchUp ==
  []<>(\/ defs.shown # Nothing /\ defs.shown.text =
            (IF typed = Clean THEN disk[Folder(workspace)] ELSE typed)
       \/ defs.signature # typed
       \/ defs.lost \/ ~enabled \/ ~alive)

\* So does the index, whose only occasions are a save, the end of its formatter
\* and a workspace opened.
IndexCatchesUp ==
  []<>(\/ /\ web.shown # Nothing
          /\ web.shown.folder = Folder(workspace)
          /\ web.shown.text = disk[Folder(workspace)]
       \/ web.lost \/ ~alive)

-----------------------------------------------------------------------------
\* cpp_defs_state.h says of a request that arrives during a scan that "it runs
\* the moment the current one lands".  After a switch of workspace the current
\* one lands without starting it.
NoWishIsLeft == \A b \in {defs, web} : b.pending /\ up => b.running

\* FEATURES.md: turning the checks off "drops their rows again".  A scan that
\* is out when they are turned off lands and publishes.
OffMeansNoFindings == ~enabled => defs.shown = Nothing

\* "Unsaved declarations need findings too" (main_loop.cpp): what the timer
\* compares with is, again and again, what is typed.
TimerSeesEveryEdit == []<>(defs.signature = typed \/ ~enabled \/ ~alive)
=============================================================================
