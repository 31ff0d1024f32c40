------------------------------ MODULE Document ------------------------------
(***************************************************************************)
(* The text of the open files and the files themselves: what saving,       *)
(* auto-saving, formatting on save, opening, closing and reopening do to   *)
(* the text a buffer holds, to its modified flag and to the disk           *)
(* (buffers/file.cpp, buffers/auto_save.cpp, buffers/buffers.cpp).         *)
(*                                                                         *)
(* A file is read, and a formatter is run, by a worker; both end with a    *)
(* completion on the main thread, which may find any of the buffers        *)
(* edited, saved again, closed or shifted since.  Several workers run such *)
(* jobs, so their completions come in any order.                           *)
(*                                                                         *)
(* A text is the number of the edit that produced it and the form that     *)
(* edit's text is in: as typed, after the clean-up of a save (trailing     *)
(* spaces, indentation), or after the formatter.  Every edit leaves        *)
(* something for the clean-up; what the formatter wrote needs none.  Undo  *)
(* is the set of texts the buffer can go back to (see UndoTree); closing   *)
(* the last buffer leaves none (its placeholder has no file).  Untitled    *)
(* buffers, `:w <name>` and files too large to be read into a buffer are   *)
(* left out.                                                               *)
(***************************************************************************)
EXTENDS Naturals, Sequences, FiniteSets, SequencesExt

CONSTANTS Files,       \* the files of the workspace
          Formatted,   \* those a formatter runs on after a save
          NoText,      \* the result of a formatter that failed
          MaxEdits,    \* bound on the edits
          MaxCommands, \* bound on the commands of a behaviour, edits among them
          MaxBuffers,  \* bound on the buffers, open or being opened
          MaxJobs,     \* bound on the jobs under way
          MaxClosed    \* kMaxClosedBufferHistory

ASSUME FilesAssumption == IsFiniteSet(Files)
ASSUME FormattedAssumption == Formatted \subseteq Files
ASSUME BoundsAssumption == /\ MaxEdits \in Nat
                           /\ MaxCommands \in Nat
                           /\ MaxBuffers \in Nat
                           /\ MaxJobs \in Nat
                           /\ MaxClosed \in Nat \ {0}

VARIABLES
  disk,     \* what every file holds
  buffers,  \* the buffer vector
  closed,   \* closed_buffer_history
  jobs,     \* the reads and the formatters under way
  due,      \* the buffers the loop that saves all of them has still to save
  edits,    \* history: the number of the last edit
  written,  \* history: the edits whose text was written to its file
  commands  \* history: how many commands were given

vars == <<disk, buffers, closed, jobs, due, edits, written, commands>>

Texts == [edit : 0..MaxEdits, form : {"typed", "clean", "formatted"}]

ASSUME NoTextAssumption == NoText \notin Texts

Original == [edit |-> 0, form |-> "typed"]

\* SaveHygiene's two passes.
Cleaned(text) == [text EXCEPT !.form = IF @ = "typed" THEN "clean" ELSE @]

\* A buffer: its path, its text, its flag, the texts it can go back to, and (a
\* history field) the text as the user's last edit left it.
Buffer(f, text, modified) ==
  [file |-> f, text |-> text, modified |-> modified, past |-> {}, typed |-> text]

\* A session that has opened every file.
Init ==
  /\ disk = [f \in Files |-> Original]
  /\ LET opened == SetToSeq(Files)
     IN  buffers = [i \in DOMAIN opened |-> Buffer(opened[i], Original, FALSE)]
  /\ closed = <<>>
  /\ jobs = <<>>
  /\ due = {}
  /\ edits = 0
  /\ written = {0}
  /\ commands = 0

\* The main thread does one thing at a time: nothing else while it saves all.
Idle == due = {}

\* The user's commands, and the timer's saves.
Command == Idle /\ commands < MaxCommands /\ commands' = commands + 1

-----------------------------------------------------------------------------
(* Jobs: a file being read ("read") or formatted ("format")                *)

Job(kind, f) == [kind |-> kind, file |-> f, stage |-> "queued", text |-> NoText]

Jobs == [kind : {"read", "format"}, file : Files,
         stage : {"queued", "busy", "rewritten", "done"}, text : Texts \cup {NoText}]

\* A worker reads the file: all of open_file()'s job, the formatter's first step.
Reads(k) ==
  /\ jobs[k].stage = "queued"
  /\ jobs' = [jobs EXCEPT ![k].text = disk[jobs[k].file],
                          ![k].stage = IF jobs[k].kind = "read" THEN "done" ELSE "busy"]
  /\ UNCHANGED <<disk, buffers, closed, due, edits, written, commands>>

\* The formatter replaces the file by what it made of the text it read.
Formats(k) ==
  /\ jobs[k].stage = "busy"
  /\ jobs' = [jobs EXCEPT ![k].stage = "rewritten"]
  /\ disk' = [disk EXCEPT ![jobs[k].file] =
                IF jobs[k].text.form = "formatted" THEN @
                ELSE [jobs[k].text EXCEPT !.form = "formatted"]]
  /\ UNCHANGED <<buffers, closed, due, edits, written, commands>>

\* Or it does not start, or rejects the text, and what it read does not matter:
\* an empty result.
FormatFails(k) ==
  /\ jobs[k].kind = "format"
  /\ jobs[k].stage = "queued"
  /\ jobs' = [jobs EXCEPT ![k].text = NoText, ![k].stage = "done"]
  /\ UNCHANGED <<disk, buffers, closed, due, edits, written, commands>>

\* After a success the worker reads the file again, whoever wrote it last.
ReadsAgain(k) ==
  /\ jobs[k].stage = "rewritten"
  /\ jobs' = [jobs EXCEPT ![k].text = disk[jobs[k].file], ![k].stage = "done"]
  /\ UNCHANGED <<disk, buffers, closed, due, edits, written, commands>>

-----------------------------------------------------------------------------
(* Saving                                                                  *)

\* The text is replaced by the editor itself, with no state saved for undo.
RewrittenOutright(b, text) == [b EXCEPT !.text = text]

\* save_state_for() and the swap of the lines; none if the text is the same.
Rewritten(b, text) ==
  IF b.text = text THEN b
  ELSE [b EXCEPT !.past = @ \cup {b.text}, !.text = text]

\* A save that does not look at what write_file_atomic() returned.
SavedUnchecked(i, ok) ==
  LET b == Rewritten(buffers[i], Cleaned(buffers[i].text))
  IN  /\ buffers' = [buffers EXCEPT ![i] = [b EXCEPT !.modified = FALSE]]
      /\ disk' = IF ok THEN [disk EXCEPT ![b.file] = b.text] ELSE disk
      /\ written' = IF ok THEN written \cup {b.text.edit} ELSE written
      /\ jobs' = IF b.file \in Formatted THEN Append(jobs, Job("format", b.file)) ELSE jobs

\* save_buffer_at(): clean up, write, and hand the file to its formatter.  A
\* write that fails leaves the file as it was and ends the save.
Saved(i, ok) ==
  LET b == Rewritten(buffers[i], Cleaned(buffers[i].text))
  IN  IF ~ok
      THEN buffers' = [buffers EXCEPT ![i] = b] /\ UNCHANGED <<disk, written, jobs>>
      ELSE /\ buffers' = [buffers EXCEPT ![i] = [b EXCEPT !.modified = FALSE]]
           /\ disk' = [disk EXCEPT ![b.file] = b.text]
           /\ written' = written \cup {b.text.edit}
           /\ jobs' = IF b.file \in Formatted THEN Append(jobs, Job("format", b.file))
                      ELSE jobs

Save(i) ==
  /\ Command
  /\ Len(jobs) < MaxJobs
  /\ \E ok \in BOOLEAN : Saved(i, ok)
  /\ UNCHANGED <<closed, due, edits>>

Modified == {i \in DOMAIN buffers : buffers[i].modified}

\* auto_save_modified_buffers(), and saving all: the loop starts.  Workers go
\* on while it saves.
SaveModified ==
  /\ Command
  /\ due' = Modified
  /\ Len(jobs) + Cardinality(Modified) <= MaxJobs
  /\ UNCHANGED <<disk, buffers, closed, jobs, edits, written>>

\* One buffer after the other, going on after a failure.
SaveNext(i) ==
  /\ i \in due /\ \A j \in due : i <= j
  /\ \E ok \in BOOLEAN : Saved(i, ok)
  /\ due' = due \ {i}
  /\ UNCHANGED <<closed, edits, commands>>

\* The first buffer instead of the one with the path.
ForItsFileFirst(job) == 1

\* The buffer the completion looks up by its path, 0 if it was closed.
ForItsFile(job) ==
  SelectInSeq(buffers, LAMBDA b : b.file = job.file)

\* The completion of a formatter: whatever the buffer holds by now gives way to
\* what was read back, and the buffer counts as saved.
LandFormat(k) ==
  LET i == ForItsFile(jobs[k])
      text == jobs[k].text
  IN  /\ Idle
      /\ jobs[k].kind = "format" /\ jobs[k].stage = "done"
      /\ jobs' = RemoveAt(jobs, k)
      /\ buffers' =
           IF i \notin DOMAIN buffers THEN buffers
           ELSE [buffers EXCEPT ![i] =
                   [(IF text = NoText THEN @ ELSE Rewritten(@, text))
                      EXCEPT !.modified = FALSE]]
      /\ UNCHANGED <<disk, closed, due, edits, written, commands>>

-----------------------------------------------------------------------------
(* Opening, editing, closing                                               *)

Room == /\ Len(buffers) + Len(SelectSeq(jobs, LAMBDA j : j.kind = "read")) < MaxBuffers
        /\ Len(jobs) < MaxJobs

\* open_file() of a file no buffer has; a second call may come before the first
\* is answered.
OpenFile(f) ==
  /\ Command
  /\ \A i \in DOMAIN buffers : buffers[i].file # f
  /\ Room
  /\ jobs' = Append(jobs, Job("read", f))
  /\ UNCHANGED <<disk, buffers, closed, due, edits, written>>

\* finish_open_file()
LandOpen(k) ==
  /\ Idle
  /\ jobs[k].kind = "read" /\ jobs[k].stage = "done"
  /\ jobs' = RemoveAt(jobs, k)
  /\ buffers' = Append(buffers, Buffer(jobs[k].file, jobs[k].text, FALSE))
  /\ UNCHANGED <<disk, closed, due, edits, written, commands>>

\* Any editing command, after its save_state().
Edit(i) ==
  LET text == [edit |-> edits + 1, form |-> "typed"]
  IN  /\ Command
      /\ edits < MaxEdits
      /\ edits' = edits + 1
      /\ buffers' = [buffers EXCEPT ![i] =
                       [Rewritten(@, text) EXCEPT !.modified = TRUE, !.typed = text]]
      /\ UNCHANGED <<disk, closed, jobs, due, written>>

\* close_buffer_at(): nothing is asked, the text goes to the history.
Close(i) ==
  /\ Command
  /\ closed' = Append(IF Len(closed) >= MaxClosed THEN Tail(closed) ELSE closed,
                      Buffer(buffers[i].file, buffers[i].text, buffers[i].modified))
  /\ buffers' = RemoveAt(buffers, i)
  /\ UNCHANGED <<disk, jobs, due, edits, written>>

\* reopen_last_closed_buffer(): the text it had, not what the file holds.
Reopen ==
  /\ Command
  /\ closed # <<>>
  /\ Room
  /\ buffers' = Append(buffers, Last(closed))
  /\ closed' = SubSeq(closed, 1, Len(closed) - 1)
  /\ UNCHANGED <<disk, jobs, due, edits, written>>

-----------------------------------------------------------------------------
Work(k) == Reads(k) \/ Formats(k) \/ FormatFails(k) \/ ReadsAgain(k)

Land(k) == LandFormat(k) \/ LandOpen(k)

Next ==
  \/ \E k \in DOMAIN jobs : Work(k) \/ Land(k)
  \/ \E i \in DOMAIN buffers : Edit(i) \/ Save(i) \/ Close(i) \/ SaveNext(i)
  \/ \E f \in Files : OpenFile(f)
  \/ SaveModified \/ Reopen

Spec == Init /\ [][Next]_vars

-----------------------------------------------------------------------------
BufferOK(b) == /\ b.file \in Files
               /\ b.text \in Texts
               /\ b.typed \in Texts
               /\ b.modified \in BOOLEAN
               /\ b.past \subseteq Texts

TypeOK ==
  /\ disk \in [Files -> Texts]
  /\ \A i \in DOMAIN buffers : BufferOK(buffers[i])
  /\ \A i \in DOMAIN closed : BufferOK(closed[i])
  /\ Len(buffers) <= MaxBuffers /\ Len(closed) <= MaxClosed
  /\ jobs \in Seq(Jobs) /\ Len(jobs) <= MaxJobs
  /\ \A k \in DOMAIN jobs : jobs[k].stage = "rewritten" => jobs[k].text # NoText
  /\ due \subseteq DOMAIN buffers
  /\ edits \in 0..MaxEdits
  /\ commands \in 0..MaxCommands
  /\ written \subseteq 0..edits

\* The text the user's last edit left in a buffer is what the buffer holds or
\* what an undo brings back, whatever clean-up and formatter came over it since,
\* and however late a formatter's result was.
NothingTypedIsLost ==
  \A i \in DOMAIN buffers :
    buffers[i].typed \in buffers[i].past \cup {buffers[i].text}

\* Reading a clean buffer as saved is right for a file without a formatter: the
\* edit it shows reached the disk, through failed writes, auto-saves, closing
\* and reopening, and a second buffer of the same file.
CleanMeansSavedIfPlain ==
  \A i \in DOMAIN buffers :
    buffers[i].file \notin Formatted /\ ~buffers[i].modified
      => buffers[i].text.edit \in written

\* A formatter's result changes no buffer but one of the file it was run on,
\* though buffers were closed and opened while it ran; nor does it take the
\* unsaved mark from another.
LandingKeepsOtherFiles ==
  [][\A k \in DOMAIN jobs : LandFormat(k) =>
       \A i \in DOMAIN buffers :
         buffers[i].file # jobs[k].file => buffers'[i] = buffers[i]]_vars

-----------------------------------------------------------------------------
(* What a comment says and the code does not do                            *)

\* "any unsaved edits would be lost, so the restart waits until the user saved"
\* (restart_editor): when no buffer reads as modified, which is all that
\* restart_editor() and :q look at, every edit on screen has reached the disk.
CleanMeansSaved ==
  (\A i \in DOMAIN buffers : ~buffers[i].modified)
    => \A i \in DOMAIN buffers : buffers[i].text.edit \in written
=============================================================================
