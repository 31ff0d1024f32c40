------------------------------ MODULE GitStatus ------------------------------
(***************************************************************************)
(* The git status the editor shows (src/src/git/git.cpp): polled every     *)
(* 1.5 s and asked for after everything that may change it, computed by    *)
(* git commands on the task queue, one refresh at a time.  A refresh first *)
(* digests the status text; a digest equal to the one the shown status was *)
(* built from ends it there (src/src/git/git_run.h).                       *)
(*                                                                         *)
(* The repositories change when they like: the commands of one refresh may *)
(* each see another state.  Any command may fail.                          *)
(***************************************************************************)
CONSTANTS Roots,     \* folders that may be opened
          Statuses,  \* what git status says of a repository
          Empty,     \* what no text at all is parsed to: that of a clean tree
          NoRepo,    \* the folder is not in a repository
          None,      \* no refresh, no digest, nothing shown
          MayFail    \* git may fail after it found the repository

ASSUME EmptyAssumption == Empty \in Statuses /\ NoRepo \notin Statuses
ASSUME MayFailAssumption == MayFail \in BOOLEAN

\* Whether a command went well.
Outcomes == IF MayFail THEN BOOLEAN ELSE {TRUE}

VARIABLES
  repo,      \* what git would say of each folder now
  hint,      \* the folder asked about: the workspace, or root_dir
  queued,    \* task_queue_ exists
  running,   \* running: the editor is not shutting down
  recent,    \* less than 1500 ms since git_last_refresh_ms
  shown,     \* git_root and all that was parsed
  snapshot,  \* git_status_snapshot
  job        \* the refresh in flight, git_refresh_pending_

gitVars == <<repo, hint, queued, running, recent, shown, snapshot, job>>

Reading == [root: Roots, status: Statuses]
ASSUME NoneAssumption == None \notin Reading
Refreshes == [root: Roots, previous: Reading \cup {None},
              step: {"asked", "digested", "failed", "unchanged", "parsed"},
              digest: Reading \cup {None}, status: Statuses]

-----------------------------------------------------------------------------
\* status_snapshot_matches() on a digest that is not seeded with the root.
MatchesUnseeded(previous, digest) ==
  previous # None /\ digest # None /\ previous.status = digest.status

\* status_snapshot_matches(): a digest that failed matches nothing.
Matches(previous, digest) == previous # None /\ digest = previous

\* rev-parse, then the digest of the status text; None when git failed.
Digested(j, ok) ==
  LET d == IF ok THEN [root |-> j.root, status |-> repo[j.root]] ELSE None
  IN IF repo[j.root] = NoRepo THEN [j EXCEPT !.step = "failed"]
     ELSE IF Matches(j.previous, d) THEN [j EXCEPT !.step = "unchanged", !.digest = d]
     ELSE [j EXCEPT !.step = "digested", !.digest = d]

\* The status text is captured once more, and what came of it is parsed.
Parsed(j, ok) ==
  [j EXCEPT !.step = "parsed",
            !.status = IF ok /\ repo[j.root] # NoRepo THEN repo[j.root] ELSE Empty]

\* A refresh of the folder, to be compared with what is shown.
Asked == [root |-> hint, previous |-> snapshot, step |-> "asked", digest |-> None,
          status |-> Empty]

\* clear_git_status() without its last line.
ClearedButSnapshot == shown' = None /\ UNCHANGED snapshot

\* clear_git_status(): nothing to compare with either.
Cleared == shown' = None /\ snapshot' = None

\* What a result that came back does.
Installed(j) ==
  CASE j.step = "unchanged" -> UNCHANGED <<shown, snapshot>>
    [] j.step = "failed" -> IF shown # None THEN Cleared ELSE UNCHANGED <<shown, snapshot>>
    [] j.step = "parsed" -> /\ shown' = [root |-> j.root, status |-> j.status]
                            /\ snapshot' = j.digest

-----------------------------------------------------------------------------
GitInit == /\ repo \in [Roots -> {Empty, NoRepo}]
           /\ hint \in Roots
           /\ queued = FALSE
           /\ running = TRUE
           /\ recent = FALSE
           /\ shown = None
           /\ snapshot = None
           /\ job = None

\* git, or anything else that touches the working tree.
Change(r, s) == /\ running
                /\ repo[r] # s
                /\ repo' = [repo EXCEPT ![r] = s]
                /\ UNCHANGED <<hint, queued, running, recent, shown, snapshot, job>>

\* refresh_git_status() for a folder: not while one is in flight; before the
\* queue exists it runs the commands at once.
Refresh(force, folder) ==
  IF job # None \/ (recent /\ ~force)
  THEN UNCHANGED <<recent, shown, snapshot, job>>
  ELSE /\ recent' = TRUE
       /\ LET j == [Asked EXCEPT !.root = folder]
          IN IF queued
             THEN job' = j /\ UNCHANGED <<shown, snapshot>>
             ELSE /\ UNCHANGED job
                  /\ \E ok \in Outcomes :
                       LET d == Digested(j, ok)
                       IN IF d.step = "digested"
                          THEN \E again \in Outcomes : Installed(Parsed(d, again))
                          ELSE Installed(d)

\* After a save, a git command of the editor, a file operation, ...
Forced == /\ running
          /\ Refresh(TRUE, hint)
          /\ UNCHANGED <<repo, hint, queued, running>>

\* The timer of 1500 ms.
TimerRefresh == /\ running
                /\ queued
                /\ job = None
                /\ ~recent
                /\ Refresh(FALSE, hint)
                /\ UNCHANGED <<repo, hint, queued, running>>

\* 1500 ms pass.
Elapse == /\ running
          /\ recent
          /\ recent' = FALSE
          /\ UNCHANGED <<repo, hint, queued, running, shown, snapshot, job>>

\* open_workspace(): a forced refresh, and no word of the old status.
RefreshWorkspace(r) == /\ running
                       /\ hint' = r
                       /\ Refresh(TRUE, r)
                       /\ UNCHANGED <<repo, queued, running>>

\* Editor::run() makes the queue and the timer.
RunLoop == /\ running
           /\ ~queued
           /\ queued' = TRUE
           /\ UNCHANGED <<repo, hint, running, recent, shown, snapshot, job>>

\* The first pass of run_git_commands() on a worker.
Digest(ok) == /\ job # None /\ job.step = "asked"
              /\ job' = Digested(job, ok)
              /\ UNCHANGED <<repo, hint, queued, running, recent, shown, snapshot>>

\* The second pass.
Parse(ok) == /\ job # None /\ job.step = "digested"
             /\ job' = Parsed(job, ok)
             /\ UNCHANGED <<repo, hint, queued, running, recent, shown, snapshot>>

\* The completion on the main thread.
Land == /\ job # None /\ job.step \in {"failed", "unchanged", "parsed"}
        /\ job' = None
        /\ IF running THEN Installed(job) ELSE UNCHANGED <<shown, snapshot>>
        /\ UNCHANGED <<repo, hint, queued, running, recent>>

\* The editor shuts down with a refresh in flight or none.
ShutDown == /\ running
            /\ running' = FALSE
            /\ UNCHANGED <<repo, hint, queued, recent, shown, snapshot, job>>

GitNext == \/ \E r \in Roots, s \in Statuses \cup {NoRepo} : Change(r, s)
           \/ \E r \in Roots : RefreshWorkspace(r)
           \/ \E ok \in Outcomes : Digest(ok) \/ Parse(ok)
           \/ Forced \/ TimerRefresh \/ Elapse \/ RunLoop \/ Land \/ ShutDown

GitSpec == GitInit /\ [][GitNext]_gitVars

\* The loop starts, time passes, the timer fires, the worker and the loop go on,
\* and a command that is run again and again succeeds again and again.
GitFairness == /\ WF_gitVars(RunLoop) /\ WF_gitVars(Elapse) /\ WF_gitVars(TimerRefresh)
               /\ WF_gitVars(Land)
               /\ WF_gitVars(\E ok \in Outcomes : Digest(ok)) /\ SF_gitVars(Digest(TRUE))
               /\ WF_gitVars(\E ok \in Outcomes : Parse(ok)) /\ SF_gitVars(Parse(TRUE))

GitFairSpec == GitSpec /\ GitFairness

-----------------------------------------------------------------------------
\* The variables have their types.
GitTypeOK == /\ repo \in [Roots -> Statuses \cup {NoRepo}]
             /\ hint \in Roots
             /\ {queued, running, recent} \subseteq BOOLEAN
             /\ shown \in Reading \cup {None}
             /\ snapshot \in Reading \cup {None}
             /\ job \in Refreshes \cup {None}

\* What a refresh is compared with always belongs to the status on screen: no
\* clearing, failure or switch of folder leaves a digest whose status is gone,
\* and the copy the worker was given is still the snapshot when it lands.
SnapshotIsOfTheShown ==
  /\ snapshot # None => shown # None /\ shown.root = snapshot.root
  /\ job # None => job.previous = snapshot

\* The shown status was parsed from another text than the digest kept for it:
\* the repository changed, or git failed, between the two passes.
Torn == snapshot # None /\ snapshot # shown

Right == IF repo[hint] = NoRepo THEN shown = None
         ELSE shown = [root |-> hint, status |-> repo[hint]]

\* Neither a forced refresh dropped because one was in flight, nor the result of
\* one that was for the folder before, is the last word: once the workspace and
\* the repositories are left alone, the right status is shown again and again,
\* unless the one shown is torn.
StatusCatchesUp ==
  <>[][UNCHANGED <<repo, hint>>]_gitVars => []<>(Right \/ Torn \/ ~running)

-----------------------------------------------------------------------------
\* run_git_commands() says of a status that changes between its two passes that
\* it is "never skipped on stale text".
NeverSkippedOnStaleText ==
  job # None /\ job.step = "unchanged" => shown.status = job.digest.status
=============================================================================
