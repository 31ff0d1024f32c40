----------------------------- MODULE AsyncTasks -----------------------------
(***************************************************************************)
(* What the editor relies on when it hands a job to the background: the    *)
(* contract of TaskQueue (src/src/base/task_queue.h) with no threads,      *)
(* locks, condition variables or event-loop queues in it.  A job is        *)
(* accepted while the queue is open, jobs start in the order they were     *)
(* accepted, each at most once, and the completion of a job that has one   *)
(* runs at most once and only after its work.  Closing the queue discards  *)
(* the jobs that have not started.                                         *)
(***************************************************************************)
EXTENDS Sequences

CONSTANTS Tasks,    \* the jobs, each submitted at most once
          Silent    \* those of them submitted without a completion callback

VARIABLES asked,    \* jobs submit() was called with
          waiting,  \* accepted jobs that have not started, oldest first
          running,  \* jobs whose work is in progress
          landed,   \* jobs whose work is over and whose completion is due
          done,     \* jobs whose completion has run
          open      \* jobs are still accepted and started

vars == <<asked, waiting, running, landed, done, open>>

Init == /\ asked = {}
        /\ waiting = <<>>
        /\ running = {}
        /\ landed = {}
        /\ done = {}
        /\ open = TRUE

\* A job is accepted, or turned away once the queue is closed.
Submit(t) == /\ t \notin asked
             /\ asked' = asked \cup {t}
             /\ waiting' = IF open THEN Append(waiting, t) ELSE waiting
             /\ UNCHANGED <<running, landed, done, open>>

\* The oldest accepted job starts.
Start == /\ open
         /\ waiting # <<>>
         /\ waiting' = Tail(waiting)
         /\ running' = running \cup {Head(waiting)}
         /\ UNCHANGED <<asked, landed, done, open>>

\* The work of a job ends; its completion, if it has one, is now due.
Finish(t) == /\ t \in running
             /\ running' = running \ {t}
             /\ landed' = landed \cup ({t} \ Silent)
             /\ UNCHANGED <<asked, waiting, done, open>>

\* The completion of a job runs.
Complete(t) == /\ t \in landed
               /\ landed' = landed \ {t}
               /\ done' = done \cup {t}
               /\ UNCHANGED <<asked, waiting, running, open>>

\* From now on no job is accepted and none starts.
Close == /\ open
         /\ open' = FALSE
         /\ UNCHANGED <<asked, waiting, running, landed, done>>

\* The jobs that had not started are thrown away.
Discard == /\ ~open
           /\ waiting' = <<>>
           /\ UNCHANGED <<asked, running, landed, done, open>>

\* Completions still due when everything is torn down never run; by then no
\* work is in progress any more.
TearDown == /\ ~open
            /\ waiting = <<>>
            /\ running = {}
            /\ landed' = {}
            /\ UNCHANGED <<asked, waiting, running, done, open>>

Next == \/ \E t \in Tasks : Submit(t) \/ Finish(t) \/ Complete(t)
        \/ Start \/ Close \/ Discard \/ TearDown

Spec == Init /\ [][Next]_vars
=============================================================================
