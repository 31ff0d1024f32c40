------------------------------ MODULE TaskQueue ------------------------------
(***************************************************************************)
(* The background work of the editor: TaskQueue (base/task_queue.{h,cpp}), *)
(* and the half of EventLoop (base/event_loop.{h,cpp}) that brings its     *)
(* results back to the main thread: post, the uv_async wake-up and         *)
(* drain_posts.  The teardown is the one ~Editor performs: the loop is     *)
(* stopped, run() drains once more, ~TaskQueue shuts the workers down and  *)
(* only then ~EventLoop destroys the loop (member order of EngineState).   *)
(*                                                                         *)
(* Threads: the workers, each with a program counter, and the main thread, *)
(* which runs the loop, the callbacks (which may submit) and the teardown. *)
(* A critical section of pending_mutex_ and the one of submit() are single *)
(* steps; queue_mutex_ is explicit because shutdown() writes running_      *)
(* without holding it, between a worker's test and its wait.               *)
(***************************************************************************)
EXTENDS Integers, Sequences, FiniteSets

CONSTANTS Workers,     \* the worker threads
          Tasks,       \* the jobs, each submitted at most once
          Silent,      \* the jobs submitted without a completion callback
          None,        \* no thread, no job
          MaxSpurious  \* bound on the spurious wake-ups of a behaviour

ASSUME WorkersAssumption == IsFiniteSet(Workers) /\ Workers # {}
ASSUME SilentAssumption == Silent \subseteq Tasks
ASSUME NoneAssumption == None \notin Tasks /\ None \notin Workers
ASSUME MaxSpuriousAssumption == MaxSpurious \in Nat

VARIABLES
  running,   \* TaskQueue::running_, atomic, written outside the mutex
  queue,     \* task_queue_
  mutex,     \* queue_mutex_: the worker that holds it, or None
  pc,        \* where each worker is in worker_loop()
  task,      \* the worker's local `task`
  pending,   \* EventLoop::pending_posts_: completions posted, not yet taken
  async,     \* the uv_async handle has a wake-up outstanding (they coalesce)
  posts,     \* drain_posts()' local batch, what is left of it
  looping,   \* EventLoop::running_: stop() has not been called
  main,      \* where the main thread is
  notify,    \* submit() has pushed and is about to call notify_one()
  spurious,  \* spurious wake-ups so far
  calls,     \* history: the jobs submit() was called with
  done       \* history: the jobs whose completion has run

queueVars == <<running, queue>>
workerVars == <<mutex, pc, task>>
loopVars == <<pending, async, posts>>
mainVars == <<looping, main, notify>>
history == <<calls, done>>
vars == <<queueVars, workerVars, loopVars, mainVars, spurious, history>>

WorkerPC == {"lock", "check", "recheck", "sleep", "waiting",
             "work", "post", "send", "done"}
MainPC == {"loop", "swap", "drain", "final_swap", "final_drain",
           "exit", "flagged", "cleared", "joining", "stopped", "gone"}

Elements(s) == {s[i] : i \in DOMAIN s}

Init ==
  /\ running = TRUE
  /\ queue = <<>>
  /\ mutex = None
  /\ pc = [w \in Workers |-> "lock"]
  /\ task = [w \in Workers |-> None]
  /\ pending = <<>>
  /\ async = FALSE
  /\ posts = <<>>
  /\ looping = TRUE
  /\ main = "loop"
  /\ notify = FALSE
  /\ spurious = 0
  /\ calls = {}
  /\ done = {}

-----------------------------------------------------------------------------
(* worker_loop()                                                           *)

Acquire(w) ==
  /\ pc[w] = "lock"
  /\ mutex = None
  /\ mutex' = w
  /\ pc' = [pc EXCEPT ![w] = "check"]
  /\ UNCHANGED <<queueVars, task, loopVars, mainVars, spurious, history>>

\* The predicate of queue_cv_.wait(); what a notified thread tests again.
ShouldWake == ~running \/ queue # <<>>

\* cv.wait evaluates its predicate under the mutex ...
Check(w) ==
  /\ pc[w] = "check"
  /\ pc' = [pc EXCEPT ![w] = IF ShouldWake THEN "recheck" ELSE "sleep"]
  /\ UNCHANGED <<queueVars, mutex, task, loopVars, mainVars, spurious, history>>

\* ... and releases it and sleeps as one step when the predicate was false.
Wait(w) ==
  /\ pc[w] = "sleep"
  /\ pc' = [pc EXCEPT ![w] = "waiting"]
  /\ mutex' = None
  /\ UNCHANGED <<queueVars, task, loopVars, mainVars, spurious, history>>

\* A condition variable may wake a thread for no reason.
SpuriousWake(w) ==
  /\ pc[w] = "waiting"
  /\ spurious < MaxSpurious
  /\ spurious' = spurious + 1
  /\ pc' = [pc EXCEPT ![w] = "lock"]
  /\ UNCHANGED <<queueVars, mutex, task, loopVars, mainVars, history>>

\* `if (!running_) return;` reads the flag a second time, still under the
\* mutex; the local `task` is empty there.
Return(w) ==
  /\ pc[w] = "recheck"
  /\ ~running
  /\ pc' = [pc EXCEPT ![w] = "done"]
  /\ mutex' = None
  /\ UNCHANGED <<queueVars, task, loopVars, mainVars, spurious, history>>

\* The newest job first.
TakenLIFO == <<queue[Len(queue)], SubSeq(queue, 1, Len(queue) - 1)>>

\* Which job a worker takes, and what is left: front() and pop().
Taken == <<Head(queue), Tail(queue)>>

Pop(w) ==
  /\ pc[w] = "recheck"
  /\ running
  /\ task' = [task EXCEPT ![w] = Taken[1]]
  /\ queue' = Taken[2]
  /\ pc' = [pc EXCEPT ![w] = "work"]
  /\ mutex' = None
  /\ UNCHANGED <<running, loopVars, mainVars, spurious, history>>

\* task.work() returns; a job without on_complete is over.
Work(w) ==
  /\ pc[w] = "work"
  /\ IF task[w] \in Silent
     THEN /\ pc' = [pc EXCEPT ![w] = "lock"]
          /\ task' = [task EXCEPT ![w] = None]
     ELSE /\ pc' = [pc EXCEPT ![w] = "post"]
          /\ UNCHANGED task
  /\ UNCHANGED <<queueVars, mutex, loopVars, mainVars, spurious, history>>

\* EventLoop::post pushes under pending_mutex_ ...
Push(w) ==
  /\ pc[w] = "post"
  /\ pending' = Append(pending, task[w])
  /\ task' = [task EXCEPT ![w] = None]
  /\ pc' = [pc EXCEPT ![w] = "send"]
  /\ UNCHANGED <<queueVars, mutex, async, posts, mainVars, spurious, history>>

\* The wake-up is skipped while the main thread is draining anyway.
SendUnlessDraining(w) ==
  /\ pc[w] = "send"
  /\ async' = (async \/ main # "drain")
  /\ pc' = [pc EXCEPT ![w] = "lock"]
  /\ UNCHANGED <<queueVars, mutex, task, pending, posts, mainVars, spurious, history>>

\* ... and wakes the loop after releasing it.
Send(w) ==
  /\ pc[w] = "send"
  /\ async' = TRUE
  /\ pc' = [pc EXCEPT ![w] = "lock"]
  /\ UNCHANGED <<queueVars, mutex, task, pending, posts, mainVars, spurious, history>>

-----------------------------------------------------------------------------
(* Main thread: submit(), called from a callback of the running loop or    *)
(* from a completion, or after shutdown() by whoever still holds the queue *)

InCallback == main \in {"loop", "drain", "final_drain", "stopped"} /\ ~notify

\* submit() that only notifies when the queue was empty.
SubmitNotifyIfEmpty(t) ==
  /\ InCallback
  /\ t \notin calls
  /\ mutex = None
  /\ calls' = calls \cup {t}
  /\ IF running
     THEN /\ queue' = Append(queue, t)
          /\ notify' = (queue = <<>>)
     ELSE UNCHANGED <<queue, notify>>
  /\ UNCHANGED <<running, workerVars, loopVars, looping, main, spurious, done>>

\* running_ is only written by the thread that is here, so the test, the
\* push and the unlock are one step.
Submit(t) ==
  /\ InCallback
  /\ t \notin calls
  /\ mutex = None
  /\ calls' = calls \cup {t}
  /\ IF running
     THEN /\ queue' = Append(queue, t)
          /\ notify' = TRUE
     ELSE UNCHANGED <<queue, notify>>
  /\ UNCHANGED <<running, workerVars, loopVars, looping, main, spurious, done>>

Sleepers == {w \in Workers : pc[w] = "waiting"}

\* queue_cv_.notify_one(), after the mutex was released.
NotifyOne ==
  /\ notify
  /\ notify' = FALSE
  /\ IF Sleepers = {}
     THEN UNCHANGED pc
     ELSE \E w \in Sleepers : pc' = [pc EXCEPT ![w] = "lock"]
  /\ UNCHANGED <<queueVars, mutex, task, loopVars, looping, main, spurious, history>>

-----------------------------------------------------------------------------
(* Main thread: the event loop                                             *)

\* uv_run delivers the coalesced wake-up: libuv clears it, then calls back.
AsyncFire ==
  /\ main = "loop"
  /\ ~notify
  /\ async
  /\ async' = FALSE
  /\ main' = "swap"
  /\ UNCHANGED <<queueVars, workerVars, pending, posts, looping, notify, spurious, history>>

\* drain_posts() takes everything that is pending, under pending_mutex_ ...
Swap ==
  /\ main \in {"swap", "final_swap"}
  /\ posts' = pending
  /\ pending' = <<>>
  /\ main' = IF main = "swap" THEN "drain" ELSE "final_drain"
  /\ UNCHANGED <<queueVars, workerVars, async, looping, notify, spurious, history>>

\* ... and runs it, one completion after the other.
RunPost ==
  /\ main \in {"drain", "final_drain"}
  /\ ~notify
  /\ posts # <<>>
  /\ done' = done \cup {Head(posts)}
  /\ posts' = Tail(posts)
  /\ UNCHANGED <<queueVars, workerVars, pending, async, mainVars, spurious, calls>>

\* The end of a drain also forgets the wake-ups that arrived during it.
EndDrainForgets ==
  /\ main \in {"drain", "final_drain"}
  /\ ~notify
  /\ posts = <<>>
  /\ async' = FALSE
  /\ main' = IF main = "drain" THEN "loop" ELSE "exit"
  /\ UNCHANGED <<queueVars, workerVars, pending, posts, looping, notify, spurious, history>>

EndDrain ==
  /\ main \in {"drain", "final_drain"}
  /\ ~notify
  /\ posts = <<>>
  /\ main' = IF main = "drain" THEN "loop" ELSE "exit"
  /\ UNCHANGED <<queueVars, workerVars, loopVars, looping, notify, spurious, history>>

\* EventLoop::stop(), from any callback.
Stop ==
  /\ main \in {"loop", "drain"}
  /\ ~notify
  /\ looping
  /\ looping' = FALSE
  /\ UNCHANGED <<queueVars, workerVars, loopVars, main, notify, spurious, history>>

\* uv_run returns; run() drains one last time.
LeaveLoop ==
  /\ main = "loop"
  /\ ~notify
  /\ ~looping
  /\ main' = "final_swap"
  /\ UNCHANGED <<queueVars, workerVars, loopVars, looping, notify, spurious, history>>

-----------------------------------------------------------------------------
(* Main thread: ~TaskQueue() is shutdown(), then ~EventLoop()              *)

\* running_ = false, outside the mutex.
ClearRunning ==
  /\ main = "exit"
  /\ running' = FALSE
  /\ main' = "flagged"
  /\ UNCHANGED <<queue, workerVars, loopVars, looping, notify, spurious, history>>

\* The queue is swapped for an empty one without taking the mutex.
DropQueueUnlocked ==
  /\ main = "flagged"
  /\ queue' = <<>>
  /\ main' = "cleared"
  /\ UNCHANGED <<running, workerVars, loopVars, looping, notify, spurious, history>>

\* The queue is swapped for an empty one under the mutex: a worker that has
\* seen running_ true is now either asleep or out of the critical section.
DropQueue ==
  /\ main = "flagged"
  /\ mutex = None
  /\ queue' = <<>>
  /\ main' = "cleared"
  /\ UNCHANGED <<running, workerVars, loopVars, looping, notify, spurious, history>>

NotifyAll ==
  /\ main = "cleared"
  /\ pc' = [w \in Workers |-> IF pc[w] = "waiting" THEN "lock" ELSE pc[w]]
  /\ main' = "joining"
  /\ UNCHANGED <<queueVars, mutex, task, loopVars, looping, notify, spurious, history>>

\* shutdown() detaches a worker instead of joining it.
JoinAny ==
  /\ main = "joining"
  /\ \E w \in Workers : pc[w] = "done"
  /\ main' = "stopped"
  /\ UNCHANGED <<queueVars, workerVars, loopVars, looping, notify, spurious, history>>

Join ==
  /\ main = "joining"
  /\ \A w \in Workers : pc[w] = "done"
  /\ main' = "stopped"
  /\ UNCHANGED <<queueVars, workerVars, loopVars, looping, notify, spurious, history>>

\* ~EventLoop(): the posts nobody drained are destroyed with the loop.
DestroyLoop ==
  /\ main = "stopped"
  /\ main' = "gone"
  /\ pending' = <<>>
  /\ async' = FALSE
  /\ UNCHANGED <<queueVars, workerVars, posts, looping, notify, spurious, history>>

Finished == main = "gone" /\ UNCHANGED vars

-----------------------------------------------------------------------------
WorkerStep(w) ==
  \/ Acquire(w) \/ Check(w) \/ Wait(w) \/ Return(w) \/ Pop(w)
  \/ Work(w) \/ Push(w) \/ Send(w)

LoopStep == NotifyOne \/ AsyncFire \/ Swap \/ RunPost \/ EndDrain \/ LeaveLoop

ShutdownStep == ClearRunning \/ DropQueue \/ NotifyAll \/ Join \/ DestroyLoop

Next ==
  \/ \E w \in Workers : WorkerStep(w) \/ SpuriousWake(w)
  \/ \E t \in Tasks : Submit(t)
  \/ LoopStep
  \/ Stop
  \/ ShutdownStep
  \/ Finished

Spec == Init /\ [][Next]_vars

\* The operating system keeps running every thread, and a critical section
\* that becomes free for good is entered; nothing makes the user submit work
\* or quit, and nothing makes a condition variable wake up spuriously.
Fairness ==
  /\ \A w \in Workers : WF_vars(WorkerStep(w))
  /\ WF_vars(LoopStep)
  /\ WF_vars(ShutdownStep)

FairSpec == Spec /\ Fairness

-----------------------------------------------------------------------------
TypeOK ==
  /\ running \in BOOLEAN
  /\ queue \in Seq(Tasks)
  /\ mutex \in Workers \cup {None}
  /\ pc \in [Workers -> WorkerPC]
  /\ task \in [Workers -> Tasks \cup {None}]
  /\ pending \in Seq(Tasks)
  /\ async \in BOOLEAN
  /\ posts \in Seq(Tasks)
  /\ looping \in BOOLEAN
  /\ main \in MainPC
  /\ notify \in BOOLEAN
  /\ spurious \in 0..MaxSpurious
  /\ calls \subseteq Tasks
  /\ done \subseteq Tasks

\* A worker that is about to look at the queue.
Checking == {w \in Workers : pc[w] \in {"lock", "check", "recheck"}}

\* submit()'s notify_one() is enough: no worker stays asleep while an accepted
\* job is unclaimed, that is, while there are more queued jobs than workers on
\* their way to the queue and wake-ups about to be sent.
WorkConserving ==
  running /\ Sleepers # {} =>
    Len(queue) <= Cardinality(Checking) + (IF notify THEN 1 ELSE 0)

\* The mutex taken in shutdown() between clearing running_ and notify_all() is
\* what keeps a worker that read running_ before it was cleared from falling
\* asleep afterwards: while shutdown() joins, nobody sleeps or is about to.
NoSleeperAtJoin ==
  main \in {"joining", "stopped", "gone"} =>
    \A w \in Workers : pc[w] \notin {"sleep", "waiting"}

\* The member order of EngineState and the joins of shutdown(): when the loop
\* is destroyed no worker can still touch it or the queue.
LoopOutlivesWorkers ==
  main \in {"stopped", "gone"} =>
    /\ \A w \in Workers : pc[w] = "done"
    /\ queue = <<>>

\* A completion that was posted is never stranded: whenever posts are pending
\* and the loop still runs, a wake-up is outstanding, being delivered, or about
\* to be sent by the worker that pushed last.
PostsAreAnnounced ==
  main \in {"loop", "drain"} /\ pending # <<>> =>
    async \/ \E w \in Workers : pc[w] = "send"

-----------------------------------------------------------------------------
(* What holds in between: the facts that make the invariants inductive.    *)

Destroying == {"flagged", "cleared", "joining", "stopped", "gone"}

\* The mutex is held exactly by the worker inside the critical section.
MutexHeld ==
  \A w \in Workers : pc[w] \in {"check", "recheck", "sleep"} <=> mutex = w

\* The local `task` is set exactly while the job is worked on or to be posted.
TaskHeld ==
  \A w \in Workers : pc[w] \in {"work", "post"} <=> task[w] # None

\* What a worker read under the mutex is still true of the queue while it
\* holds it; running_ may have been cleared since.
ReadStillTrue ==
  \A w \in Workers : /\ pc[w] = "recheck" => ~running \/ queue # <<>>
                     /\ pc[w] = "sleep" => queue = <<>>
                     /\ pc[w] = "done" => ~running

\* How far the teardown is.
TeardownOrder ==
  /\ running <=> main \notin Destroying
  /\ notify => main \in {"loop", "drain", "final_drain"}
  /\ main \in Destroying \ {"flagged"} =>
       queue = <<>> /\ \A w \in Workers : pc[w] # "sleep"

Distinct(s) == \A i, j \in DOMAIN s : s[i] = s[j] => i = j

\* A job that was submitted is in one place at a time: the queue, a worker's
\* hands, the pending posts or the batch that is being run.
OnePlace ==
  /\ Distinct(queue) /\ Distinct(pending) /\ Distinct(posts)
  /\ \A v, w \in Workers : task[v] = task[w] /\ task[v] # None => v = w
  /\ \A w \in Workers :
       task[w] \notin Elements(queue) \cup Elements(pending) \cup Elements(posts)
  /\ Elements(queue) \cap (Elements(pending) \cup Elements(posts)) = {}
  /\ Elements(pending) \cap Elements(posts) = {}
  /\ Elements(queue) \cup Elements(pending) \cup Elements(posts) \subseteq calls
  /\ \A w \in Workers : task[w] \in calls \cup {None}

\* A batch is run to its end before anything else happens on the main thread.
BatchInDrain == posts # <<>> => main \in {"drain", "final_drain"}

IndInv ==
  /\ TypeOK /\ MutexHeld /\ TaskHeld /\ ReadStillTrue /\ TeardownOrder
  /\ NoSleeperAtJoin /\ LoopOutlivesWorkers /\ PostsAreAnnounced

-----------------------------------------------------------------------------
\* The two levels agree: the queue, its workers and the posts of the loop do
\* what AsyncTasks promises (order, at most once, completion after work).
Abstract == INSTANCE AsyncTasks WITH
  asked <- calls,
  waiting <- queue,
  running <- {task[w] : w \in {v \in Workers : pc[v] = "work"}},
  landed <- {task[w] : w \in {v \in Workers : pc[v] = "post"}}
              \cup Elements(pending) \cup Elements(posts),
  done <- done,
  open <- running

ImplementsAsyncTasks == Abstract!Spec

\* shutdown() returns: no worker sleeps through the notify_all(), whatever it
\* was doing when running_ was cleared.
ShutdownReturns == (main = "flagged") ~> (main \in {"stopped", "gone"})

\* Every accepted job that has a completion gets it run, unless the loop is
\* stopped first.
EveryCompletionRuns ==
  \A t \in Tasks \ Silent : (t \in calls) ~> (t \in done \/ ~looping)
=============================================================================
