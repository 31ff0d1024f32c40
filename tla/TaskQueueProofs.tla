--------------------------- MODULE TaskQueueProofs ---------------------------
(***************************************************************************)
(* What TLC checks of TaskQueue on two workers and three jobs, proved for  *)
(* every finite set of workers and every set of jobs: its invariants, and  *)
(* that it implements AsyncTasks, each step of a thread being a step of    *)
(* the contract or none at all.  What makes the mapping one is that a job  *)
(* is in one place at a time: a set of jobs cannot tell how often one is   *)
(* in it.                                                                  *)
(***************************************************************************)
EXTENDS TaskQueue, FiniteSetTheorems, SequenceTheorems, TLAPS

\* The parts of IndInv that a step on the queue, the mutex or a worker's
\* program counter can disturb, without the posts.
Core == TypeOK /\ MutexHeld /\ TaskHeld /\ ReadStillTrue /\ TeardownOrder
        /\ NoSleeperAtJoin /\ LoopOutlivesWorkers

USE DEF queueVars, workerVars, loopVars, mainVars, history

\* A step of worker_loop() preserves the core of the invariant.
LEMMA WorkerCore ==
  ASSUME Core, NEW w \in Workers, WorkerStep(w) \/ SpuriousWake(w)
  PROVE  Core'
<1> USE NoneAssumption, MaxSpuriousAssumption
    DEF Core, TypeOK, WorkerPC, MainPC, MutexHeld, TaskHeld, ReadStillTrue,
        TeardownOrder, NoSleeperAtJoin, LoopOutlivesWorkers, Destroying
<1>1. CASE Acquire(w)
  BY <1>1 DEF Acquire
<1>2. CASE Check(w)
  BY <1>2 DEF Check, ShouldWake
<1>3. CASE Wait(w)
  BY <1>3 DEF Wait
<1>4. CASE SpuriousWake(w)
  BY <1>4 DEF SpuriousWake
<1>5. CASE Return(w)
  BY <1>5 DEF Return
<1>6. CASE Pop(w)
  BY <1>6 DEF Pop, Taken
<1>7. CASE Work(w)
  BY <1>7 DEF Work
<1>8. CASE Push(w)
  BY <1>8 DEF Push
<1>9. CASE Send(w)
  BY <1>9 DEF Send
<1> QED
  BY <1>1, <1>2, <1>3, <1>4, <1>5, <1>6, <1>7, <1>8, <1>9 DEF WorkerStep

\* So does a step of the main thread: submit, the loop and the teardown.
LEMMA MainCore ==
  ASSUME Core, (\E t \in Tasks : Submit(t)) \/ LoopStep \/ Stop \/ ShutdownStep
  PROVE  Core'
<1> USE NoneAssumption, MaxSpuriousAssumption
    DEF Core, TypeOK, WorkerPC, MainPC, MutexHeld, TaskHeld, ReadStillTrue,
        TeardownOrder, NoSleeperAtJoin, LoopOutlivesWorkers, Destroying
<1>1. ASSUME NEW t \in Tasks, Submit(t) PROVE Core'
  <2>1. \A w \in Workers : pc[w] \notin {"check", "recheck", "sleep"}
    BY <1>1 DEF Submit
  <2>2. CASE running
    <3>1. queue' = Append(queue, t) /\ notify' = TRUE
      BY <1>1, <2>2 DEF Submit
    <3>2. queue' \in Seq(Tasks) /\ notify' \in BOOLEAN
      BY <3>1
    <3> QED
      BY <1>1, <2>1, <2>2, <3>1, <3>2 DEF Submit, InCallback
  <2>3. CASE ~running
    <3>1. UNCHANGED <<queue, notify>>
      BY <1>1, <2>3 DEF Submit
    <3> QED
      BY <1>1, <2>1, <2>3, <3>1 DEF Submit, InCallback
  <2> QED
    BY <2>2, <2>3
<1>2. CASE NotifyOne
  BY <1>2, ZenonT(60) DEF NotifyOne, Sleepers
<1>3. CASE AsyncFire
  BY <1>3 DEF AsyncFire
<1>4. CASE Swap
  BY <1>4 DEF Swap
<1>5. CASE RunPost
  BY <1>5 DEF RunPost
<1>6. CASE EndDrain
  BY <1>6 DEF EndDrain
<1>7. CASE LeaveLoop
  BY <1>7 DEF LeaveLoop
<1>8. CASE Stop
  BY <1>8 DEF Stop
<1>9. CASE ClearRunning
  BY <1>9 DEF ClearRunning
<1>10. CASE DropQueue
  BY <1>10 DEF DropQueue
<1>11. CASE NotifyAll
  BY <1>11 DEF NotifyAll
<1>12. CASE Join
  BY <1>12 DEF Join
<1>13. CASE DestroyLoop
  BY <1>13 DEF DestroyLoop
<1> QED
  BY <1>1, <1>2, <1>3, <1>4, <1>5, <1>6, <1>7, <1>8, <1>9, <1>10, <1>11, <1>12,
     <1>13 DEF LoopStep, ShutdownStep

\* A posted completion stays announced, whichever thread steps.
LEMMA AnnouncedStep ==
  ASSUME Core, PostsAreAnnounced, [Next]_vars
  PROVE  PostsAreAnnounced'
<1> USE DEF PostsAreAnnounced, Core, TypeOK, MainPC
<1>1. ASSUME NEW w \in Workers, Send(w) PROVE PostsAreAnnounced'
  BY <1>1 DEF Send
<1>2. ASSUME NEW w \in Workers, Push(w) PROVE PostsAreAnnounced'
  <2>1. pc'[w] = "send"
    BY <1>2 DEF Push
  <2> QED
    BY <2>1
<1>3. ASSUME NEW w \in Workers,
             Acquire(w) \/ Check(w) \/ Wait(w) \/ Return(w) \/ Pop(w) \/ Work(w)
               \/ SpuriousWake(w)
      PROVE  PostsAreAnnounced'
  <2>1. UNCHANGED <<main, pending, async>> /\ pc[w] # "send"
        /\ \E x \in WorkerPC : pc' = [pc EXCEPT ![w] = x]
    BY <1>3 DEF Acquire, Check, Wait, Return, Pop, Work, SpuriousWake, WorkerPC
  <2>2. \A v \in Workers : pc[v] = "send" => pc'[v] = "send"
    BY <2>1
  <2> QED
    BY <2>1, <2>2
<1>4. ASSUME NEW t \in Tasks, Submit(t) PROVE PostsAreAnnounced'
  BY <1>4 DEF Submit
<1>5. CASE NotifyOne
  BY <1>5 DEF NotifyOne, Sleepers
<1>6. CASE AsyncFire \/ Swap \/ LeaveLoop
  BY <1>6 DEF AsyncFire, Swap, LeaveLoop
<1>7. CASE RunPost \/ Stop \/ UNCHANGED vars
  BY <1>7 DEF RunPost, Stop, vars
<1>8. CASE EndDrain
  BY <1>8 DEF EndDrain
<1>9. CASE ShutdownStep
  BY <1>9 DEF ShutdownStep, ClearRunning, DropQueue, NotifyAll, Join, DestroyLoop
<1> QED
  BY <1>1, <1>2, <1>3, <1>4, <1>5, <1>6, <1>7, <1>8, <1>9
     DEF Next, WorkerStep, LoopStep, Finished

\* The inductive invariant holds in every reachable state.
THEOREM Invariance == Spec => []IndInv
<1>1. Init => IndInv
  <2> SUFFICES ASSUME Init PROVE IndInv
    OBVIOUS
  <2>1. TypeOK
    <3>1. queue \in Seq(Tasks) /\ pending \in Seq(Tasks) /\ posts \in Seq(Tasks)
      BY DEF Init
    <3>2. spurious \in 0..MaxSpurious
      BY MaxSpuriousAssumption DEF Init
    <3>3. /\ pc \in [Workers -> WorkerPC]
          /\ task \in [Workers -> Tasks \cup {None}]
      BY DEF Init, WorkerPC
    <3> QED
      BY <3>1, <3>2, <3>3 DEF Init, TypeOK, MainPC
  <2>2. MutexHeld /\ TaskHeld /\ ReadStillTrue
    BY NoneAssumption DEF Init, MutexHeld, TaskHeld, ReadStillTrue
  <2>3. TeardownOrder /\ NoSleeperAtJoin /\ LoopOutlivesWorkers /\ PostsAreAnnounced
    BY DEF Init, TeardownOrder, NoSleeperAtJoin, LoopOutlivesWorkers,
           PostsAreAnnounced, Destroying
  <2> QED
    BY <2>1, <2>2, <2>3 DEF IndInv
<1>2. IndInv /\ [Next]_vars => IndInv'
  <2> SUFFICES ASSUME IndInv, [Next]_vars PROVE IndInv'
    OBVIOUS
  <2>1. Core
    BY DEF IndInv, Core
  <2>2. ASSUME \E w \in Workers : WorkerStep(w) \/ SpuriousWake(w) PROVE Core'
    BY <2>1, <2>2, WorkerCore
  <2>3. ASSUME (\E t \in Tasks : Submit(t)) \/ LoopStep \/ Stop \/ ShutdownStep
        PROVE  Core'
    BY <2>1, <2>3, MainCore
  <2>4. ASSUME UNCHANGED vars PROVE Core'
    BY <2>1, <2>4 DEF vars, Core, TypeOK, MutexHeld, TaskHeld, ReadStillTrue,
         TeardownOrder, NoSleeperAtJoin, LoopOutlivesWorkers
  <2>5. Core'
    BY <2>2, <2>3, <2>4 DEF Next, Finished
  <2>6. PostsAreAnnounced'
    BY <2>1, AnnouncedStep DEF IndInv
  <2> QED
    BY <2>5, <2>6 DEF IndInv, Core
<1> QED
  BY <1>1, <1>2, PTL DEF Spec

\* Type correctness.
THEOREM TypeCorrect == Spec => []TypeOK
BY Invariance, PTL DEF IndInv

\* shutdown() cannot lose a wake-up: no worker is asleep, or about to be, once
\* it joins.  ShutdownReturns is the liveness side, which TLC checks.
THEOREM NoLostShutdownWakeup == Spec => []NoSleeperAtJoin
BY Invariance, PTL DEF IndInv

\* No worker is left when the loop it posts to is destroyed.
THEOREM LoopOutlives == Spec => []LoopOutlivesWorkers
BY Invariance, PTL DEF IndInv

\* A posted completion always has a wake-up of the loop coming.
THEOREM PostsAnnounced == Spec => []PostsAreAnnounced
BY Invariance, PTL DEF IndInv

-----------------------------------------------------------------------------
(* No job is left to sleepers                                              *)

\* The workers on their way to the queue can be counted.
LEMMA FiniteChecking ==
  /\ IsFiniteSet(Checking) /\ Cardinality(Checking) \in Nat
  /\ IsFiniteSet(Checking') /\ Cardinality(Checking') \in Nat
<1>1. Checking \subseteq Workers /\ Checking' \subseteq Workers
  BY DEF Checking
<1> QED
  BY <1>1, WorkersAssumption, FS_Subset, FS_CardinalityType

\* A worker that joins those on their way makes them one more.
LEMMA OneMore ==
  ASSUME NEW w \in Workers, w \notin Checking, Checking' = Checking \cup {w}
  PROVE  Cardinality(Checking') = Cardinality(Checking) + 1
BY FiniteChecking, FS_AddElement

\* One that leaves them makes them one less.
LEMMA OneLess ==
  ASSUME NEW w \in Checking, Checking' = Checking \ {w}
  PROVE  Cardinality(Checking') = Cardinality(Checking) - 1
BY FiniteChecking, FS_RemoveElement

\* A worker that stops looking has taken a job or found none.
LEMMA WorkConservingWorker ==
  ASSUME IndInv, WorkConserving, NEW w \in Workers, WorkerStep(w) \/ SpuriousWake(w)
  PROVE  WorkConserving'
<1> USE DEF WorkConserving
<1>0. queue \in Seq(Tasks) /\ pc \in [Workers -> WorkerPC] /\ notify' = notify /\ running' = running
  BY DEF IndInv, TypeOK, WorkerStep, Acquire, Check, Wait, Return, Pop, Work, Push, Send, SpuriousWake
<1>1. CASE Acquire(w) \/ (Work(w) /\ task[w] \notin Silent) \/ Push(w)
  <2>1. Sleepers' = Sleepers /\ Checking' = Checking /\ queue' = queue
    BY <1>0, <1>1 DEF Acquire, Work, Push, Sleepers, Checking
  <2> QED
    BY <1>0, <2>1
<1>2. CASE Check(w)
  <2>1. Sleepers' = Sleepers /\ queue' = queue
    BY <1>0, <1>2 DEF Check, Sleepers
  <2>2. CASE queue # <<>>
    <3>1. Checking' = Checking
      BY <1>0, <1>2, <2>2 DEF Check, ShouldWake, Checking
    <3> QED
      BY <1>0, <2>1, <3>1
  <2>3. CASE queue = <<>>
    BY <1>0, <2>1, <2>3, FiniteChecking
  <2> QED
    BY <2>2, <2>3
<1>3. CASE Wait(w)
  <2>1. queue' = <<>>
    BY <1>3 DEF Wait, IndInv, ReadStillTrue
  <2> QED
    BY <1>0, <2>1, FiniteChecking
<1>4. CASE SpuriousWake(w) \/ (Work(w) /\ task[w] \in Silent) \/ Send(w)
  <2>1. Sleepers' \subseteq Sleepers /\ queue' = queue
    BY <1>0, <1>4 DEF SpuriousWake, Work, Send, Sleepers
  <2>2. w \notin Checking /\ Checking' = Checking \cup {w}
    BY <1>0, <1>4 DEF SpuriousWake, Work, Send, Checking
  <2>3. Cardinality(Checking') = Cardinality(Checking) + 1
    BY <2>2, OneMore
  <2> QED
    BY <1>0, <2>1, <2>3, FiniteChecking
<1>5. CASE Return(w)
  BY <1>0, <1>5 DEF Return
<1>6. CASE Pop(w)
  <2>1. Sleepers' = Sleepers
    BY <1>0, <1>6 DEF Pop, Sleepers
  <2>2. w \in Checking /\ Checking' = Checking \ {w}
    BY <1>0, <1>6 DEF Pop, Checking
  <2>3. Cardinality(Checking') = Cardinality(Checking) - 1
    BY <2>2, OneLess
  <2>4. queue # <<>> /\ queue' = Tail(queue)
    BY <1>6 DEF Pop, Taken, IndInv, ReadStillTrue
  <2>5. Len(queue') = Len(queue) - 1
    BY <1>0, <2>4
  <2> QED
    BY <1>0, <2>1, <2>3, <2>5, FiniteChecking
<1> QED
  BY <1>1, <1>2, <1>3, <1>4, <1>5, <1>6 DEF WorkerStep

\* A job that is added brings its wake-up, and a wake-up sends a sleeper.
LEMMA WorkConservingMain ==
  ASSUME IndInv, WorkConserving,
         (\E t \in Tasks : Submit(t)) \/ LoopStep \/ Stop \/ ShutdownStep
  PROVE  WorkConserving'
<1> USE DEF WorkConserving
<1>0. queue \in Seq(Tasks) /\ pc \in [Workers -> WorkerPC] /\ notify \in BOOLEAN
  BY DEF IndInv, TypeOK
<1>1. ASSUME NEW t \in Tasks, Submit(t) PROVE WorkConserving'
  <2>1. Sleepers' = Sleepers /\ Checking' = Checking /\ running' = running
    BY <1>1 DEF Submit, Sleepers, Checking
  <2>2. CASE running
    <3>1. ~notify /\ notify' = TRUE /\ Len(queue') = Len(queue) + 1
      BY <1>0, <1>1, <2>2 DEF Submit, InCallback
    <3> QED
      BY <1>0, <2>1, <3>1, FiniteChecking
  <2> QED
    BY <2>1, <2>2
<1>2. CASE NotifyOne
  <2>0. running' = running /\ queue' = queue /\ notify /\ ~notify'
    BY <1>2 DEF NotifyOne
  <2>1. CASE Sleepers = {}
    BY <1>2, <2>1 DEF NotifyOne, Sleepers
  <2>2. CASE Sleepers # {}
    <3>1. PICK w \in Sleepers : pc' = [pc EXCEPT ![w] = "lock"]
      BY <1>2, <2>2 DEF NotifyOne
    <3>2. w \in Workers /\ w \notin Checking /\ Checking' = Checking \cup {w}
      BY <1>0, <3>1 DEF Sleepers, Checking
    <3>3. Cardinality(Checking') = Cardinality(Checking) + 1
      BY <3>2, OneMore
    <3> QED
      BY <1>0, <2>0, <2>2, <3>3, FiniteChecking
  <2> QED
    BY <2>1, <2>2
<1>3. CASE AsyncFire \/ Swap \/ RunPost \/ EndDrain \/ LeaveLoop \/ Stop
  <2>1. UNCHANGED <<running, queue, pc, notify>>
    BY <1>3 DEF AsyncFire, Swap, RunPost, EndDrain, LeaveLoop, Stop
  <2> QED
    BY <2>1 DEF Sleepers, Checking
<1>4. CASE ShutdownStep
  <2>1. ~running'
    BY <1>4 DEF ShutdownStep, ClearRunning, DropQueue, NotifyAll, Join, DestroyLoop,
         IndInv, TeardownOrder, Destroying
  <2> QED
    BY <2>1
<1> QED
  BY <1>1, <1>2, <1>3, <1>4 DEF LoopStep

\* One notify_one() per job is enough: no worker sleeps beside a job for which
\* nobody is on the way.
THEOREM NoJobIsLeftToSleepers == Spec => []WorkConserving
<1>1. Init => WorkConserving
  BY DEF Init, WorkConserving, Sleepers
<1>2. IndInv /\ WorkConserving /\ [Next]_vars => WorkConserving'
  <2> SUFFICES ASSUME IndInv, WorkConserving, [Next]_vars PROVE WorkConserving'
    OBVIOUS
  <2>1. CASE UNCHANGED vars
    BY <2>1 DEF vars, WorkConserving, Sleepers, Checking
  <2> QED
    BY <2>1, WorkConservingWorker, WorkConservingMain DEF Next, Finished
<1> QED
  BY <1>1, <1>2, Invariance, PTL DEF Spec

-----------------------------------------------------------------------------
(* Sequences without repetition as sets                                    *)

\* Appending a new element.
LEMMA AppendDistinct ==
  ASSUME NEW S, NEW s \in Seq(S), NEW x \in S
  PROVE  /\ Elements(Append(s, x)) = Elements(s) \cup {x}
         /\ Distinct(s) /\ x \notin Elements(s) => Distinct(Append(s, x))
<1> DEFINE t == Append(s, x)
<1>1. /\ t \in Seq(S) /\ Len(t) = Len(s) + 1 /\ Len(s) \in Nat
      /\ DOMAIN s = 1..Len(s) /\ DOMAIN t = 1..(Len(s) + 1)
      /\ \A i \in 1..Len(s) : t[i] = s[i]
      /\ t[Len(s) + 1] = x
  BY AppendProperties, LenProperties
<1> HIDE DEF t
<1>2. Elements(t) = Elements(s) \cup {x}
  <2>1. ASSUME NEW e \in Elements(t) PROVE e \in Elements(s) \cup {x}
    <3>1. PICK i \in DOMAIN t : e = t[i]
      BY <2>1 DEF Elements
    <3> QED
      BY <1>1, <3>1 DEF Elements
  <2>2. ASSUME NEW e \in Elements(s) PROVE e \in Elements(t)
    <3>1. PICK i \in DOMAIN s : e = s[i]
      BY <2>2 DEF Elements
    <3>2. i \in DOMAIN t /\ e = t[i]
      BY <1>1, <3>1
    <3> QED
      BY <3>2 DEF Elements
  <2>3. x \in Elements(t)
    <3>1. Len(s) + 1 \in DOMAIN t
      BY <1>1
    <3> QED
      BY <1>1, <3>1 DEF Elements
  <2> QED
    BY <2>1, <2>2, <2>3
<1>3. ASSUME Distinct(s), x \notin Elements(s) PROVE Distinct(t)
  <2>1. \A i \in DOMAIN s : s[i] # x
    BY <1>3 DEF Elements
  <2> QED
    BY <1>1, <1>3, <2>1 DEF Distinct
<1> QED
  BY <1>2, <1>3 DEF t

\* Taking the first element.
LEMMA TailDistinct ==
  ASSUME NEW S, NEW s \in Seq(S), s # <<>>, Distinct(s)
  PROVE  /\ Head(s) \in S /\ Head(s) \in Elements(s)
         /\ Elements(Tail(s)) = Elements(s) \ {Head(s)}
         /\ Distinct(Tail(s))
<1> DEFINE t == Tail(s)
<1>1. /\ t \in Seq(S) /\ Len(t) = Len(s) - 1 /\ Len(s) \in Nat \ {0}
      /\ DOMAIN s = 1..Len(s) /\ DOMAIN t = 1..(Len(s) - 1)
      /\ \A i \in 1..(Len(s) - 1) : t[i] = s[i + 1]
      /\ Head(s) = s[1] /\ Head(s) \in S
  BY HeadTailProperties, LenProperties, EmptySeq
<1> HIDE DEF t
<1>2. Head(s) \in Elements(s)
  BY <1>1 DEF Elements
<1>3. ASSUME NEW e \in Elements(t) PROVE e \in Elements(s) /\ e # Head(s)
  <2>1. PICK i \in DOMAIN t : e = t[i]
    BY <1>3 DEF Elements
  <2>2. i + 1 \in DOMAIN s /\ 1 \in DOMAIN s /\ e = s[i + 1] /\ i + 1 # 1
    BY <1>1, <2>1
  <2> QED
    BY <1>1, <2>2 DEF Elements, Distinct
<1>4. ASSUME NEW e \in Elements(s), e # Head(s) PROVE e \in Elements(t)
  <2>1. PICK i \in DOMAIN s : e = s[i]
    BY <1>4 DEF Elements
  <2>2. i - 1 \in DOMAIN t /\ e = t[i - 1]
    BY <1>1, <1>4, <2>1
  <2> QED
    BY <2>2 DEF Elements
<1>5. Distinct(t)
  <2> SUFFICES ASSUME NEW i \in DOMAIN t, NEW j \in DOMAIN t, t[i] = t[j] PROVE i = j
    BY DEF Distinct
  <2>1. /\ i + 1 \in DOMAIN s /\ j + 1 \in DOMAIN s /\ s[i + 1] = s[j + 1]
        /\ i \in Int /\ j \in Int
    BY <1>1
  <2>2. i + 1 = j + 1
    BY <2>1 DEF Distinct
  <2> QED
    BY <2>1, <2>2
<1> QED
  BY <1>1, <1>2, <1>3, <1>4, <1>5 DEF t

\* The empty sequence.
LEMMA EmptyDistinct == Elements(<<>>) = {} /\ Distinct(<<>>)
BY DEF Elements, Distinct

-----------------------------------------------------------------------------
(* A job is in one place                                                   *)

Placed == OnePlace /\ BatchInDrain

\* A worker moves a job from one place to the next.
LEMMA PlacedWorker ==
  ASSUME IndInv, Placed, NEW w \in Workers, WorkerStep(w) \/ SpuriousWake(w)
  PROVE  Placed'
<1> USE DEF Placed, OnePlace, BatchInDrain
<1>0. /\ queue \in Seq(Tasks) /\ pending \in Seq(Tasks)
      /\ task \in [Workers -> Tasks \cup {None}]
      /\ None \notin Tasks
  BY NoneAssumption DEF IndInv, TypeOK
<1>1. CASE Acquire(w) \/ Check(w) \/ Wait(w) \/ SpuriousWake(w) \/ Return(w) \/ Send(w)
  <2>1. UNCHANGED <<queue, pending, posts, task, calls, main>>
    BY <1>1 DEF Acquire, Check, Wait, SpuriousWake, Return, Send
  <2> QED
    BY <2>1
<1>2. CASE Work(w)
  <2>1. UNCHANGED <<queue, pending, posts, calls, main>>
        /\ task' \in {task, [task EXCEPT ![w] = None]}
    BY <1>2 DEF Work
  <2>2. None \notin Elements(queue) \cup Elements(pending) \cup Elements(posts)
    BY <1>0, LenProperties, ElementOfSeq DEF Elements, IndInv, TypeOK
  <2> QED
    BY <1>0, <2>1, <2>2
<1>3. CASE Pop(w)
  <2>1. queue # <<>> /\ UNCHANGED <<pending, posts, calls, main>>
        /\ queue' = Tail(queue) /\ task' = [task EXCEPT ![w] = Head(queue)]
    BY <1>3 DEF Pop, Taken, IndInv, ReadStillTrue
  <2>2. /\ Head(queue) \in Tasks /\ Head(queue) \in Elements(queue)
        /\ Elements(queue') = Elements(queue) \ {Head(queue)}
        /\ Distinct(queue')
    BY <1>0, <2>1, TailDistinct
  <2> QED
    BY <1>0, <2>1, <2>2
<1>4. CASE Push(w)
  <2>1. UNCHANGED <<queue, posts, calls, main>>
        /\ pending' = Append(pending, task[w]) /\ task' = [task EXCEPT ![w] = None]
        /\ task[w] \in Tasks
    BY <1>0, <1>4 DEF Push, IndInv, TaskHeld
  <2>2. /\ Elements(pending') = Elements(pending) \cup {task[w]}
        /\ Distinct(pending')
    BY <1>0, <2>1, AppendDistinct
  <2>3. None \notin Elements(queue) \cup Elements(pending) \cup Elements(posts)
    BY <1>0, LenProperties, ElementOfSeq DEF Elements, IndInv, TypeOK
  <2> QED
    BY <1>0, <2>1, <2>2, <2>3
<1> QED
  BY <1>1, <1>2, <1>3, <1>4 DEF WorkerStep

\* So does the main thread, or it adds one that is new.
LEMMA PlacedMain ==
  ASSUME IndInv, Placed,
         (\E t \in Tasks : Submit(t)) \/ LoopStep \/ Stop \/ ShutdownStep
  PROVE  Placed'
<1> USE DEF Placed, OnePlace, BatchInDrain
<1>0. /\ queue \in Seq(Tasks) /\ pending \in Seq(Tasks) /\ posts \in Seq(Tasks)
      /\ None \notin Tasks
  BY NoneAssumption DEF IndInv, TypeOK
<1>1. ASSUME NEW t \in Tasks, Submit(t) PROVE Placed'
  <2>1. UNCHANGED <<pending, posts, task, main>> /\ calls' = calls \cup {t} /\ t \notin calls
        /\ queue' \in {queue, Append(queue, t)}
    BY <1>1 DEF Submit
  <2>2. /\ Elements(queue') \in {Elements(queue), Elements(queue) \cup {t}}
        /\ Distinct(queue')
    <3>1. t \notin Elements(queue) /\ Distinct(queue)
      BY <2>1
    <3>2. /\ Elements(Append(queue, t)) = Elements(queue) \cup {t}
          /\ Distinct(Append(queue, t))
      BY <1>0, <3>1, AppendDistinct
    <3> QED
      BY <2>1, <3>1, <3>2
  <2> QED
    BY <1>0, <2>1, <2>2
<1>2. CASE NotifyOne \/ Stop \/ ClearRunning \/ NotifyAll \/ Join \/ AsyncFire
             \/ LeaveLoop \/ EndDrain
  <2>1. UNCHANGED <<queue, pending, posts, task, calls>>
        /\ (main' = main \/ posts = <<>>)
    BY <1>2 DEF NotifyOne, Stop, ClearRunning, NotifyAll, Join, AsyncFire, LeaveLoop, EndDrain
  <2> QED
    BY <2>1
<1>3. CASE Swap
  <2>1. /\ posts = <<>> /\ posts' = pending /\ pending' = <<>>
        /\ UNCHANGED <<queue, task, calls>> /\ main' \in {"drain", "final_drain"}
    BY <1>3 DEF Swap
  <2> QED
    BY <2>1, EmptyDistinct
<1>4. CASE RunPost
  <2>1. /\ posts # <<>> /\ posts' = Tail(posts)
        /\ UNCHANGED <<queue, pending, task, calls, main>>
        /\ main \in {"drain", "final_drain"}
    BY <1>4 DEF RunPost
  <2>2. Elements(posts') \subseteq Elements(posts) /\ Distinct(posts')
    BY <1>0, <2>1, TailDistinct
  <2> QED
    BY <2>1, <2>2
<1>5. CASE DropQueue
  <2>1. queue' = <<>> /\ UNCHANGED <<pending, posts, task, calls>> /\ posts = <<>>
    BY <1>5 DEF DropQueue
  <2> QED
    BY <2>1, EmptyDistinct
<1>6. CASE DestroyLoop
  <2>1. pending' = <<>> /\ UNCHANGED <<queue, posts, task, calls>> /\ posts = <<>>
    BY <1>6 DEF DestroyLoop
  <2> QED
    BY <2>1, EmptyDistinct
<1> QED
  BY <1>1, <1>2, <1>3, <1>4, <1>5, <1>6 DEF LoopStep, ShutdownStep

\* Every job is in one place at a time.
THEOREM JobsAreInOnePlace == Spec => []Placed
<1>1. Init => Placed
  BY NoneAssumption, EmptyDistinct DEF Init, Placed, OnePlace, BatchInDrain
<1>2. IndInv /\ Placed /\ [Next]_vars => Placed'
  <2> SUFFICES ASSUME IndInv, Placed, [Next]_vars PROVE Placed'
    OBVIOUS
  <2>1. CASE UNCHANGED vars
    BY <2>1 DEF vars, Placed, OnePlace, BatchInDrain
  <2> QED
    BY <2>1, PlacedWorker, PlacedMain DEF Next, Finished
<1> QED
  BY <1>1, <1>2, Invariance, PTL DEF Spec

-----------------------------------------------------------------------------
(* The steps, seen as steps of the contract                                *)

\* The abstract `running' and `landed' as TaskQueue computes them.
InHand(place) == {task[w] : w \in {v \in Workers : pc[v] = place}}
Landed == InHand("post") \cup Elements(pending) \cup Elements(posts)

USE DEF InHand

\* A worker's program counter moves where no job is in its hands.
LEMMA HandsKept ==
  ASSUME pc \in [Workers -> WorkerPC], task' = task,
         \A v \in Workers : pc'[v] = pc[v]
                            \/ {pc[v], pc'[v]} \cap {"work", "post"} = {}
  PROVE  InHand("work")' = InHand("work") /\ InHand("post")' = InHand("post")
OBVIOUS

\* A step of worker_loop() starts or finishes a job, or is none of the contract.
LEMMA StepOfWorker ==
  ASSUME IndInv, Placed, NEW w \in Workers, WorkerStep(w) \/ SpuriousWake(w)
  PROVE  [Abstract!Next]_(Abstract!vars)
<1> USE DEF Abstract!Next, Abstract!vars
<1>0. /\ queue \in Seq(Tasks) /\ pending \in Seq(Tasks)
      /\ task \in [Workers -> Tasks \cup {None}] /\ pc \in [Workers -> WorkerPC]
      /\ None \notin Tasks
  BY NoneAssumption DEF IndInv, TypeOK
<1>1. CASE Acquire(w) \/ Check(w) \/ Wait(w) \/ SpuriousWake(w) \/ Return(w) \/ Send(w)
  <2>1. UNCHANGED <<calls, queue, pending, posts, task, done, running>>
    BY <1>1 DEF Acquire, Check, Wait, SpuriousWake, Return, Send
  <2>2. \A v \in Workers : pc'[v] = pc[v] \/ {pc[v], pc'[v]} \cap {"work", "post"} = {}
    BY <1>0, <1>1 DEF Acquire, Check, Wait, SpuriousWake, Return, Send
  <2> QED
    BY <1>0, <2>1, <2>2, HandsKept
<1>2. CASE Pop(w)
  <2>1. /\ queue # <<>> /\ running /\ UNCHANGED <<pending, posts, calls, done, running>>
        /\ queue' = Tail(queue) /\ task' = [task EXCEPT ![w] = Head(queue)]
        /\ pc[w] = "recheck" /\ pc' = [pc EXCEPT ![w] = "work"]
    BY <1>2 DEF Pop, Taken, IndInv, ReadStillTrue
  <2>2. InHand("work")' = InHand("work") \cup {Head(queue)}
    BY <1>0, <2>1
  <2>3. InHand("post")' = InHand("post")
    BY <1>0, <2>1
  <2>4. Abstract!Start
    BY <2>1, <2>2, <2>3 DEF Abstract!Start
  <2> QED
    BY <2>4
<1>3. CASE Work(w)
  <2>0. PICK t \in Tasks : t = task[w] /\ t \in InHand("work")
    BY <1>0, <1>3 DEF Work, IndInv, TaskHeld
  <2>1. UNCHANGED <<queue, pending, posts, calls, done, running>>
    BY <1>3 DEF Work
  <2>2. InHand("work")' = InHand("work") \ {t}
    BY <1>0, <1>3, <2>0 DEF Work, Placed, OnePlace, IndInv, TaskHeld
  <2>3. InHand("post")' = InHand("post") \cup ({t} \ Silent)
    BY <1>0, <1>3, <2>0 DEF Work
  <2>4. Abstract!Finish(t)
    BY <2>0, <2>1, <2>2, <2>3 DEF Abstract!Finish
  <2> QED
    BY <2>4
<1>4. CASE Push(w)
  <2>1. /\ UNCHANGED <<queue, posts, calls, done, running>>
        /\ pending' = Append(pending, task[w]) /\ task' = [task EXCEPT ![w] = None]
        /\ pc[w] = "post" /\ pc' = [pc EXCEPT ![w] = "send"]
        /\ task[w] \in Tasks
    BY <1>0, <1>4 DEF Push, IndInv, TaskHeld
  <2>2. Elements(pending') = Elements(pending) \cup {task[w]}
    BY <1>0, <2>1, AppendDistinct
  <2>3. InHand("work")' = InHand("work")
    BY <1>0, <2>1
  <2>4. InHand("post") = InHand("post")' \cup {task[w]}
    BY <1>0, <2>1
  <2> QED
    BY <2>1, <2>2, <2>3, <2>4
<1> QED
  BY <1>1, <1>2, <1>3, <1>4 DEF WorkerStep

\* A step of the main thread submits, completes, closes, discards, tears down, or
\* is none of the contract.
LEMMA StepOfMain ==
  ASSUME IndInv, Placed,
         (\E t \in Tasks : Submit(t)) \/ LoopStep \/ Stop \/ ShutdownStep
  PROVE  [Abstract!Next]_(Abstract!vars)
<1> USE DEF Abstract!Next, Abstract!vars
<1>0. /\ pc \in [Workers -> WorkerPC] /\ posts \in Seq(Tasks)
      /\ running <=> main \notin Destroying
  BY DEF IndInv, TypeOK, TeardownOrder
<1>1. ASSUME NEW t \in Tasks, Submit(t) PROVE Abstract!Submit(t)
  <2>1. UNCHANGED <<pc, task, pending, posts, done, running>>
    BY <1>1 DEF Submit
  <2>2. InHand("work")' = InHand("work") /\ InHand("post")' = InHand("post")
    BY <2>1
  <2> QED
    BY <1>1, <2>1, <2>2 DEF Submit, Abstract!Submit
<1>2. CASE NotifyOne \/ NotifyAll
  <2>1. UNCHANGED <<calls, queue, pending, posts, task, done, running>>
    BY <1>2 DEF NotifyOne, NotifyAll
  <2>2. \A v \in Workers : pc'[v] = pc[v] \/ {pc[v], pc'[v]} \cap {"work", "post"} = {}
    BY <1>0, <1>2 DEF NotifyOne, NotifyAll, Sleepers
  <2> QED
    BY <1>0, <2>1, <2>2, HandsKept
<1>3. CASE AsyncFire \/ EndDrain \/ LeaveLoop \/ Stop \/ Join
  <2>1. UNCHANGED <<calls, queue, pending, posts, task, pc, done, running>>
    BY <1>3 DEF AsyncFire, EndDrain, LeaveLoop, Stop, Join
  <2> QED
    BY <2>1
<1>4. CASE Swap
  <2>1. /\ UNCHANGED <<calls, queue, task, pc, done, running>>
        /\ posts = <<>> /\ posts' = pending /\ pending' = <<>>
    BY <1>4 DEF Swap, Placed, BatchInDrain
  <2>2. Elements(pending') \cup Elements(posts') = Elements(pending) \cup Elements(posts)
    BY <2>1, EmptyDistinct
  <2> QED
    BY <2>1, <2>2
<1>5. CASE RunPost
  <2>1. /\ UNCHANGED <<calls, queue, task, pc, pending, running>>
        /\ posts # <<>> /\ posts' = Tail(posts) /\ done' = done \cup {Head(posts)}
    BY <1>5 DEF RunPost
  <2>2. PICK t \in Tasks : /\ t = Head(posts) /\ t \in Elements(posts)
                           /\ Elements(posts') = Elements(posts) \ {t}
    BY <1>0, <2>1, TailDistinct DEF Placed, OnePlace
  <2>3. t \notin Elements(pending) \cup InHand("post")
    BY <2>2 DEF Placed, OnePlace
  <2>4. UNCHANGED <<InHand("work"), InHand("post")>>
    BY <2>1
  <2>5. Landed' = Landed \ {t}
    BY <2>1, <2>2, <2>3, <2>4 DEF Landed
  <2>6. Abstract!Complete(t)
    BY <2>1, <2>2, <2>4, <2>5 DEF Abstract!Complete, Landed
  <2> QED
    BY <2>6
<1>6. CASE ClearRunning
  <2>1. /\ UNCHANGED <<calls, queue, pending, posts, task, pc, done>>
        /\ running /\ running' = FALSE
    BY <1>0, <1>6 DEF ClearRunning, Destroying
  <2>2. Abstract!Close
    BY <2>1 DEF Abstract!Close
  <2> QED
    BY <2>2
<1>7. CASE DropQueue
  <2>1. /\ UNCHANGED <<calls, pending, posts, task, pc, done, running>>
        /\ ~running /\ queue' = <<>>
    BY <1>0, <1>7 DEF DropQueue, Destroying
  <2>2. Abstract!Discard
    BY <2>1 DEF Abstract!Discard
  <2> QED
    BY <2>2
<1>8. CASE DestroyLoop
  <2>1. /\ UNCHANGED <<calls, queue, task, pc, posts, done, running>>
        /\ ~running /\ queue = <<>> /\ posts = <<>> /\ pending' = <<>>
        /\ \A v \in Workers : pc[v] = "done"
    BY <1>0, <1>8 DEF DestroyLoop, Destroying, IndInv, LoopOutlivesWorkers,
         Placed, BatchInDrain
  <2>2. InHand("work") = {} /\ InHand("post")' = {}
    BY <2>1
  <2>3. Landed' = {}
    BY <2>1, <2>2, EmptyDistinct DEF Landed
  <2>4. Abstract!TearDown
    BY <2>1, <2>2, <2>3 DEF Abstract!TearDown, Landed
  <2> QED
    BY <2>4
<1> QED
  BY <1>1, <1>2, <1>3, <1>4, <1>5, <1>6, <1>7, <1>8 DEF LoopStep, ShutdownStep

\* The queue, its workers and the loop keep the promise of AsyncTasks.
THEOREM Implements == Spec => ImplementsAsyncTasks
<1>1. Init => Abstract!Init
  <2> SUFFICES ASSUME Init PROVE Abstract!Init
    OBVIOUS
  <2>1. InHand("work") = {} /\ Landed = {}
    BY EmptyDistinct DEF Init, Landed
  <2> QED
    BY <2>1 DEF Init, Abstract!Init, Landed
<1>2. IndInv /\ Placed /\ [Next]_vars => [Abstract!Next]_(Abstract!vars)
  <2> SUFFICES ASSUME IndInv, Placed, [Next]_vars
               PROVE  [Abstract!Next]_(Abstract!vars)
    OBVIOUS
  <2>1. CASE UNCHANGED vars
    BY <2>1 DEF vars, Abstract!vars
  <2> QED
    BY <2>1, StepOfWorker, StepOfMain DEF Next, Finished
<1> QED
  BY <1>1, <1>2, Invariance, JobsAreInOnePlace, PTL
     DEF Spec, ImplementsAsyncTasks, Abstract!Spec
=============================================================================
