CONSTANTS
  Workers = {w1, w2}
  Tasks = {t1, t2, t3}
  Silent = {t3}
  None = None
  MaxSpurious = 1
SPECIFICATION FairSpec
INVARIANTS
  WorkConserving
  LoopOutlivesWorkers
  NoSleeperAtJoin
  PostsAreAnnounced
PROPERTIES
  ImplementsAsyncTasks
  ShutdownReturns
  EveryCompletionRuns
