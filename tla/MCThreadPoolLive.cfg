\* Liveness of the pool: no symmetry, two workers, room for one.
CONSTANTS
  Workers = {w1, w2}
  Main = main
  Tasks = {t1, t2}
  NoTask = NoTask
  NoThread = NoThread
  MAX_TASK_NUM = 1
SPECIFICATION FairSpec
PROPERTIES EveryTaskStarts AddTaskReturns
