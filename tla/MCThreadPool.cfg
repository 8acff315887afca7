\* Safety of the pool: three workers, two kinds of task, room for two.
CONSTANTS
  Workers = {w1, w2, w3}
  Main = main
  Tasks = {t1, t2}
  NoTask = NoTask
  NoThread = NoThread
  MAX_TASK_NUM = 2
SPECIFICATION Spec
SYMMETRY WorkerSymmetry
INVARIANTS TypeOK CounterExact NoStrandedTask NoStrandedProducer
PROPERTY ImplementsTaskBuffer
