--------------------------- MODULE ThreadPoolProofs ---------------------------
(***************************************************************************)
(* Theorems about ThreadPool for any finite set of workers, any set of     *)
(* tasks and any capacity of the queue.                                    *)
(***************************************************************************)
EXTENDS ThreadPool, Sequences, FiniteSetTheorems, TLAPS

(* thread_pool_mutex is held exactly between its acquisition and its release,
   num_threads_executing_mutex exactly between the load and the store of the
   counter, and the holder of the latter has loaded the current value.       *)
MutexInv ==
  /\ \A th \in Threads : pc[th] \in {"test", "unlock"} <=> thread_pool_mutex = th
  /\ \A w \in Workers :
       pc[w] \in {"inc", "dec"} <=> num_threads_executing_mutex = w
  /\ \A w \in Workers :
       pc[w] \in {"inc", "dec"} => loaded[w] = num_threads_executing

(* Which local variables and which slots of the array hold a task. *)
TaskInv ==
  /\ pc[Main] # "idle" => task[Main] \in Tasks
  /\ \A w \in Workers :
       IF pc[w] \in {"unlock", "signal", "enter", "inc", "work"}
         THEN task[w] \in Tasks
         ELSE task[w] = NoTask
  /\ \A s \in Slots : s < task_count => task_queue[s] \in Tasks

(* What has to hold of sleeping threads for no wake-up to be lost. *)
NoLostWakeup == NoStrandedTask /\ NoStrandedProducer

(* The inductive invariant. *)
PoolInv == TypeOK /\ MutexInv /\ TaskInv

-------------------------------------------------------------------------------
(* The type invariant of the pool: task_count stays within the array, threads
   are at places their code has, and tasks are tasks.                        *)
THEOREM PoolTypeCorrect == Spec => []TypeOK
<1> USE PoolAssumption DEF Threads, Slots
<1>1. Init => TypeOK
  BY DEF Init, TypeOK, WorkerPCs, MainPCs
<1>2. TypeOK /\ [Next]_vars => TypeOK'
  <2> SUFFICES ASSUME TypeOK, [Next]_vars PROVE TypeOK'
    OBVIOUS
  <2> USE DEF TypeOK, WorkerPCs, MainPCs, Goto, queueVars, counterVars
  <2>1. ASSUME NEW t \in Tasks, CallAddTask(t) PROVE TypeOK'
    BY <2>1 DEF CallAddTask
  <2>2. ASSUME NEW th \in Threads, Lock(th) PROVE TypeOK'
    BY <2>2 DEF Lock
  <2>3. CASE WaitWhileFull
    BY <2>3 DEF WaitWhileFull, CondWait
  <2>4. CASE Put
    BY <2>4 DEF Put
  <2>5. ASSUME NEW th \in Threads, Unlock(th) PROVE TypeOK'
    BY <2>5 DEF Unlock
  <2>6. CASE SignalEmpty
    BY <2>6 DEF SignalEmpty, Signal, BlockedOnEmpty
  <2>7. ASSUME NEW w \in Workers, WaitWhileEmpty(w) PROVE TypeOK'
    BY <2>7 DEF WaitWhileEmpty, CondWait
  <2>8. ASSUME NEW w \in Workers, Take(w) PROVE TypeOK'
    BY <2>8 DEF Take
  <2>9. ASSUME NEW w \in Workers, SignalFull(w) PROVE TypeOK'
    BY <2>9 DEF SignalFull, Signal, BlockedOnFull
  <2>10. ASSUME NEW w \in Workers, BeginExecuting(w) PROVE TypeOK'
    BY <2>10 DEF BeginExecuting, LoadCounter
  <2>11. ASSUME NEW w \in Workers, CountExecuting(w) PROVE TypeOK'
    BY <2>11 DEF CountExecuting, StoreCounter
  <2>12. ASSUME NEW w \in Workers, WorkReturns(w) PROVE TypeOK'
    BY <2>12 DEF WorkReturns
  <2>13. ASSUME NEW w \in Workers, EndExecuting(w) PROVE TypeOK'
    BY <2>13 DEF EndExecuting, LoadCounter
  <2>14. ASSUME NEW w \in Workers, UncountExecuting(w) PROVE TypeOK'
    BY <2>14 DEF UncountExecuting, StoreCounter
  <2>15. ASSUME NEW th \in Threads, SpuriousWakeup(th) PROVE TypeOK'
    BY <2>15 DEF SpuriousWakeup
  <2>16. CASE UNCHANGED vars
    BY <2>16 DEF vars
  <2> QED
    BY <2>1, <2>2, <2>3, <2>4, <2>5, <2>6, <2>7, <2>8, <2>9, <2>10, <2>11,
       <2>12, <2>13, <2>14, <2>15, <2>16 DEF Next, AddTaskStep, WorkerStep
<1> QED BY <1>1, <1>2, PTL DEF Spec

-------------------------------------------------------------------------------
(* MutexInv is inductive relative to TypeOK: the two mutexes are held by at
   most one thread, and no other thread changes the counter between a load and
   its store.                                                                 *)
THEOREM MutexesHeld == Spec => []MutexInv
<1> USE PoolAssumption DEF Threads
<1>1. Init => MutexInv
  BY DEF Init, MutexInv
<1>2. TypeOK /\ MutexInv /\ [Next]_vars => MutexInv'
  <2> SUFFICES ASSUME TypeOK, MutexInv, [Next]_vars PROVE MutexInv'
    OBVIOUS
  <2> USE DEF TypeOK, MutexInv, Goto, queueVars, counterVars
  <2>1. ASSUME NEW t \in Tasks, CallAddTask(t) PROVE MutexInv'
    BY <2>1 DEF CallAddTask
  <2>2. ASSUME NEW th \in Threads, Lock(th) PROVE MutexInv'
    BY <2>2 DEF Lock
  <2>3. CASE WaitWhileFull
    BY <2>3 DEF WaitWhileFull, CondWait
  <2>4. CASE Put
    BY <2>4 DEF Put
  <2>5. ASSUME NEW th \in Threads, Unlock(th) PROVE MutexInv'
    BY <2>5 DEF Unlock
  <2>6. CASE SignalEmpty
    BY <2>6 DEF SignalEmpty, Signal, BlockedOnEmpty
  <2>7. ASSUME NEW w \in Workers, WaitWhileEmpty(w) PROVE MutexInv'
    BY <2>7 DEF WaitWhileEmpty, CondWait
  <2>8. ASSUME NEW w \in Workers, Take(w) PROVE MutexInv'
    BY <2>8 DEF Take
  <2>9. ASSUME NEW w \in Workers, SignalFull(w) PROVE MutexInv'
    BY <2>9 DEF SignalFull, Signal, BlockedOnFull
  <2>10. ASSUME NEW w \in Workers, BeginExecuting(w) PROVE MutexInv'
    BY <2>10 DEF BeginExecuting, LoadCounter
  <2>11. ASSUME NEW w \in Workers, CountExecuting(w) PROVE MutexInv'
    BY <2>11 DEF CountExecuting, StoreCounter
  <2>12. ASSUME NEW w \in Workers, WorkReturns(w) PROVE MutexInv'
    BY <2>12 DEF WorkReturns
  <2>13. ASSUME NEW w \in Workers, EndExecuting(w) PROVE MutexInv'
    BY <2>13 DEF EndExecuting, LoadCounter
  <2>14. ASSUME NEW w \in Workers, UncountExecuting(w) PROVE MutexInv'
    BY <2>14 DEF UncountExecuting, StoreCounter
  <2>15. ASSUME NEW th \in Threads, SpuriousWakeup(th) PROVE MutexInv'
    BY <2>15 DEF SpuriousWakeup
  <2>16. CASE UNCHANGED vars
    BY <2>16 DEF vars
  <2> QED
    BY <2>1, <2>2, <2>3, <2>4, <2>5, <2>6, <2>7, <2>8, <2>9, <2>10, <2>11,
       <2>12, <2>13, <2>14, <2>15, <2>16 DEF Next, AddTaskStep, WorkerStep
<1> QED BY <1>1, <1>2, PoolTypeCorrect, PTL DEF Spec

(* TaskInv is inductive relative to TypeOK: a worker between Take and the
   return of its task holds a task, every other worker holds none, and the
   first task_count slots of the array hold tasks.                           *)
THEOREM TasksHeld == Spec => []TaskInv
<1> USE PoolAssumption DEF Threads, Slots
<1>1. Init => TaskInv
  BY DEF Init, TaskInv
<1>2. TypeOK /\ TaskInv /\ [Next]_vars => TaskInv'
  <2> SUFFICES ASSUME TypeOK, TaskInv, [Next]_vars PROVE TaskInv'
    OBVIOUS
  <2> USE DEF TypeOK, TaskInv, WorkerPCs, MainPCs, Goto, queueVars, counterVars
  <2>1. ASSUME NEW t \in Tasks, CallAddTask(t) PROVE TaskInv'
    BY <2>1 DEF CallAddTask
  <2>2. ASSUME NEW th \in Threads, Lock(th) PROVE TaskInv'
    BY <2>2 DEF Lock
  <2>3. CASE WaitWhileFull
    BY <2>3 DEF WaitWhileFull, CondWait
  <2>4. CASE Put
    BY <2>4 DEF Put
  <2>5. ASSUME NEW th \in Threads, Unlock(th) PROVE TaskInv'
    BY <2>5 DEF Unlock
  <2>6. CASE SignalEmpty
    BY <2>6 DEF SignalEmpty, Signal, BlockedOnEmpty
  <2>7. ASSUME NEW w \in Workers, WaitWhileEmpty(w) PROVE TaskInv'
    BY <2>7 DEF WaitWhileEmpty, CondWait
  <2>8. ASSUME NEW w \in Workers, Take(w) PROVE TaskInv'
    BY <2>8 DEF Take
  <2>9. ASSUME NEW w \in Workers, SignalFull(w) PROVE TaskInv'
    BY <2>9 DEF SignalFull, Signal, BlockedOnFull
  <2>10. ASSUME NEW w \in Workers, BeginExecuting(w) PROVE TaskInv'
    BY <2>10 DEF BeginExecuting, LoadCounter
  <2>11. ASSUME NEW w \in Workers, CountExecuting(w) PROVE TaskInv'
    BY <2>11 DEF CountExecuting, StoreCounter
  <2>12. ASSUME NEW w \in Workers, WorkReturns(w) PROVE TaskInv'
    BY <2>12 DEF WorkReturns
  <2>13. ASSUME NEW w \in Workers, EndExecuting(w) PROVE TaskInv'
    BY <2>13 DEF EndExecuting, LoadCounter
  <2>14. ASSUME NEW w \in Workers, UncountExecuting(w) PROVE TaskInv'
    BY <2>14 DEF UncountExecuting, StoreCounter
  <2>15. ASSUME NEW th \in Threads, SpuriousWakeup(th) PROVE TaskInv'
    BY <2>15 DEF SpuriousWakeup
  <2>16. CASE UNCHANGED vars
    BY <2>16 DEF vars
  <2> QED
    BY <2>1, <2>2, <2>3, <2>4, <2>5, <2>6, <2>7, <2>8, <2>9, <2>10, <2>11,
       <2>12, <2>13, <2>14, <2>15, <2>16 DEF Next, AddTaskStep, WorkerStep
<1> QED BY <1>1, <1>2, PoolTypeCorrect, PTL DEF Spec

-------------------------------------------------------------------------------
(* The cardinality facts about a set that gains or loses one worker. *)
LEMMA CountUpDown ==
  ASSUME NEW S \in SUBSET Workers, NEW w \in Workers
  PROVE  /\ Cardinality(S) \in Nat
         /\ w \notin S => Cardinality(S \cup {w}) = Cardinality(S) + 1
         /\ w \in S => Cardinality(S \ {w}) = Cardinality(S) - 1
<1>1. IsFiniteSet(S)
  BY PoolAssumption, FS_Subset
<1> QED
  BY <1>1, FS_AddElement, FS_RemoveElement, FS_CardinalityType

(* num_threads_executing, which the poll loop of server.c reads without the
   mutex, is exactly the number of workers inside task->work or just out of
   it.  The store of ++ or -- uses a value loaded under the same mutex, so by
   MutexInv it is the current one.                                            *)
THEOREM PoolCounterExact == Spec => []CounterExact
<1> USE PoolAssumption DEF Threads
<1>1. Init => CounterExact
  <2> SUFFICES ASSUME Init PROVE CounterExact
    OBVIOUS
  <2>1. Counted = {}
    BY DEF Init, Counted
  <2> QED BY <2>1, FS_EmptySet DEF Init, CounterExact
<1>2. TypeOK /\ MutexInv /\ CounterExact /\ [Next]_vars => CounterExact'
  <2> SUFFICES ASSUME TypeOK, MutexInv, CounterExact, [Next]_vars
               PROVE CounterExact'
    OBVIOUS
  <2> USE DEF TypeOK, Goto, queueVars, counterVars
  <2> DEFINE Same == Counted' = Counted /\ UNCHANGED num_threads_executing
  <2>0. Same => CounterExact'
    BY DEF CounterExact
  <2>1. ASSUME NEW t \in Tasks, CallAddTask(t) PROVE Same
    BY <2>1 DEF CallAddTask, Counted
  <2>2. ASSUME NEW th \in Threads, Lock(th) PROVE Same
    BY <2>2 DEF Lock, Counted
  <2>3. ASSUME WaitWhileFull PROVE Same
    BY <2>3 DEF WaitWhileFull, CondWait, Counted
  <2>4. ASSUME Put PROVE Same
    BY <2>4 DEF Put, Counted
  <2>5. ASSUME NEW th \in Threads, Unlock(th) PROVE Same
    BY <2>5 DEF Unlock, Counted
  <2>6. ASSUME SignalEmpty PROVE Same
    BY <2>6 DEF SignalEmpty, Signal, BlockedOnEmpty, Counted
  <2>7. ASSUME NEW w \in Workers, WaitWhileEmpty(w) PROVE Same
    BY <2>7 DEF WaitWhileEmpty, CondWait, Counted
  <2>8. ASSUME NEW w \in Workers, Take(w) PROVE Same
    BY <2>8 DEF Take, Counted
  <2>9. ASSUME NEW w \in Workers, SignalFull(w) PROVE Same
    BY <2>9 DEF SignalFull, Signal, BlockedOnFull, Counted
  <2>10. ASSUME NEW w \in Workers, BeginExecuting(w) PROVE Same
    BY <2>10 DEF BeginExecuting, LoadCounter, Counted
  <2>11. ASSUME NEW w \in Workers, CountExecuting(w) PROVE CounterExact'
    <3>1. w \notin Counted /\ Counted' = Counted \cup {w}
      BY <2>11 DEF CountExecuting, StoreCounter, Counted
    <3>2. num_threads_executing' = num_threads_executing + 1
      BY <2>11 DEF CountExecuting, StoreCounter, MutexInv
    <3>3. Counted \in SUBSET Workers
      BY DEF Counted
    <3> QED BY <3>1, <3>2, <3>3, CountUpDown DEF CounterExact
  <2>12. ASSUME NEW w \in Workers, WorkReturns(w) PROVE Same
    BY <2>12 DEF WorkReturns, Counted
  <2>13. ASSUME NEW w \in Workers, EndExecuting(w) PROVE Same
    BY <2>13 DEF EndExecuting, LoadCounter, Counted
  <2>14. ASSUME NEW w \in Workers, UncountExecuting(w) PROVE CounterExact'
    <3>1. w \in Counted /\ Counted' = Counted \ {w}
      BY <2>14 DEF UncountExecuting, StoreCounter, Counted
    <3>2. num_threads_executing' = num_threads_executing - 1
      BY <2>14 DEF UncountExecuting, StoreCounter, MutexInv
    <3>3. Counted \in SUBSET Workers
      BY DEF Counted
    <3> QED BY <3>1, <3>2, <3>3, CountUpDown DEF CounterExact
  <2>15. ASSUME NEW th \in Threads, SpuriousWakeup(th) PROVE Same
    BY <2>15 DEF SpuriousWakeup, Counted
  <2>16. ASSUME UNCHANGED vars PROVE Same
    BY <2>16 DEF vars, Counted
  <2> QED
    BY <2>0, <2>1, <2>2, <2>3, <2>4, <2>5, <2>6, <2>7, <2>8, <2>9, <2>10,
       <2>11, <2>12, <2>13, <2>14, <2>15, <2>16 DEF Next, AddTaskStep, WorkerStep
<1> QED BY <1>1, <1>2, PoolTypeCorrect, MutexesHeld, PTL DEF Spec

-------------------------------------------------------------------------------
(* No lost wake-up in either direction, although both addTask and threadStarter
   signal after they have released the mutex.  The two properties are inductive
   relative to TypeOK.  The only step that can put the last awake worker to
   sleep tests task_count under the mutex, and the only step that can queue a
   task leaves the main thread about to signal; the same argument with the roles
   exchanged keeps the main thread from sleeping beside a free slot.          *)
THEOREM PoolNoLostWakeup == Spec => [](NoStrandedTask /\ NoStrandedProducer)
<1> USE PoolAssumption DEF Threads, NoLostWakeup
<1>1. Init => NoLostWakeup
  BY DEF Init, NoStrandedTask, NoStrandedProducer
<1>2. TypeOK /\ NoLostWakeup /\ [Next]_vars => NoLostWakeup'
  <2> SUFFICES ASSUME TypeOK, NoLostWakeup, [Next]_vars PROVE NoLostWakeup'
    OBVIOUS
  <2> USE DEF TypeOK, NoStrandedTask, NoStrandedProducer, BlockedOnEmpty,
              WorkerPCs, MainPCs, Goto, queueVars, counterVars
  <2>1. ASSUME NEW t \in Tasks, CallAddTask(t) PROVE NoLostWakeup'
    BY <2>1 DEF CallAddTask
  <2>2. ASSUME NEW th \in Threads, Lock(th) PROVE NoLostWakeup'
    BY <2>2 DEF Lock
  <2>3. CASE WaitWhileFull
    BY <2>3 DEF WaitWhileFull, CondWait
  <2>4. CASE Put
    BY <2>4 DEF Put
  <2>5. ASSUME NEW th \in Threads, Unlock(th) PROVE NoLostWakeup'
    BY <2>5 DEF Unlock
  <2>6. CASE SignalEmpty
    BY <2>6 DEF SignalEmpty, Signal
  <2>7. ASSUME NEW w \in Workers, WaitWhileEmpty(w) PROVE NoLostWakeup'
    BY <2>7 DEF WaitWhileEmpty, CondWait
  <2>8. ASSUME NEW w \in Workers, Take(w) PROVE NoLostWakeup'
    BY <2>8 DEF Take
  <2>9. ASSUME NEW w \in Workers, SignalFull(w) PROVE NoLostWakeup'
    BY <2>9 DEF SignalFull, Signal, BlockedOnFull
  <2>10. ASSUME NEW w \in Workers, BeginExecuting(w) PROVE NoLostWakeup'
    BY <2>10 DEF BeginExecuting, LoadCounter
  <2>11. ASSUME NEW w \in Workers, CountExecuting(w) PROVE NoLostWakeup'
    BY <2>11 DEF CountExecuting, StoreCounter
  <2>12. ASSUME NEW w \in Workers, WorkReturns(w) PROVE NoLostWakeup'
    BY <2>12 DEF WorkReturns
  <2>13. ASSUME NEW w \in Workers, EndExecuting(w) PROVE NoLostWakeup'
    BY <2>13 DEF EndExecuting, LoadCounter
  <2>14. ASSUME NEW w \in Workers, UncountExecuting(w) PROVE NoLostWakeup'
    BY <2>14 DEF UncountExecuting, StoreCounter
  <2>15. ASSUME NEW th \in Threads, SpuriousWakeup(th) PROVE NoLostWakeup'
    BY <2>15 DEF SpuriousWakeup
  <2>16. CASE UNCHANGED vars
    BY <2>16 DEF vars
  <2> QED
    BY <2>1, <2>2, <2>3, <2>4, <2>5, <2>6, <2>7, <2>8, <2>9, <2>10, <2>11,
       <2>12, <2>13, <2>14, <2>15, <2>16 DEF Next, AddTaskStep, WorkerStep
<1> QED BY <1>1, <1>2, PoolTypeCorrect, PTL DEF Spec, NoLostWakeup

(* The half of it that is about the main thread: it does not sleep in addTask
   while there is room, unless a worker is about to wake it.                 *)
THEOREM PoolProducerWakes == Spec => []NoStrandedProducer
BY PoolNoLostWakeup, PTL

-------------------------------------------------------------------------------
(* The array behaves as a bounded FIFO buffer and every task is executed once:
   each step of the pool is a step of TaskBuffer or leaves its variables
   unchanged.  Put appends because slot task_count is the first free one, Take
   removes the head because the shift moves every queued task one place down. *)
THEOREM PoolImplementsTaskBuffer == Spec => ImplementsTaskBuffer
<1> USE PoolAssumption DEF Threads, Slots
<1> DEFINE buffer == [k \in 1 .. task_count |-> task_queue[k - 1]]
           running == [w \in Workers |-> task[w]]
<1>1. Init => Buffer!Init
  <2> SUFFICES ASSUME Init PROVE Buffer!Init
    OBVIOUS
  <2>1. buffer = << >>
    BY DEF Init
  <2>2. running = [w \in Workers |-> NoTask]
    BY DEF Init
  <2> QED BY <2>1, <2>2 DEF Buffer!Init
<1>2. TypeOK /\ TaskInv /\ [Next]_vars => [Buffer!Next]_(Buffer!vars)
  <2> SUFFICES ASSUME TypeOK, TaskInv, [Next]_vars
               PROVE [Buffer!Next]_(Buffer!vars)
    OBVIOUS
  <2> USE DEF Goto, queueVars, counterVars
  <2> DEFINE Stutter == UNCHANGED <<buffer, running>>
  <2>0. Stutter => [Buffer!Next]_(Buffer!vars)
    BY DEF Buffer!vars
  <2>a. ASSUME UNCHANGED queueVars,
               \A w \in Workers : task'[w] = task[w]
        PROVE Stutter
    BY <2>a
  <2>b. ASSUME UNCHANGED queueVars, UNCHANGED task PROVE Stutter
    BY <2>b
  <2>1. ASSUME NEW t \in Tasks, CallAddTask(t) PROVE Stutter
    BY <2>1, <2>a DEF CallAddTask, TypeOK
  <2>2. ASSUME NEW th \in Threads, Lock(th) PROVE Stutter
    BY <2>2, <2>b DEF Lock
  <2>3. ASSUME WaitWhileFull PROVE Stutter
    BY <2>3, <2>b DEF WaitWhileFull, CondWait
  <2>4. CASE Put
    <3>1. PICK t \in Tasks : t = task[Main]
      BY <2>4 DEF Put, TaskInv
    <3>2. buffer \in Seq(Tasks) /\ Len(buffer) = task_count
      BY DEF TypeOK, TaskInv
    <3>3. task_count < MAX_TASK_NUM
      BY <2>4 DEF Put, TypeOK
    <3>4. buffer' = Append(buffer, t)
      BY <2>4, <3>1, <3>2, <3>3 DEF Put, TypeOK
    <3>5. running' = running
      BY <2>4 DEF Put
    <3>6. Buffer!Put(t)
      BY <3>2, <3>3, <3>4, <3>5 DEF Buffer!Put
    <3> QED BY <3>6 DEF Buffer!Next
  <2>5. ASSUME NEW th \in Threads, Unlock(th) PROVE Stutter
    BY <2>5, <2>b DEF Unlock
  <2>6. ASSUME SignalEmpty PROVE Stutter
    BY <2>6, <2>a DEF SignalEmpty, Signal, TypeOK
  <2>7. ASSUME NEW w \in Workers, WaitWhileEmpty(w) PROVE Stutter
    BY <2>7, <2>b DEF WaitWhileEmpty, CondWait
  <2>8. ASSUME NEW w \in Workers, Take(w) PROVE [Buffer!Next]_(Buffer!vars)
    <3>1. buffer \in Seq(Tasks) /\ Len(buffer) = task_count
      BY DEF TypeOK, TaskInv
    <3>2. task_count \in 1 .. MAX_TASK_NUM
      BY <2>8 DEF Take, TypeOK
    <3>3. Head(buffer) = task_queue[0] /\ buffer # << >>
      BY <3>1, <3>2
    <3>4. running[w] = NoTask
      BY <2>8 DEF Take, TaskInv
    <3>5. buffer' = Tail(buffer)
      BY <2>8, <3>1, <3>2 DEF Take, TypeOK
    <3>6. running' = [running EXCEPT ![w] = Head(buffer)]
      BY <2>8, <3>3 DEF Take, TypeOK
    <3>7. Buffer!Get(w)
      BY <3>3, <3>4, <3>5, <3>6 DEF Buffer!Get
    <3> QED BY <3>7 DEF Buffer!Next
  <2>9. ASSUME NEW w \in Workers, SignalFull(w) PROVE Stutter
    BY <2>9, <2>b DEF SignalFull, Signal
  <2>10. ASSUME NEW w \in Workers, BeginExecuting(w) PROVE Stutter
    BY <2>10, <2>b DEF BeginExecuting, LoadCounter
  <2>11. ASSUME NEW w \in Workers, CountExecuting(w) PROVE Stutter
    BY <2>11, <2>b DEF CountExecuting, StoreCounter
  <2>12. ASSUME NEW w \in Workers, WorkReturns(w)
         PROVE [Buffer!Next]_(Buffer!vars)
    <3>1. running[w] # NoTask
      BY <2>12 DEF WorkReturns, TaskInv
    <3>2. running' = [running EXCEPT ![w] = NoTask]
      BY <2>12 DEF WorkReturns, TypeOK
    <3>3. buffer' = buffer
      BY <2>12 DEF WorkReturns
    <3>4. Buffer!Finish(w)
      BY <3>1, <3>2, <3>3 DEF Buffer!Finish
    <3> QED BY <3>4 DEF Buffer!Next
  <2>13. ASSUME NEW w \in Workers, EndExecuting(w) PROVE Stutter
    BY <2>13, <2>b DEF EndExecuting, LoadCounter
  <2>14. ASSUME NEW w \in Workers, UncountExecuting(w) PROVE Stutter
    BY <2>14, <2>b DEF UncountExecuting, StoreCounter
  <2>15. ASSUME NEW th \in Threads, SpuriousWakeup(th) PROVE Stutter
    BY <2>15, <2>b DEF SpuriousWakeup
  <2>16. ASSUME UNCHANGED vars PROVE Stutter
    BY <2>16, <2>b DEF vars
  <2> QED
    BY <2>0, <2>1, <2>2, <2>3, <2>4, <2>5, <2>6, <2>7, <2>8, <2>9, <2>10,
       <2>11, <2>12, <2>13, <2>14, <2>15, <2>16 DEF Next, AddTaskStep, WorkerStep
<1> QED
  BY <1>1, <1>2, PoolTypeCorrect, TasksHeld, PTL
     DEF Spec, ImplementsTaskBuffer, Buffer!Spec

===============================================================================
