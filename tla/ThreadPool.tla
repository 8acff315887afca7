------------------------------ MODULE ThreadPool ------------------------------
(***************************************************************************)
(* Server/thread-pool.c: a pool of worker threads that take tasks from a   *)
(* bounded array.  The single producer is the main thread of server.c.     *)
(*                                                                         *)
(* A step is the longest piece of code that touches shared memory once, or *)
(* that runs under one mutex: locking, testing the loop condition, waiting *)
(* on a condition variable (which releases the mutex), unlocking and       *)
(* signalling are separate steps, because the code unlocks before it       *)
(* signals.  num_threads_executing++ and -- are a load and a store.        *)
(***************************************************************************)
EXTENDS Integers, FiniteSets

CONSTANTS
  Workers,        (* the THREADS_NUM threads running threadStarter          *)
  Main,           (* the main thread, the only caller of addTask            *)
  Tasks,          (* the values of type Task                                *)
  NoTask,         (* no task at hand                                        *)
  NoThread,       (* the owner of a free mutex                              *)
  MAX_TASK_NUM    (* the length of task_queue                               *)

ASSUME PoolAssumption ==
  /\ Workers # {}
  /\ IsFiniteSet(Workers)
  /\ Main \notin Workers
  /\ NoThread \notin Workers \cup {Main}
  /\ NoTask \notin Tasks
  /\ MAX_TASK_NUM \in Nat \ {0}

VARIABLES
  task_queue,                   (* the array, indices 0..MAX_TASK_NUM-1     *)
  task_count,                   (* entries of task_queue in use             *)
  num_threads_executing,        (* the counter read by the poll loop        *)
  thread_pool_mutex,            (* its owner, or NoThread                   *)
  num_threads_executing_mutex,  (* its owner, or NoThread                   *)
  pc,                           (* where each thread is                     *)
  task,                         (* local "task" of threadStarter, and the
                                   argument of addTask for Main             *)
  loaded                        (* the value a worker loaded for ++ or --   *)

vars == <<task_queue, task_count, num_threads_executing, thread_pool_mutex,
          num_threads_executing_mutex, pc, task, loaded>>

queueVars == <<task_queue, task_count>>
counterVars == <<num_threads_executing, num_threads_executing_mutex, loaded>>

Threads == Workers \cup {Main}
Slots == 0 .. MAX_TASK_NUM - 1

WorkerPCs == {"lock", "test", "wait", "relock", "unlock", "signal",
              "enter", "inc", "work", "leave", "dec"}
MainPCs == {"idle", "lock", "test", "wait", "relock", "unlock", "signal"}

Init ==
  /\ task_queue = [s \in Slots |-> NoTask]
  /\ task_count = 0
  /\ num_threads_executing = 0
  /\ thread_pool_mutex = NoThread
  /\ num_threads_executing_mutex = NoThread
  /\ pc = [th \in Threads |-> IF th = Main THEN "idle" ELSE "lock"]
  /\ task = [th \in Threads |-> NoTask]
  /\ loaded = [w \in Workers |-> 0]

Goto(th, label) == pc' = [pc EXCEPT ![th] = label]

-------------------------------------------------------------------------------
(* pthread primitives on thread_pool_mutex and the two condition variables. *)

(* pthread_mutex_lock, or the re-acquisition inside pthread_cond_wait. *)
Lock(th) ==
  /\ pc[th] \in {"lock", "relock"}
  /\ thread_pool_mutex = NoThread
  /\ thread_pool_mutex' = th
  /\ Goto(th, "test")
  /\ UNCHANGED <<queueVars, counterVars, task>>

(* pthread_cond_wait releases the mutex and blocks the caller. *)
CondWait(th) ==
  /\ thread_pool_mutex' = NoThread
  /\ Goto(th, "wait")
  /\ UNCHANGED <<queueVars, counterVars, task>>

(* POSIX allows pthread_cond_wait to return without a signal. *)
SpuriousWakeup(th) ==
  /\ pc[th] = "wait"
  /\ Goto(th, "relock")
  /\ UNCHANGED <<queueVars, counterVars, thread_pool_mutex, task>>

Unlock(th) ==
  /\ pc[th] = "unlock"
  /\ thread_pool_mutex' = NoThread
  /\ Goto(th, "signal")
  /\ UNCHANGED <<queueVars, counterVars, task>>

(* pthread_cond_signal: one of the threads blocked on the condition variable,
   if there is any, goes on to re-acquire the mutex; the caller goes on.     *)
Signal(th, blocked, label) ==
  /\ pc[th] = "signal"
  /\ \/ /\ blocked = {}
        /\ Goto(th, label)
     \/ \E other \in blocked :
          pc' = [pc EXCEPT ![th] = label, ![other] = "relock"]
  /\ UNCHANGED <<queueVars, counterVars, thread_pool_mutex>>

(* The threads blocked on thread_pool_cond_empty and thread_pool_cond_full. *)
BlockedOnEmpty == {w \in Workers : pc[w] = "wait"}
BlockedOnFull == {th \in {Main} : pc[th] = "wait"}

-------------------------------------------------------------------------------
(* addTask, called by the main thread. *)

CallAddTask(t) ==
  /\ pc[Main] = "idle"
  /\ task' = [task EXCEPT ![Main] = t]
  /\ Goto(Main, "lock")
  /\ UNCHANGED <<queueVars, counterVars, thread_pool_mutex>>

WaitWhileFull ==
  /\ pc[Main] = "test"
  /\ task_count = MAX_TASK_NUM
  /\ CondWait(Main)

(* Mutant of Put: addTask tests for one entry more than the array has. *)
PutOneTooMany ==
  /\ pc[Main] = "test"
  /\ task_count # MAX_TASK_NUM + 1
  /\ task_queue' = [task_queue EXCEPT ![task_count] = task[Main]]
  /\ task_count' = task_count + 1
  /\ Goto(Main, "unlock")
  /\ UNCHANGED <<counterVars, thread_pool_mutex, task>>

Put ==
  /\ pc[Main] = "test"
  /\ task_count # MAX_TASK_NUM
  /\ task_queue' = [task_queue EXCEPT ![task_count] = task[Main]]
  /\ task_count' = task_count + 1
  /\ Goto(Main, "unlock")
  /\ UNCHANGED <<counterVars, thread_pool_mutex, task>>

(* Mutant of SignalEmpty: addTask signals the other condition variable. *)
SignalFullInstead ==
  /\ Signal(Main, BlockedOnFull, "idle")
  /\ task' = [task EXCEPT ![Main] = NoTask]

SignalEmpty ==
  /\ Signal(Main, BlockedOnEmpty, "idle")
  /\ task' = [task EXCEPT ![Main] = NoTask]

-------------------------------------------------------------------------------
(* threadStarter, run by every worker. *)

WaitWhileEmpty(w) ==
  /\ pc[w] = "test"
  /\ task_count = 0
  /\ CondWait(w)

(* Mutant of Take: the shift loop stops one entry early. *)
TakeShortShift(w) ==
  /\ pc[w] = "test"
  /\ task_count # 0
  /\ task' = [task EXCEPT ![w] = task_queue[0]]
  /\ task_queue' = [s \in Slots |-> IF s < task_count - 2
                                    THEN task_queue[s + 1]
                                    ELSE task_queue[s]]
  /\ task_count' = task_count - 1
  /\ Goto(w, "unlock")
  /\ UNCHANGED <<counterVars, thread_pool_mutex>>

(* The shift loop moves entries 1..task_count-1 one place down and leaves the
   last one where it was.                                                     *)
Take(w) ==
  /\ pc[w] = "test"
  /\ task_count # 0
  /\ task' = [task EXCEPT ![w] = task_queue[0]]
  /\ task_queue' = [s \in Slots |-> IF s < task_count - 1
                                    THEN task_queue[s + 1]
                                    ELSE task_queue[s]]
  /\ task_count' = task_count - 1
  /\ Goto(w, "unlock")
  /\ UNCHANGED <<counterVars, thread_pool_mutex>>

(* Mutant of SignalFull: the worker signals the other condition variable. *)
SignalEmptyInstead(w) ==
  /\ Signal(w, BlockedOnEmpty, "enter")
  /\ UNCHANGED task

SignalFull(w) ==
  /\ Signal(w, BlockedOnFull, "enter")
  /\ UNCHANGED task

-------------------------------------------------------------------------------
(* executeTask, run by every worker. *)

(* Mutant of LoadCounter: the counter is loaded without its mutex. *)
LoadUnlocked(w, from, to) ==
  /\ pc[w] = from
  /\ loaded' = [loaded EXCEPT ![w] = num_threads_executing]
  /\ Goto(w, to)
  /\ UNCHANGED <<queueVars, num_threads_executing, num_threads_executing_mutex,
                 thread_pool_mutex, task>>

(* pthread_mutex_lock(&num_threads_executing_mutex) and the load of ++ or --. *)
LoadCounter(w, from, to) ==
  /\ pc[w] = from
  /\ num_threads_executing_mutex = NoThread
  /\ num_threads_executing_mutex' = w
  /\ loaded' = [loaded EXCEPT ![w] = num_threads_executing]
  /\ Goto(w, to)
  /\ UNCHANGED <<queueVars, num_threads_executing, thread_pool_mutex, task>>

(* The store of ++ or -- and pthread_mutex_unlock. *)
StoreCounter(w, from, value, to) ==
  /\ pc[w] = from
  /\ num_threads_executing' = value
  /\ num_threads_executing_mutex' = NoThread
  /\ Goto(w, to)
  /\ UNCHANGED <<queueVars, loaded, thread_pool_mutex, task>>

BeginExecuting(w) == LoadCounter(w, "enter", "inc")
CountExecuting(w) == StoreCounter(w, "inc", loaded[w] + 1, "work")

(* task->work(task->args) returns. *)
WorkReturns(w) ==
  /\ pc[w] = "work"
  /\ task' = [task EXCEPT ![w] = NoTask]
  /\ Goto(w, "leave")
  /\ UNCHANGED <<queueVars, counterVars, thread_pool_mutex>>

EndExecuting(w) == LoadCounter(w, "leave", "dec")
UncountExecuting(w) == StoreCounter(w, "dec", loaded[w] - 1, "lock")

-------------------------------------------------------------------------------

WorkerStep(w) ==
  \/ Lock(w) \/ WaitWhileEmpty(w) \/ Take(w) \/ Unlock(w) \/ SignalFull(w)
  \/ BeginExecuting(w) \/ CountExecuting(w) \/ WorkReturns(w)
  \/ EndExecuting(w) \/ UncountExecuting(w)

(* The steps of an addTask call once it has been made. *)
AddTaskStep == Lock(Main) \/ WaitWhileFull \/ Put \/ Unlock(Main) \/ SignalEmpty

Next ==
  \/ \E t \in Tasks : CallAddTask(t)
  \/ AddTaskStep
  \/ \E w \in Workers : WorkerStep(w)
  \/ \E th \in Threads : SpuriousWakeup(th)

Spec == Init /\ [][Next]_vars

(* Every runnable thread is scheduled, tasks return, and a thread that keeps
   finding thread_pool_mutex free gets it in the end.  Nothing forces the main
   thread to add a task, or a wait to be interrupted.                         *)
Fairness ==
  /\ WF_vars(AddTaskStep)
  /\ \A w \in Workers : WF_vars(WorkerStep(w))
  /\ \A th \in Threads : SF_vars(Lock(th))
  /\ \A w \in Workers : SF_vars(BeginExecuting(w)) /\ SF_vars(EndExecuting(w))

FairSpec == Spec /\ Fairness

-------------------------------------------------------------------------------
(* Properties *)

(* Every variable has its type; the array indices and the counter stay in
   their ranges.                                                              *)
TypeOK ==
  /\ task_queue \in [Slots -> Tasks \cup {NoTask}]
  /\ task_count \in 0 .. MAX_TASK_NUM
  /\ num_threads_executing \in Int
  /\ thread_pool_mutex \in Threads \cup {NoThread}
  /\ num_threads_executing_mutex \in Workers \cup {NoThread}
  /\ pc \in [Threads -> WorkerPCs \cup MainPCs]
  /\ pc[Main] \in MainPCs
  /\ \A w \in Workers : pc[w] \in WorkerPCs
  /\ task \in [Threads -> Tasks \cup {NoTask}]
  /\ loaded \in [Workers -> Int]

(* The workers that have counted themselves in num_threads_executing. *)
Counted == {w \in Workers : pc[w] \in {"work", "leave", "dec"}}

(* num_threads_executing is exactly the number of workers that are inside
   task->work or have just left it: no concurrent ++ or -- is lost.  The poll
   loop of server.c compacts its array only when it reads 0 here.             *)
CounterExact == num_threads_executing = Cardinality(Counted)

(* No lost wake-up of a worker: while a task is queued, some worker is awake,
   or the main thread is still about to signal thread_pool_cond_empty for it
   (addTask signals after it has released the mutex).                         *)
NoStrandedTask ==
  task_count > 0 =>
    \/ BlockedOnEmpty # Workers
    \/ pc[Main] \in {"unlock", "signal"}

(* No lost wake-up of the main thread: it sleeps in addTask while there is
   room only if a worker that made the room has not signalled yet.            *)
NoStrandedProducer ==
  pc[Main] = "wait" /\ task_count < MAX_TASK_NUM =>
    \E w \in Workers : pc[w] \in {"unlock", "signal"}

(* The array, its count and the workers' local tasks behave as a bounded FIFO
   buffer each of whose tasks is executed exactly once.                       *)
Buffer == INSTANCE TaskBuffer WITH
  buffer <- [k \in 1 .. task_count |-> task_queue[k - 1]],
  running <- [w \in Workers |-> task[w]]

ImplementsTaskBuffer == Buffer!Spec

(* Every queued task is started by some worker. *)
EveryTaskStarts ==
  \A t \in Tasks :
    (\E s \in Slots : s < task_count /\ task_queue[s] = t)
      ~> (\E w \in Workers : task[w] = t)

(* A call of addTask returns, also when it had to wait for room. *)
AddTaskReturns == (pc[Main] = "lock") ~> (pc[Main] = "idle")

===============================================================================
