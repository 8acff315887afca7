------------------------------ MODULE TaskBuffer ------------------------------
(***************************************************************************)
(* What Server/thread-pool.c promises its caller: tasks handed to addTask  *)
(* are kept in a bounded first-in first-out buffer, and each one is given  *)
(* to exactly one worker, which executes it once.  Mutexes, condition      *)
(* variables and the array behind the buffer are not visible here;         *)
(* ThreadPool implements this specification.                               *)
(***************************************************************************)
EXTENDS Naturals, Sequences

CONSTANTS
  Workers,       (* the threads created by initializeThreadPool            *)
  Tasks,         (* the values of type Task                                *)
  NoTask,        (* "this worker executes nothing"                         *)
  MAX_TASK_NUM   (* capacity of the buffer                                 *)

VARIABLES
  buffer,        (* the tasks accepted and not yet started, oldest first   *)
  running        (* the task each worker executes, or NoTask               *)

vars == <<buffer, running>>

Init ==
  /\ buffer = <<>>
  /\ running = [w \in Workers |-> NoTask]

Put(t) ==
  /\ Len(buffer) < MAX_TASK_NUM
  /\ buffer' = Append(buffer, t)
  /\ UNCHANGED running

Get(w) ==
  /\ running[w] = NoTask
  /\ buffer # <<>>
  /\ running' = [running EXCEPT ![w] = Head(buffer)]
  /\ buffer' = Tail(buffer)

Finish(w) ==
  /\ running[w] # NoTask
  /\ running' = [running EXCEPT ![w] = NoTask]
  /\ UNCHANGED buffer

Next ==
  \/ \E t \in Tasks : Put(t)
  \/ \E w \in Workers : Get(w) \/ Finish(w)

Spec == Init /\ [][Next]_vars

===============================================================================
