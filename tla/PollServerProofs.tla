--------------------------- MODULE PollServerProofs ---------------------------
(***************************************************************************)
(* Theorems about PollServer for any number of workers and connections,    *)
(* any set of descriptors and any length of fds and of the task queue.     *)
(***************************************************************************)
EXTENDS PollServer, FiniteSetTheorems, TLAPS

(* Where the compaction is: it removes a slot other than slot 0. *)
CompactionInv ==
  /\ pc = "shift" => /\ 1 <= compact.i
                     /\ compact.i <= compact.j
                     /\ compact.j <= nfds - 1
  /\ pc \in {"scan", "shift"} /\ compact.nested => i < current_size

(* What main knows about the slot it is at. *)
LoopInv ==
  /\ pc \in {"hangup", "accept", "fill", "park", "add"} => i < current_size
  /\ pc \in {"hangup", "fill", "park"} => i # 0

(* The listening socket is nowhere but in slot 0, and poll reports nothing but
   connections for it.                                                        *)
ListenerInv ==
  /\ ListenerKept
  /\ polled[0] = listen_sd
  /\ revents[0] \in {"none", "in"}
  /\ info.fd # listen_sd /\ info.old_fd # 0

(* A worker that puts its descriptor back has just sent on it. *)
WorkerInv ==
  \A w \in Workers : wpc[w] = "restore" => fd[w] \in Descriptors

(* The inductive invariant. *)
ServerInv ==
  TypeOK /\ CompactionInv /\ LoopInv /\ ListenerInv /\ WorkerInv

-------------------------------------------------------------------------------
(* poll reports an event of its own for every field, and none but an incoming
   connection for the listening socket.                                       *)
LEMMA EventTyped ==
  ASSUME TypeOK, NEW f \in Fields
  PROVE  /\ Event(f) \in Events
         /\ f = listen_sd => Event(f) \in {"none", "in"}
  BY ServerAssumption DEF TypeOK, Event, Events, ConnOf, Fields, Unpollable

(* A number of slots is a natural number: poll's result is. *)
LEMMA SlotCount ==
  ASSUME NEW n \in Nat, NEW S \in SUBSET (0 .. n - 1)
  PROVE  Cardinality(S) \in Nat
<1>1. IsFiniteSet(0 .. n - 1)
  BY FS_Interval
<1>2. IsFiniteSet(S)
  BY <1>1, FS_Subset
<1> QED BY <1>2, FS_CardinalityType

(* Updating one field keeps the type of info and of compact. *)
LEMMA InfoUpdate ==
  ASSUME NEW r \in [old_fd : Slots, fd : Fields],
         NEW k \in Slots, NEW f \in Fields
  PROVE  /\ [r EXCEPT !.old_fd = k] \in [old_fd : Slots, fd : Fields]
         /\ [r EXCEPT !.fd = f] \in [old_fd : Slots, fd : Fields]
         /\ [r EXCEPT !.old_fd = k].fd = r.fd /\ [r EXCEPT !.old_fd = k].old_fd = k
         /\ [r EXCEPT !.fd = f].fd = f /\ [r EXCEPT !.fd = f].old_fd = r.old_fd
  OBVIOUS

LEMMA CompactUpdate ==
  ASSUME NEW n \in Nat, NEW r \in [i : 0 .. n, j : 0 .. n, nested : BOOLEAN],
         NEW k \in 0 .. n
  PROVE  /\ [r EXCEPT !.i = k] \in [i : 0 .. n, j : 0 .. n, nested : BOOLEAN]
         /\ [r EXCEPT !.j = k] \in [i : 0 .. n, j : 0 .. n, nested : BOOLEAN]
         /\ [r EXCEPT !.j = k].i = r.i /\ [r EXCEPT !.j = k].j = k
         /\ [r EXCEPT !.j = k].nested = r.nested
         /\ [r EXCEPT !.i = k].i = k /\ [r EXCEPT !.i = k].j = r.j
         /\ [r EXCEPT !.i = k].nested = r.nested
  OBVIOUS

(* ServerInv is inductive.  The compaction only ever moves slots above the one
   it removes, which is not slot 0 because slot 0 is never unused; main hands
   out no descriptor and no slot but those of accepted connections.           *)
LEMMA ServerInvInductive == ServerInv /\ [Next]_vars => ServerInv'
<1> USE ServerAssumption
    DEF Slots, Fields, Unpollable, FD_UNUSED, FD_STOP_POLLING
<1> SUFFICES ASSUME ServerInv, [Next]_vars PROVE ServerInv'
  OBVIOUS
<1> USE DEF ServerInv, TypeOK, CompactionInv, LoopInv, ListenerInv,
            ListenerKept, WorkerInv, MainPCs, WorkerPCs, poolVars,
            localVars, clientVars, netVars, otherVars, arrayVars,
            pollVars, loopVars, mainVars
<1>1. CASE PollCall
  BY <1>1 DEF PollCall, Goto
<1>2. CASE PollReturn
  <2>1. TypeOK'
    <3>1. \A k \in Slots : k < nfds => Event(polled[k]) \in Events
      BY EventTyped
    <3>2. revents' \in [Slots -> Events]
      BY <1>2, <3>1 DEF PollReturn
    <3>3. poll_err' \in Nat
      <4>0. nfds \in Nat
        OBVIOUS
      <4> DEFINE Ready == {k \in 0 .. nfds - 1 : Event(polled[k]) # "none"}
      <4>1. poll_err' = Cardinality(Ready)
        BY <1>2 DEF PollReturn
      <4>2. Cardinality(Ready) \in Nat
        <5> HIDE DEF ServerInv
        <5>1. Ready \in SUBSET (0 .. nfds - 1)
          OBVIOUS
        <5> HIDE DEF Ready
        <5> QED BY <4>0, <5>1, SlotCount
      <4> QED BY <4>1, <4>2
    <3> QED BY <1>2, <3>2, <3>3 DEF PollReturn, Goto
  <2>2. CompactionInv'
    BY <1>2 DEF PollReturn, Goto
  <2>3. LoopInv'
    BY <1>2 DEF PollReturn, Goto
  <2>4. ListenerInv'
    <3>1. Event(polled[0]) \in {"none", "in"}
      BY EventTyped
    <3> QED BY <1>2, <3>1 DEF PollReturn, Goto
  <2>5. WorkerInv'
    BY <1>2 DEF PollReturn, Goto
  <2> QED BY <2>1, <2>2, <2>3, <2>4, <2>5
<1>3. CASE PollFails
  BY <1>3 DEF PollFails, Goto
<1>4. CASE TestCompress
  BY <1>4 DEF TestCompress, Goto
<1>5. CASE ClearCompress
  <2>1. TypeOK'
    <3>1. compact' \in [i : 0 .. nfds', j : 0 .. nfds', nested : BOOLEAN]
      BY <1>5 DEF ClearCompress
    <3> QED BY <1>5, <3>1 DEF ClearCompress, Goto
  <2>2. CompactionInv'
    BY <1>5 DEF ClearCompress, Goto
  <2>3. LoopInv'
    BY <1>5 DEF ClearCompress, Goto
  <2>4. ListenerInv'
    BY <1>5 DEF ClearCompress, Goto
  <2>5. WorkerInv'
    BY <1>5 DEF ClearCompress, Goto
  <2> QED BY <2>1, <2>2, <2>3, <2>4, <2>5
<1>6. CASE ScanSlot
  <2>a. /\ nfds \in Nat /\ compact.i \in 0 .. nfds
        /\ compact \in [i : 0 .. nfds, j : 0 .. nfds, nested : BOOLEAN]
    OBVIOUS
  <2>b. /\ pc = "scan"
        /\ UNCHANGED <<fds, nfds, revents, polled, poll_err, current_size,
                       end_server, info, otherVars>>
    BY <1>6 DEF ScanSlot
  <2>1. CASE compact.i = nfds
    <3>1. /\ UNCHANGED compact
          /\ pc' = IF compact.nested THEN "loop" ELSE "ready"
          /\ i' = IF compact.nested THEN i + 1 ELSE i
      BY <1>6, <2>1 DEF ScanSlot, Goto
    <3>2. i' \in 0 .. MAX_CONNECTIONS
      BY <2>b, <3>1
    <3>3. TypeOK'
      BY <2>b, <3>1, <3>2
    <3>4. CompactionInv' /\ LoopInv'
      BY <2>b, <3>1
    <3>5. ListenerInv' /\ WorkerInv'
      BY <2>b
    <3> QED BY <3>3, <3>4, <3>5
  <2>2. CASE compact.i # nfds /\ fds[compact.i] \in Unpollable
    <3>1. /\ compact' = [compact EXCEPT !.j = compact.i]
          /\ pc' = "shift" /\ i' = i
      BY <1>6, <2>2 DEF ScanSlot, Goto
    <3>2. /\ compact' \in [i : 0 .. nfds, j : 0 .. nfds, nested : BOOLEAN]
          /\ compact'.i = compact.i /\ compact'.j = compact.i
          /\ compact'.nested = compact.nested
      <4> HIDE DEF ServerInv
      <4> QED BY <2>a, <3>1, CompactUpdate
    <3>3. compact.i \in 1 .. nfds - 1
      BY <2>a, <2>2
    <3>4. TypeOK'
      BY <2>b, <3>1, <3>2
    <3>5. CompactionInv'
      BY <2>b, <3>1, <3>2, <3>3
    <3>6. LoopInv' /\ ListenerInv' /\ WorkerInv'
      BY <2>b, <3>1
    <3> QED BY <3>4, <3>5, <3>6
  <2>3. CASE compact.i # nfds /\ fds[compact.i] \notin Unpollable
    <3>1. /\ compact' = [compact EXCEPT !.i = compact.i + 1]
          /\ pc' = pc /\ i' = i
      BY <1>6, <2>3 DEF ScanSlot
    <3>2. compact.i + 1 \in 0 .. nfds
      BY <2>a, <2>3
    <3>3. /\ compact' \in [i : 0 .. nfds, j : 0 .. nfds, nested : BOOLEAN]
          /\ compact'.nested = compact.nested
      <4> HIDE DEF ServerInv
      <4> QED BY <2>a, <3>1, <3>2, CompactUpdate
    <3>4. TypeOK'
      BY <2>b, <3>1, <3>3
    <3>5. CompactionInv' /\ LoopInv' /\ ListenerInv' /\ WorkerInv'
      BY <2>b, <3>1, <3>3
    <3> QED BY <3>4, <3>5
  <2> QED BY <2>1, <2>2, <2>3
<1>7. CASE ShiftSlot
  <2>a. /\ compact.i \in 1 .. nfds - 1 /\ compact.j \in compact.i .. nfds - 1
        /\ compact.nested \in BOOLEAN /\ pc = "shift"
    BY <1>7 DEF ShiftSlot
  <2>b. UNCHANGED <<revents, polled, poll_err, current_size, i, end_server, info,
                    otherVars>>
    BY <1>7 DEF ShiftSlot
  <2>1. CASE compact.j < nfds - 1
    <3>1. /\ compact' = [compact EXCEPT !.j = compact.j + 1]
          /\ fds' = [fds EXCEPT ![compact.j] = fds[compact.j + 1]]
          /\ UNCHANGED <<pc, nfds>>
      BY <1>7, <2>1 DEF ShiftSlot
    <3>2. /\ compact' \in [i : 0 .. nfds', j : 0 .. nfds', nested : BOOLEAN]
          /\ compact'.i = compact.i /\ compact'.j = compact.j + 1
          /\ compact'.nested = compact.nested
      <4>1. /\ nfds \in Nat /\ compact.j + 1 \in 0 .. nfds
            /\ compact \in [i : 0 .. nfds, j : 0 .. nfds, nested : BOOLEAN]
        BY <2>a, <2>1
      <4> HIDE DEF ServerInv
      <4> QED BY <3>1, <4>1, CompactUpdate
    <3>3. /\ compact.j \in Slots \ {0} /\ compact.j + 1 \in Slots \ {0}
          /\ compact.j + 1 <= nfds - 1
      BY <2>a, <2>1
    <3>4. fds' \in [Slots -> Fields]
      BY <3>1, <3>3
    <3>5. TypeOK'
      BY <2>b, <3>1, <3>2, <3>4
    <3>6. CompactionInv' /\ LoopInv' /\ WorkerInv'
      BY <2>a, <2>b, <3>1, <3>2, <3>3
    <3>7. ListenerInv'
      BY <2>b, <3>1, <3>3
    <3> QED BY <3>5, <3>6, <3>7
  <2>2. CASE ~ (compact.j < nfds - 1)
    <3>1. nfds' = nfds - 1 /\ pc' = "scan" /\ UNCHANGED <<fds, compact>>
      BY <1>7, <2>2 DEF ShiftSlot, Goto
    <3>2. compact' \in [i : 0 .. nfds', j : 0 .. nfds', nested : BOOLEAN]
      BY <2>a, <3>1
    <3>3. TypeOK'
      BY <2>a, <2>b, <3>1, <3>2
    <3>4. CompactionInv' /\ LoopInv' /\ WorkerInv' /\ ListenerInv'
      BY <2>a, <2>b, <3>1
    <3> QED BY <3>3, <3>4
  <2> QED BY <2>1, <2>2
<1>8. CASE BeginLoop
  BY <1>8 DEF BeginLoop, Goto
<1>9. CASE EndLoop
  BY <1>9 DEF EndLoop, InLoop, Goto
<1>10. CASE SkipSlot
  BY <1>10 DEF SkipSlot, InLoop, Goto
<1>11. CASE HangUp
  BY <1>11 DEF HangUp, InLoop, Close, Goto
<1>12. CASE HangUpClear
  BY <1>12 DEF HangUpClear, Goto
<1>13. CASE UnexpectedEvent
  BY <1>13 DEF UnexpectedEvent, InLoop, Goto
<1>14. CASE BeginAccept
  BY <1>14 DEF BeginAccept, InLoop, Goto
<1>15. CASE EndAccept
  BY <1>15 DEF EndAccept, Goto
<1>16. ASSUME NEW c \in Conns, RejectConnection(c) PROVE ServerInv'
  BY <1>16 DEF RejectConnection, Goto
<1>17. ASSUME NEW c \in Conns, NEW d \in Descriptors, Accept(c, d)
       PROVE  ServerInv'
  BY <1>17 DEF Accept, FreeDescriptors, Goto
<1>18. CASE Dispatch
  <2>1. TypeOK'
    <3>1. info' \in [old_fd : Slots, fd : Fields]
      BY <1>18, i \in Slots, info.fd \in Fields, InfoUpdate DEF Dispatch, InLoop
    <3>2. poll_err' \in Nat
      BY <1>18 DEF Dispatch, InLoop
    <3>3. UNCHANGED <<fds, nfds, revents, polled, loopVars, compact, otherVars>>
      BY <1>18 DEF Dispatch
    <3>4. pc' = "fill"
      BY <1>18 DEF Dispatch, Goto
    <3> QED BY <3>1, <3>2, <3>3, <3>4
  <2>2. CompactionInv'
    BY <1>18 DEF Dispatch, InLoop, Goto
  <2>3. LoopInv'
    BY <1>18 DEF Dispatch, InLoop, Goto
  <2>4. ListenerInv'
    BY <1>18 DEF Dispatch, InLoop, Goto
  <2>5. WorkerInv'
    BY <1>18 DEF Dispatch, InLoop, Goto
  <2> QED BY <2>1, <2>2, <2>3, <2>4, <2>5
<1>19. CASE FillInfo
  <2>1. TypeOK'
    <3>1. info' \in [old_fd : Slots, fd : Fields]
      BY <1>19, i \in Slots, fds[i] \in Fields, InfoUpdate DEF FillInfo
    <3> QED BY <1>19, <3>1 DEF FillInfo, Goto
  <2>2. CompactionInv'
    BY <1>19 DEF FillInfo, Goto
  <2>3. LoopInv'
    BY <1>19 DEF FillInfo, Goto
  <2>4. ListenerInv'
    BY <1>19 DEF FillInfo, Goto
  <2>5. WorkerInv'
    BY <1>19 DEF FillInfo, Goto
  <2> QED BY <2>1, <2>2, <2>3, <2>4, <2>5
<1>20. CASE StopPolling
  BY <1>20 DEF StopPolling, Goto
<1>21. CASE AddTask
  BY <1>21 DEF AddTask, Goto
<1>22. CASE CloseSlot
  BY <1>22 DEF CloseSlot, Close, Goto
<1>23. CASE DestroyPool
  BY <1>23 DEF DestroyPool, Goto
<1>24. ASSUME NEW w \in Workers, TakeTask(w) PROVE ServerInv'
  BY <1>24 DEF TakeTask, Step
<1>25. ASSUME NEW w \in Workers, CountIn(w) PROVE ServerInv'
  BY <1>25 DEF CountIn, Step
<1>26. ASSUME NEW w \in Workers, ReadOldFd(w) PROVE ServerInv'
  BY <1>26 DEF ReadOldFd, Step
<1>27. ASSUME NEW w \in Workers, ReadFd(w) PROVE ServerInv'
  BY <1>27 DEF ReadFd, Step
<1>28. ASSUME NEW w \in Workers, RecvError(w) PROVE ServerInv'
  BY <1>28 DEF RecvError, Step
<1>29. ASSUME NEW w \in Workers, RecvQuery(w) PROVE ServerInv'
  BY <1>29 DEF RecvQuery, ConnOf, Step
<1>30. ASSUME NEW w \in Workers, RecvEnd(w) PROVE ServerInv'
  BY <1>30 DEF RecvEnd, Step
<1>31. ASSUME NEW w \in Workers, RecvWouldBlock(w) PROVE ServerInv'
  <2>1. TypeOK'
    BY <1>31 DEF RecvWouldBlock, Step
  <2>2. CompactionInv'
    BY <1>31 DEF RecvWouldBlock, Step
  <2>3. LoopInv'
    BY <1>31 DEF RecvWouldBlock, Step
  <2>4. ListenerInv'
    BY <1>31 DEF RecvWouldBlock, Step
  <2>5. WorkerInv'
    BY <1>31 DEF RecvWouldBlock, Step
  <2> QED BY <2>1, <2>2, <2>3, <2>4, <2>5
<1>32. ASSUME NEW w \in Workers, SendAnswer(w) PROVE ServerInv'
  <2>1. TypeOK'
    BY <1>32 DEF SendAnswer, CanSend, ConnOf, Step
  <2>2. CompactionInv'
    BY <1>32 DEF SendAnswer, CanSend, ConnOf, Step
  <2>3. LoopInv'
    BY <1>32 DEF SendAnswer, CanSend, ConnOf, Step
  <2>4. ListenerInv'
    BY <1>32 DEF SendAnswer, CanSend, ConnOf, Step
  <2>5. WorkerInv'
    BY <1>32 DEF SendAnswer, CanSend, ConnOf, Step
  <2> QED BY <2>1, <2>2, <2>3, <2>4, <2>5
<1>45. ASSUME NEW w \in Workers, SendPart(w) PROVE ServerInv'
  BY <1>45 DEF SendPart, CanSend, ConnOf, Step
<1>33. ASSUME NEW w \in Workers, SendError(w) PROVE ServerInv'
  <2>1. TypeOK'
    BY <1>33 DEF SendError, Step
  <2>2. CompactionInv'
    BY <1>33 DEF SendError, Step
  <2>3. LoopInv'
    BY <1>33 DEF SendError, Step
  <2>4. ListenerInv'
    BY <1>33 DEF SendError, Step
  <2>5. WorkerInv'
    BY <1>33 DEF SendError, Step
  <2> QED BY <2>1, <2>2, <2>3, <2>4, <2>5
<1>44. ASSUME NEW w \in Workers, BrokenPipe(w) PROVE ServerInv'
  BY <1>44 DEF BrokenPipe, Goto
<1>34. ASSUME NEW w \in Workers, CloseConn(w) PROVE ServerInv'
  BY <1>34 DEF CloseConn, Close, Step
<1>35. ASSUME NEW w \in Workers, ClearSlot(w) PROVE ServerInv'
  BY <1>35 DEF ClearSlot, WriteSlot, Step
<1>36. ASSUME NEW w \in Workers, RestoreSlot(w) PROVE ServerInv'
  BY <1>36 DEF RestoreSlot, WriteSlot, Step
<1>37. ASSUME NEW w \in Workers, SetCompress(w) PROVE ServerInv'
  BY <1>37 DEF SetCompress, Step
<1>38. ASSUME NEW w \in Workers, CountOut(w) PROVE ServerInv'
  BY <1>38 DEF CountOut, Step
<1>39. ASSUME NEW c \in Conns, Connect(c) PROVE ServerInv'
  BY <1>39 DEF Connect, ClientStep
<1>40. ASSUME NEW c \in Conns, SendQuery(c) PROVE ServerInv'
  BY <1>40 DEF SendQuery, ClientStep
<1>41. ASSUME NEW c \in Conns, Leave(c) PROVE ServerInv'
  BY <1>41 DEF Leave, ClientStep
<1>42. ASSUME NEW c \in Conns, Vanish(c) PROVE ServerInv'
  BY <1>42 DEF Vanish, ClientStep
<1>46. ASSUME NEW c \in Conns, ReadAnswer(c) PROVE ServerInv'
  BY <1>46 DEF ReadAnswer
<1>43. CASE UNCHANGED vars
  BY <1>43 DEF vars
<1> QED
  BY <1>1, <1>2, <1>3, <1>4, <1>5, <1>6, <1>7, <1>8, <1>9, <1>10, <1>11,
     <1>12, <1>13, <1>14, <1>15, <1>16, <1>17, <1>18, <1>19, <1>20, <1>21,
     <1>22, <1>23, <1>24, <1>25, <1>26, <1>27, <1>28, <1>29, <1>30, <1>31,
     <1>32, <1>33, <1>34, <1>35, <1>36, <1>37, <1>38, <1>39, <1>40, <1>41,
     <1>42, <1>43, <1>44, <1>45, <1>46
     DEF Next, MainStep, WorkerStep, ClientNext

(* The server starts with nothing but the listening socket in fds. *)
LEMMA ServerInvInitially == Init => ServerInv
<1> SUFFICES ASSUME Init PROVE ServerInv
  OBVIOUS
<1> USE ServerAssumption
    DEF Init, Slots, Fields, Unpollable, FD_UNUSED, FD_STOP_POLLING
<1>1. TypeOK
  <2>1. /\ compact \in [i : 0 .. nfds, j : 0 .. nfds, nested : BOOLEAN]
        /\ info \in [old_fd : Slots, fd : Fields]
    OBVIOUS
  <2>2. fds \in [Slots -> Fields] /\ polled \in [Slots -> Fields]
    OBVIOUS
  <2>3. /\ wpc \in [Workers -> WorkerPCs]
        /\ old_fd \in [Workers -> Slots] /\ fd \in [Workers -> Fields]
        /\ buffer \in [Workers -> Conns \cup {NoConn}]
    BY DEF WorkerPCs
  <2>4. /\ revents \in [Slots -> Events]
        /\ socket \in [Descriptors -> Conns \cup {NoConn}]
        /\ inbox \in [Conns -> BOOLEAN]
        /\ peer \in [Conns -> {"off", "open", "waiting", "fin", "rst"}]
        /\ queries \in [Conns -> 0 .. MaxQueries]
        /\ room \in [Conns -> BOOLEAN]
    BY DEF Events
  <2>5. /\ nfds \in 1 .. MAX_CONNECTIONS /\ task_count \in 0 .. MAX_TASK_NUM
        /\ current_size \in 0 .. MAX_CONNECTIONS /\ i \in 0 .. MAX_CONNECTIONS
        /\ poll_err \in Nat /\ num_threads_executing \in Int
    OBVIOUS
  <2>6. /\ pc \in MainPCs
        /\ end_server \in BOOLEAN /\ compress_array \in BOOLEAN
        /\ backlog \subseteq Conns
    BY DEF MainPCs
  <2> HIDE DEF Init, Slots, Fields
  <2> QED BY <2>1, <2>2, <2>3, <2>4, <2>5, <2>6 DEF TypeOK
<1>2. CompactionInv /\ LoopInv /\ WorkerInv
  BY DEF CompactionInv, LoopInv, WorkerInv
<1>3. ListenerInv
  BY DEF ListenerInv, ListenerKept
<1> QED BY <1>1, <1>2, <1>3 DEF ServerInv

(* Every variable keeps its type: in particular nfds stays within fds, and so
   does every index that main and the workers use on it.                      *)
THEOREM ServerTypeCorrect == Spec => []TypeOK
<1>1. ServerInv => TypeOK
  BY DEF ServerInv
<1> QED BY <1>1, ServerInvInitially, ServerInvInductive, PTL DEF Spec

(* The listening socket stays in slot 0 and in no worker's hands, whatever main
   and the workers write into fds at the same time.                           *)
THEOREM ServerListenerKept == Spec => []ListenerKept
<1>1. ServerInv => ListenerKept
  BY DEF ServerInv, ListenerInv
<1> QED BY <1>1, ServerInvInitially, ServerInvInductive, PTL DEF Spec

(* No cleared slot is forgotten.  The order of the writes is what matters: a
   worker clears its slot before it sets compress_array, main clears
   compress_array before it scans, so a slot cleared during a scan either lies
   ahead of the scan or will be announced; copies made by the compaction only
   move a slot to an index the scan has yet to visit.                         *)
THEOREM ServerForgetsNoDeadSlot == Spec => []NoDeadSlotForgotten
<1>1. Init => NoDeadSlotForgotten
  BY DEF Init, NoDeadSlotForgotten
<1>2. ServerInv /\ NoDeadSlotForgotten /\ [Next]_vars => NoDeadSlotForgotten'
  <2> SUFFICES ASSUME ServerInv, NoDeadSlotForgotten, [Next]_vars
               PROVE NoDeadSlotForgotten'
    OBVIOUS
  <2>a. /\ MAX_CONNECTIONS \in Nat
        /\ fds \in [Slots -> Fields] /\ nfds \in 1 .. MAX_CONNECTIONS
        /\ compact \in [i : 0 .. nfds, j : 0 .. nfds, nested : BOOLEAN]
        /\ compact.i \in Nat /\ compact.j \in Nat
        /\ pc = "shift" => compact.i <= compact.j
        /\ wpc \in [Workers -> WorkerPCs] /\ old_fd \in [Workers -> Slots]
        /\ i \in Nat
        /\ \A w \in Workers : wpc[w] = "restore" => fd[w] # FD_UNUSED
        /\ FD_UNUSED \notin Descriptors
    BY ServerAssumption DEF ServerInv, TypeOK, CompactionInv, WorkerInv
  <2> USE <2>a DEF NoDeadSlotForgotten, Slots, Unpollable, FD_UNUSED,
          FD_STOP_POLLING, WorkerPCs, poolVars, localVars, clientVars, netVars,
          otherVars, arrayVars, pollVars, loopVars, mainVars
  <2>1. CASE PollCall
    BY <2>1 DEF PollCall, Goto
  <2>2. CASE PollReturn
    BY <2>2 DEF PollReturn, Goto
  <2>3. CASE PollFails
    BY <2>3 DEF PollFails, Goto
  <2>4. CASE TestCompress
    BY <2>4 DEF TestCompress, Goto
  <2>5. CASE ClearCompress
    BY <2>5 DEF ClearCompress, Goto
  <2>6. CASE ScanSlot
    <3>1. CASE compact.i = nfds
      BY <2>6, <3>1 DEF ScanSlot, Goto
    <3>2. CASE compact.i # nfds /\ fds[compact.i] \in Unpollable
      <4>1. compact' = [compact EXCEPT !.j = compact.i]
        BY <2>6, <3>2 DEF ScanSlot
      <4>2. compact'.i = compact.i
        BY <4>1
      <4> QED BY <2>6, <3>2, <4>2 DEF ScanSlot, Goto
    <3>3. CASE compact.i # nfds /\ fds[compact.i] \notin Unpollable
      <4>1. compact' = [compact EXCEPT !.i = compact.i + 1]
        BY <2>6, <3>3 DEF ScanSlot
      <4>2. compact'.i = compact.i + 1
        BY <4>1
      <4> QED BY <2>6, <3>3, <4>2 DEF ScanSlot
    <3> QED BY <3>1, <3>2, <3>3
  <2>7. CASE ShiftSlot
    <3>1. CASE compact.j < nfds - 1
      <4>1. /\ compact' = [compact EXCEPT !.j = compact.j + 1]
            /\ fds' = [fds EXCEPT ![compact.j] = fds[compact.j + 1]]
            /\ UNCHANGED <<pc, nfds, compress_array, wpc>>
            /\ pc = "shift"
        BY <2>7, <3>1 DEF ShiftSlot
      <4>2. compact'.i = compact.i
        BY <4>1
      <4>3. compact.j + 1 \in 1 .. nfds - 1
        BY <3>1
      <4>4. \A k \in 1 .. nfds - 1 :
              fds'[k] = FD_UNUSED => fds[k] = FD_UNUSED \/ k = compact.j
        BY <4>1
      <4> QED BY <4>1, <4>2, <4>3, <4>4
    <3>2. CASE ~ (compact.j < nfds - 1)
      BY <2>7, <3>2 DEF ShiftSlot, Goto
    <3> QED BY <3>1, <3>2
  <2>8. CASE BeginLoop
    BY <2>8 DEF BeginLoop, Goto
  <2>9. CASE EndLoop
    BY <2>9 DEF EndLoop, InLoop, Goto
  <2>10. CASE SkipSlot
    BY <2>10 DEF SkipSlot, InLoop, Goto
  <2>11. CASE HangUp
    BY <2>11 DEF HangUp, InLoop, Goto
  <2>12. CASE HangUpClear
    BY <2>12 DEF HangUpClear, Goto
  <2>13. CASE UnexpectedEvent
    BY <2>13 DEF UnexpectedEvent, InLoop, Goto
  <2>14. CASE BeginAccept
    BY <2>14 DEF BeginAccept, InLoop, Goto
  <2>15. CASE EndAccept
    BY <2>15 DEF EndAccept, Goto
  <2>16. ASSUME NEW c \in Conns, RejectConnection(c) PROVE NoDeadSlotForgotten'
    BY <2>16 DEF RejectConnection, Goto
  <2>17. ASSUME NEW c \in Conns, NEW d \in Descriptors, Accept(c, d)
         PROVE  NoDeadSlotForgotten'
    <3>1. /\ fds' = [fds EXCEPT ![nfds] = d] /\ nfds' = nfds + 1
          /\ UNCHANGED <<pc, compact, compress_array, wpc>>
      BY <2>17 DEF Accept
    <3>2. nfds \in Slots
      BY <2>17 DEF Accept
    <3>3. \A k \in 1 .. nfds' - 1 :
            fds'[k] = FD_UNUSED => k \in 1 .. nfds - 1 /\ fds[k] = FD_UNUSED
      BY <3>1, <3>2
    <3> QED BY <3>1, <3>3
  <2>18. CASE Dispatch
    BY <2>18 DEF Dispatch, InLoop, Goto
  <2>19. CASE FillInfo
    BY <2>19 DEF FillInfo, Goto
  <2>20. CASE StopPolling
    BY <2>20 DEF StopPolling, Goto
  <2>21. CASE AddTask
    BY <2>21 DEF AddTask, Goto
  <2>22. CASE CloseSlot
    BY <2>22 DEF CloseSlot, Goto
  <2>23. CASE DestroyPool
    BY <2>23 DEF DestroyPool, Goto
  <2>24. ASSUME NEW w \in Workers, TakeTask(w) PROVE NoDeadSlotForgotten'
    BY <2>24 DEF TakeTask, Step
  <2>25. ASSUME NEW w \in Workers, CountIn(w) PROVE NoDeadSlotForgotten'
    BY <2>25 DEF CountIn, Step
  <2>26. ASSUME NEW w \in Workers, ReadOldFd(w) PROVE NoDeadSlotForgotten'
    BY <2>26 DEF ReadOldFd, Step
  <2>27. ASSUME NEW w \in Workers, ReadFd(w) PROVE NoDeadSlotForgotten'
    BY <2>27 DEF ReadFd, Step
  <2>28. ASSUME NEW w \in Workers, RecvError(w) PROVE NoDeadSlotForgotten'
    BY <2>28 DEF RecvError, Step
  <2>29. ASSUME NEW w \in Workers, RecvQuery(w) PROVE NoDeadSlotForgotten'
    BY <2>29 DEF RecvQuery, Step
  <2>30. ASSUME NEW w \in Workers, RecvEnd(w) PROVE NoDeadSlotForgotten'
    BY <2>30 DEF RecvEnd, Step
  <2>31. ASSUME NEW w \in Workers, RecvWouldBlock(w) PROVE NoDeadSlotForgotten'
    BY <2>31 DEF RecvWouldBlock, Step
  <2>32. ASSUME NEW w \in Workers, SendAnswer(w) PROVE NoDeadSlotForgotten'
    BY <2>32 DEF SendAnswer, Step
  <2>42. ASSUME NEW w \in Workers, SendPart(w) PROVE NoDeadSlotForgotten'
    BY <2>42 DEF SendPart, Step
  <2>33. ASSUME NEW w \in Workers, SendError(w) PROVE NoDeadSlotForgotten'
    BY <2>33 DEF SendError, Step
  <2>41. ASSUME NEW w \in Workers, BrokenPipe(w) PROVE NoDeadSlotForgotten'
    BY <2>41 DEF BrokenPipe, Goto
  <2>34. ASSUME NEW w \in Workers, CloseConn(w) PROVE NoDeadSlotForgotten'
    BY <2>34 DEF CloseConn, Step
  <2>35. ASSUME NEW w \in Workers, ClearSlot(w) PROVE NoDeadSlotForgotten'
    BY <2>35 DEF ClearSlot, WriteSlot, Step
  <2>36. ASSUME NEW w \in Workers, RestoreSlot(w) PROVE NoDeadSlotForgotten'
    BY <2>36 DEF RestoreSlot, WriteSlot, Step
  <2>37. ASSUME NEW w \in Workers, SetCompress(w) PROVE NoDeadSlotForgotten'
    BY <2>37 DEF SetCompress, Step
  <2>38. ASSUME NEW w \in Workers, CountOut(w) PROVE NoDeadSlotForgotten'
    BY <2>38 DEF CountOut, Step
  <2>39. CASE ClientNext
    <3>1. ASSUME NEW c \in Conns,
                 Connect(c) \/ SendQuery(c) \/ Leave(c) \/ Vanish(c) \/ ReadAnswer(c)
          PROVE  UNCHANGED <<mainVars, poolVars, wpc>>
      BY <3>1 DEF Connect, SendQuery, Leave, Vanish, ReadAnswer, ClientStep
    <3>2. UNCHANGED <<mainVars, poolVars, wpc>>
      BY <2>39, <3>1 DEF ClientNext
    <3> QED BY <3>2
  <2>40. CASE UNCHANGED vars
    BY <2>40 DEF vars
  <2> QED
    BY <2>1, <2>2, <2>3, <2>4, <2>5, <2>6, <2>7, <2>8, <2>9, <2>10, <2>11,
       <2>12, <2>13, <2>14, <2>15, <2>16, <2>17, <2>18, <2>19, <2>20, <2>21,
       <2>22, <2>23, <2>24, <2>25, <2>26, <2>27, <2>28, <2>29, <2>30, <2>31,
       <2>32, <2>33, <2>34, <2>35, <2>36, <2>37, <2>38, <2>39, <2>40, <2>41,
       <2>42 DEF Next, MainStep, WorkerStep
<1> QED
  BY <1>1, <1>2, ServerInvInitially, ServerInvInductive, PTL DEF Spec

-------------------------------------------------------------------------------
(* One client.  Where main is in a round of the loop, and what it knows of
   slot 1.                                                                    *)

Ended == pc \in {"shutdown", "stuck", "exited"}
Parking == pc \in {"fill", "park", "add"}
Compacting == pc \in {"clear", "scan", "shift", "hangup"}

(* revents[1] is of this round, and main has yet to look at it. *)
Unread ==
  \/ nfds = 2 /\ pc \in {"test", "clear", "ready"}
  \/ nfds = 2 /\ pc \in {"scan", "shift"} /\ ~compact.nested
  \/ current_size = 2 /\ pc = "accept"
  \/ current_size = 2 /\ pc = "loop" /\ i <= 1

(* The round finds nothing in slot 1, or what is true of the client. *)
Untold == (Unread => revents[1] = "none") /\ (pc = "sleep" => polled[1] \in Unpollable)
Told(c, d) ==
  /\ Unread => \/ revents[1] = "none"
               \/ revents[1] = "in" /\ Readable(c)
               \/ revents[1] = "hup" /\ peer[c] = "rst"
  /\ pc = "sleep" => polled[1] \in Unpollable \cup {d}

(* With one client no slot but the first two is in use, and the slot that the
   loop handles is the client's.                                              *)
PlaceInv(c) ==
  /\ nfds <= 2 /\ current_size <= 2
  /\ pc \in {"hangup", "fill", "park", "add"} => i = 1
  /\ pc = "accept" => i = 0
  /\ pc \in {"scan", "shift"} /\ compact.nested => i = 1
  /\ backlog # {} => peer[c] # "off"

(* The connection goes from one of these to the next, or back from Handed to
   Waiting.                                                                   *)
NoneOpen == \A d \in Descriptors : socket[d] = NoConn
OnlyOpen(c, d) == socket[d] = c /\ \A e \in Descriptors : e # d => socket[e] = NoConn
Out(c) == backlog = {} /\ peer[c] # "off"
Free(w) == wpc[w] \in {"idle", "done"}

Fresh ==
  /\ NoneOpen /\ nfds = 1
  /\ task_count = 0 /\ ~compress_array /\ \A w \in Workers : Free(w)
  /\ ~Parking /\ ~Compacting
  /\ revents[1] = "none" /\ polled[1] \in Unpollable /\ fds[1] \in Unpollable

Waiting(c, d) ==
  /\ Out(c) /\ OnlyOpen(c, d) /\ nfds = 2 /\ fds[1] = d
  /\ task_count = 0 /\ ~compress_array /\ \A w \in Workers : Free(w)
  /\ ~Parking /\ ~Compacting
  /\ Told(c, d)

Dispatched(c, d) ==
  /\ Out(c) /\ OnlyOpen(c, d) /\ nfds = 2 /\ fds[1] = IF pc = "add" THEN FD_STOP_POLLING ELSE d
  /\ task_count = 0 /\ ~compress_array /\ \A w \in Workers : Free(w)
  /\ Parking /\ info.old_fd = 1 /\ (pc # "fill" => info.fd = d)

(* A worker that is on the way from the queue to the end of the task. *)
Carries(w, d) ==
  /\ wpc[w] \in {"taken", "begun", "half", "recv", "send", "rest", "close", "restore"}
  /\ wpc[w] \in {"taken", "begun"} => info.old_fd = 1 /\ info.fd = d
  /\ wpc[w] = "half" => info.fd = d /\ old_fd[w] = 1
  /\ wpc[w] \in {"recv", "send", "rest", "close", "restore"} => old_fd[w] = 1 /\ fd[w] = d

Handed(c, d) ==
  /\ Out(c) /\ OnlyOpen(c, d) /\ nfds = 2 /\ fds[1] = FD_STOP_POLLING
  /\ \/ task_count = 1 /\ info.old_fd = 1 /\ info.fd = d /\ \A w \in Workers : Free(w)
     \/ task_count = 0 /\ \E w \in Workers : Carries(w, d) /\ \A v \in Workers : v # w => Free(v)
  /\ ~compress_array /\ ~Parking /\ ~Compacting
  /\ Untold

Over(c) ==
  /\ Out(c) /\ NoneOpen /\ task_count = 0 /\ ~Parking
  /\ \A w \in Workers : Free(w) \/ wpc[w] = "flag" \/ (wpc[w] = "clear" /\ old_fd[w] = 1)
  /\ fds[1] \in Unpollable \/ pc = "hangup" \/ Ended
  /\ Untold

ClientInv(c) ==
  /\ PlaceInv(c)
  /\ \/ Fresh \/ Over(c)
     \/ \E d \in Descriptors : Waiting(c, d) \/ Dispatched(c, d) \/ Handed(c, d)

-------------------------------------------------------------------------------
LEMMA ClientStart ==
  ASSUME NEW c \in Conns, Conns = {c}, Init
  PROVE  ClientInv(c)
<1>1. PlaceInv(c)
  BY ServerAssumption DEF Init, PlaceInv
<1>2. Fresh
  BY ServerAssumption DEF Init, Fresh, NoneOpen, Free, Parking, Compacting, Slots, Unpollable
<1>. QED BY <1>1, <1>2 DEF ClientInv

LEMMA ClientStepKeeps ==
  ASSUME NEW c \in Conns, Conns = {c}, ServerInv, ClientInv(c), [Next]_vars
  PROVE  ClientInv(c)'
<1>a. /\ MAX_CONNECTIONS \in Nat /\ 0 \in Slots /\ 1 \in Slots /\ MAX_CONNECTIONS >= 2
      /\ fds \in [Slots -> Fields] /\ polled \in [Slots -> Fields] /\ revents \in [Slots -> Events]
      /\ fds[0] = listen_sd /\ fds[1] # listen_sd /\ (\A k \in Slots : fds[k] = listen_sd => k = 0)
      /\ revents[0] \in {"none", "in"}
      /\ listen_sd \notin Descriptors /\ listen_sd \notin Unpollable
      /\ Unpollable \cap Descriptors = {} /\ FD_UNUSED \in Unpollable /\ FD_STOP_POLLING \in Unpollable
      /\ NoConn # c
  BY ServerAssumption DEF ServerInv, TypeOK, ListenerInv, ListenerKept, Slots, Unpollable, FD_UNUSED, FD_STOP_POLLING
<1>b. /\ nfds \in Nat /\ nfds >= 1 /\ current_size \in Nat /\ i \in Nat /\ task_count \in Nat
      /\ compact.i \in Nat /\ compact.j \in Nat
      /\ pc = "shift" => 1 <= compact.i /\ compact.i <= compact.j /\ compact.j <= nfds - 1
      /\ wpc \in [Workers -> WorkerPCs] /\ old_fd \in [Workers -> Slots] /\ fd \in [Workers -> Fields]
      /\ socket \in [Descriptors -> {c, NoConn}] /\ backlog \subseteq {c}
      /\ peer \in [{c} -> {"off", "open", "waiting", "fin", "rst"}]
      /\ inbox \in [{c} -> BOOLEAN] /\ compact.nested \in BOOLEAN
  BY ServerAssumption DEF ServerInv, TypeOK, CompactionInv
<1>c. pc \in {"hangup", "accept", "fill", "park", "add"} => i < current_size
  BY DEF ServerInv, LoopInv
<1>. USE <1>a, <1>b, <1>c
     DEF ClientInv, PlaceInv, Fresh, Over, Waiting, Dispatched, Handed, Carries, Told, Untold, Unread,
         Out, OnlyOpen, NoneOpen, Free, Ended, Parking, Compacting, Readable,
         poolVars, localVars, clientVars, netVars, otherVars, arrayVars, pollVars, loopVars, mainVars, WorkerPCs
<1>1. CASE PollCall
  BY <1>1 DEF PollCall, Goto
<1>2. CASE PollReturn
  <2>1. /\ revents'[1] = IF nfds = 2 THEN Event(polled[1]) ELSE revents[1]
        /\ pc = "sleep" /\ pc' = "test"
        /\ UNCHANGED <<arrayVars, polled, loopVars, compact, info, otherVars>>
    BY <1>2 DEF PollReturn, Goto
  <2>2. polled[1] \in Unpollable => Event(polled[1]) = "none"
    <3>1. \A f \in Unpollable : f # listen_sd /\ ConnOf(f) = NoConn
      BY DEF ConnOf
    <3>2. NoConn \notin Conns
      BY ServerAssumption
    <3>. HIDE <1>a, <1>b, <1>c
    <3>. QED BY <3>1, <3>2 DEF Event
  <2>3. \A d \in Descriptors : polled[1] = d /\ socket[d] = c =>
          \/ Event(polled[1]) = "none"
          \/ Event(polled[1]) = "in" /\ Readable(c)
          \/ Event(polled[1]) = "hup" /\ peer[c] = "rst"
    BY DEF Event, ConnOf
  <2>. QED BY <2>1, <2>2, <2>3
<1>3. CASE PollFails
  BY <1>3 DEF PollFails, Goto
<1>4. CASE TestCompress
  BY <1>4 DEF TestCompress, Goto
<1>5. CASE ClearCompress
  BY <1>5 DEF ClearCompress, Goto
<1>6. CASE ScanSlot
  <2>1. /\ pc = "scan"
        /\ UNCHANGED <<arrayVars, pollVars, current_size, end_server, info, otherVars>>
    BY <1>6 DEF ScanSlot
  <2>2. CASE compact.i = nfds
    <3>1. /\ compact' = compact /\ pc' = IF compact.nested THEN "loop" ELSE "ready"
          /\ i' = IF compact.nested THEN i + 1 ELSE i
      BY <1>6, <2>2 DEF ScanSlot, Goto
    <3>. QED BY <2>1, <3>1
  <2>3. CASE compact.i # nfds
    <3>1. /\ pc' \in {"scan", "shift"} /\ i' = i
          /\ \E k : compact' = [compact EXCEPT !.i = k] \/ compact' = [compact EXCEPT !.j = k]
      BY <1>6, <2>3 DEF ScanSlot, Goto
    <3>2. compact'.nested = compact.nested
      <4>1. compact \in [i : 0 .. nfds, j : 0 .. nfds, nested : BOOLEAN]
        BY DEF ServerInv, TypeOK
      <4>. QED BY <3>1, <4>1
    <3>. QED BY <2>1, <3>1, <3>2
  <2>. QED BY <2>2, <2>3
<1>7. CASE ShiftSlot
  BY <1>7 DEF ShiftSlot, Goto
<1>8. CASE BeginLoop
  BY <1>8 DEF BeginLoop, Goto
<1>9. CASE EndLoop
  BY <1>9 DEF EndLoop, InLoop, Goto
<1>10. CASE SkipSlot
  BY <1>10 DEF SkipSlot, InLoop, Goto
<1>11. CASE HangUp
  BY <1>11 DEF HangUp, InLoop, Close, Goto
<1>12. CASE HangUpClear
  BY <1>12 DEF HangUpClear, Goto
<1>13. CASE UnexpectedEvent
  BY <1>13 DEF UnexpectedEvent, InLoop, Goto
<1>14. CASE BeginAccept
  BY <1>14 DEF BeginAccept, InLoop, Goto
<1>15. CASE EndAccept
  BY <1>15 DEF EndAccept, Goto
<1>16. CASE Dispatch
  BY <1>16 DEF Dispatch, InLoop, Goto
<1>17. CASE FillInfo
  BY <1>17 DEF FillInfo, Goto
<1>18. CASE StopPolling
  BY <1>18 DEF StopPolling, Goto
<1>19. CASE AddTask
  BY <1>19 DEF AddTask, Goto
<1>20. CASE CloseSlot
  BY <1>20 DEF CloseSlot, Close, Goto
<1>21. CASE DestroyPool
  BY <1>21 DEF DestroyPool, Goto
<1>22. ASSUME NEW b \in Conns, RejectConnection(b)
      PROVE  ClientInv(c)'
  BY <1>22 DEF RejectConnection, Goto
<1>23. ASSUME NEW b \in Conns, NEW d \in Descriptors, Accept(b, d)
      PROVE  ClientInv(c)'
  BY <1>23 DEF Accept, Goto
<1>24. ASSUME NEW w \in Workers, TakeTask(w)
      PROVE  ClientInv(c)'
  BY <1>24 DEF TakeTask, Step
<1>25. ASSUME NEW w \in Workers, CountIn(w)
      PROVE  ClientInv(c)'
  BY <1>25 DEF CountIn, Step
<1>26. ASSUME NEW w \in Workers, ReadOldFd(w)
      PROVE  ClientInv(c)'
  BY <1>26 DEF ReadOldFd, Step
<1>27. ASSUME NEW w \in Workers, ReadFd(w)
      PROVE  ClientInv(c)'
  BY <1>27 DEF ReadFd, Step
<1>28. ASSUME NEW w \in Workers, RecvError(w)
      PROVE  ClientInv(c)'
  BY <1>28 DEF RecvError, ConnOf, Step
<1>29. ASSUME NEW w \in Workers, RecvQuery(w)
      PROVE  ClientInv(c)'
  BY <1>29 DEF RecvQuery, ConnOf, Step
<1>30. ASSUME NEW w \in Workers, RecvEnd(w)
      PROVE  ClientInv(c)'
  BY <1>30 DEF RecvEnd, ConnOf, Step
<1>31. ASSUME NEW w \in Workers, RecvWouldBlock(w)
      PROVE  ClientInv(c)'
  BY <1>31 DEF RecvWouldBlock, ConnOf, Step
<1>32. ASSUME NEW w \in Workers, SendAnswer(w)
      PROVE  ClientInv(c)'
  BY <1>32 DEF SendAnswer, CanSend, ConnOf, Step
<1>45. ASSUME NEW w \in Workers, SendPart(w)
      PROVE  ClientInv(c)'
  BY <1>45 DEF SendPart, CanSend, ConnOf, Step
<1>33. ASSUME NEW w \in Workers, SendError(w)
      PROVE  ClientInv(c)'
  BY <1>33 DEF SendError, ConnOf, Step
<1>34. ASSUME NEW w \in Workers, BrokenPipe(w)
      PROVE  ClientInv(c)'
  BY <1>34 DEF BrokenPipe, Goto, Step
<1>35. ASSUME NEW w \in Workers, CloseConn(w)
      PROVE  ClientInv(c)'
  BY <1>35 DEF CloseConn, Close, Step
<1>36. ASSUME NEW w \in Workers, ClearSlot(w)
      PROVE  ClientInv(c)'
  BY <1>36 DEF ClearSlot, WriteSlot, Step
<1>37. ASSUME NEW w \in Workers, RestoreSlot(w)
      PROVE  ClientInv(c)'
  BY <1>37 DEF RestoreSlot, WriteSlot, Step
<1>38. ASSUME NEW w \in Workers, SetCompress(w)
      PROVE  ClientInv(c)'
  BY <1>38 DEF SetCompress, Step
<1>39. ASSUME NEW w \in Workers, CountOut(w)
      PROVE  ClientInv(c)'
  BY <1>39 DEF CountOut, Step
<1>40. ASSUME NEW b \in Conns, Connect(b)
      PROVE  ClientInv(c)'
  BY <1>40 DEF Connect, ClientStep, Held
<1>41. ASSUME NEW b \in Conns, SendQuery(b)
      PROVE  ClientInv(c)'
  BY <1>41 DEF SendQuery, ClientStep, Held
<1>42. ASSUME NEW b \in Conns, Leave(b)
      PROVE  ClientInv(c)'
  BY <1>42 DEF Leave, ClientStep, Held
<1>43. ASSUME NEW b \in Conns, Vanish(b)
      PROVE  ClientInv(c)'
  BY <1>43 DEF Vanish, ClientStep, Held
<1>46. ASSUME NEW b \in Conns, ReadAnswer(b)
      PROVE  ClientInv(c)'
  BY <1>46 DEF ReadAnswer
<1>44. CASE UNCHANGED vars
  BY <1>44 DEF vars
<1>. HIDE DEF ClientInv
<1>. QED BY <1>1, <1>2, <1>3, <1>4, <1>5, <1>6, <1>7, <1>8, <1>9, <1>10, <1>11, <1>12, <1>13, <1>14, <1>15, <1>16, <1>17, <1>18, <1>19, <1>20, <1>21, <1>22, <1>23, <1>24, <1>25, <1>26, <1>27, <1>28, <1>29, <1>30, <1>31, <1>32, <1>33, <1>34, <1>35, <1>36, <1>37, <1>38, <1>39, <1>40, <1>41, <1>42, <1>43, <1>44, <1>45, <1>46 DEF Next, MainStep, WorkerStep, ClientNext

-------------------------------------------------------------------------------
OneClient == \E c \in Conns : Conns = {c}

LEMMA ClientInvariant ==
  ASSUME NEW c \in Conns, Conns = {c}
  PROVE  Spec => [](ServerInv /\ ClientInv(c))
<1>1. Init => ServerInv /\ ClientInv(c)
  BY ClientStart, ServerInvInitially
<1>2. ServerInv /\ ClientInv(c) /\ [Next]_vars => (ServerInv /\ ClientInv(c))'
  BY ClientStepKeeps, ServerInvInductive
<1>. QED BY <1>1, <1>2, PTL DEF Spec

(* A connection alone is never lost: at every step its descriptor is polled,
   queued or with a worker that will poll it again or close it.               *)
THEOREM ClientNotLost == OneClient => (Spec => []NoConnectionLost)
<1>. SUFFICES ASSUME NEW c \in Conns, Conns = {c} PROVE Spec => []NoConnectionLost
  BY DEF OneClient
<1>1. ServerInv /\ ClientInv(c) => NoConnectionLost
  <2>. SUFFICES ASSUME ServerInv, ClientInv(c), ~Ended, NEW d \in Descriptors, socket[d] # NoConn
                PROVE  Polled(d) \/ Queued(d) \/ \E w \in Workers : Serving(w) /\ fd[w] = d
    BY DEF NoConnectionLost, Ended
  <2>1. PICK e \in Descriptors : Waiting(c, e) \/ Dispatched(c, e) \/ Handed(c, e)
    BY DEF ClientInv, Fresh, Over, NoneOpen
  <2>2. d = e
    BY <2>1 DEF Waiting, Dispatched, Handed, OnlyOpen
  <2>3. CASE nfds = 2 /\ fds[1] = d
    BY <2>3 DEF Polled
  <2>4. CASE Dispatched(c, d) /\ fds[1] # d
    BY <2>4 DEF Dispatched, Parking, Queued
  <2>5. CASE Handed(c, d)
    BY <2>5 DEF Handed, Carries, Queued, Serving
  <2>. QED BY <2>1, <2>2, <2>3, <2>4, <2>5 DEF Waiting, Dispatched
<1>. QED BY <1>1, ClientInvariant, PTL

(* Two workers never serve one client: a task is made for its connection only
   when no other task for it is under way.                                    *)
THEOREM ClientHasOneWorker == OneClient => (Spec => []OneWorkerPerConnection)
<1>. SUFFICES ASSUME NEW c \in Conns, Conns = {c} PROVE Spec => []OneWorkerPerConnection
  BY DEF OneClient
<1>1. ServerInv /\ ClientInv(c) => OneWorkerPerConnection
  BY DEF ClientInv, Fresh, Over, Waiting, Dispatched, Handed, Carries, Free, Serving, OneWorkerPerConnection
<1>. QED BY <1>1, ClientInvariant, PTL

(* What poll said of the client's slot is still true when main acts on it: if
   it said that there is something to read, there is.                         *)
LEMMA ClientEvent ==
  ASSUME NEW c \in Conns, Conns = {c}, ServerInv, ClientInv(c), InLoop, fds[i] # listen_sd,
         revents[i] # "none"
  PROVE  /\ ConnOf(fds[i]) = c
         /\ revents[i] = "in" => Readable(c)
<1>1. i = 1 /\ current_size = 2 /\ pc = "loop"
  <2>1. i \in Nat /\ current_size \in Nat /\ current_size <= 2 /\ i < current_size /\ pc = "loop"
    BY DEF ServerInv, TypeOK, ClientInv, PlaceInv, InLoop
  <2>2. i # 0
    BY ServerAssumption DEF ServerInv, ListenerInv, ListenerKept, Slots
  <2>. QED BY <2>1, <2>2
<1>2. Unread
  BY <1>1 DEF Unread
<1>3. PICK d \in Descriptors : Waiting(c, d)
  BY <1>1, <1>2 DEF ClientInv, Fresh, Over, Dispatched, Handed, Untold, Parking
<1>. QED BY <1>1, <1>2, <1>3 DEF Waiting, Told, OnlyOpen, ConnOf

\* server.c:238-254: the descriptor handed to a worker is a connection that has
\* bytes, or the end of its stream, to read: the event written down at poll() is
\* still true when the loop comes to the slot.
THEOREM ClientDispatchedToRead == OneClient => (Spec => DispatchedIsReadable)
<1>. SUFFICES ASSUME NEW c \in Conns, Conns = {c} PROVE Spec => DispatchedIsReadable
  BY DEF OneClient
<1>1. ServerInv /\ ClientInv(c) =>
        [Dispatch => ConnOf(fds[i]) # NoConn /\ Readable(ConnOf(fds[i]))]_vars
  BY ClientEvent, ServerAssumption DEF Dispatch
<1>. QED BY <1>1, ClientInvariant, PTL DEF DispatchedIsReadable
===============================================================================
