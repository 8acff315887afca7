------------------------------ MODULE PollServer ------------------------------
(***************************************************************************)
(* The server process: the poll loop of Server/server.c, the workers that  *)
(* run doWork of Server/logic.c, the array fds both write without a lock,  *)
(* and the sockets behind it.                                              *)
(*                                                                         *)
(* A step of a thread touches the memory it shares with other threads, or  *)
(* calls the kernel, once.  The thread pool is used at the level of        *)
(* TaskBuffer, which ThreadPool implements: addTask waits for room, a      *)
(* worker takes a task, and num_threads_executing goes up and down by one. *)
(* Every Task that server.c queues holds the same address, &info, so the   *)
(* queue is no more than the number task_count.                            *)
(***************************************************************************)
EXTENDS Integers, FiniteSets

CONSTANTS
  Workers,          (* the threads of the pool                             *)
  Conns,            (* the TCP connections clients may open                *)
  NoConn,           (* no connection                                       *)
  Descriptors,      (* descriptors the process has for accepted sockets    *)
  listen_sd,        (* the descriptor of the listening socket              *)
  MAX_CONNECTIONS,  (* the length of fds: the listener and at least one    *)
  MAX_TASK_NUM,     (* the length of task_queue                            *)
  MaxQueries,       (* bound: queries a client sends on one connection     *)
  AllowPartialSend, (* whether send may take a part of an answer           *)
  AllowReset,       (* whether connections may be reset or time out        *)
  AllowPollFailure  (* whether poll may return an error                    *)

FD_UNUSED == -1
FD_STOP_POLLING == -2

ASSUME ServerAssumption ==
  /\ NoConn \notin Conns
  /\ listen_sd \notin Descriptors \cup {FD_UNUSED, FD_STOP_POLLING}
  /\ FD_UNUSED \notin Descriptors
  /\ FD_STOP_POLLING \notin Descriptors
  /\ MAX_CONNECTIONS \in Nat /\ MAX_CONNECTIONS >= 2
  /\ MAX_TASK_NUM \in Nat \ {0}
  /\ MaxQueries \in Nat
  /\ AllowPartialSend \in BOOLEAN
  /\ AllowReset \in BOOLEAN
  /\ AllowPollFailure \in BOOLEAN

VARIABLES
  \* main
  pc, fds, nfds, revents, polled, poll_err, current_size, i, end_server,
  compact,      (* the loop variables of the compaction, and whether it is
                   the one nested in the loop over ready descriptors       *)
  info,         (* the one variable info of main that every Task points to *)
  \* shared with the workers
  task_count, compress_array, num_threads_executing,
  \* workers
  wpc, old_fd, fd, buffer,
  \* the kernel and the clients
  socket, backlog, inbox, peer, queries,
  room          (* whether the send buffer of a connection has room         *)

arrayVars == <<fds, nfds>>
pollVars == <<revents, polled, poll_err>>
loopVars == <<current_size, i, end_server>>
mainVars == <<pc, arrayVars, pollVars, loopVars, compact, info>>
poolVars == <<task_count, num_threads_executing, compress_array>>
localVars == <<old_fd, fd, buffer>>
clientVars == <<inbox, peer, queries, room>>
netVars == <<socket, backlog, clientVars>>
otherVars == <<poolVars, wpc, localVars, netVars>>
vars == <<mainVars, otherVars>>

Slots == 0 .. MAX_CONNECTIONS - 1
Unpollable == {FD_UNUSED, FD_STOP_POLLING}
Events == {"none", "in", "hup", "nval"}

(* Slots from nfds on are never read before they are written; the code fills
   them with 0, which stands for no descriptor as well as FD_UNUSED does.      *)
Init ==
  /\ pc = "poll"
  /\ fds = [k \in Slots |-> IF k = 0 THEN listen_sd ELSE FD_UNUSED]
  /\ nfds = 1
  /\ revents = [k \in Slots |-> "none"]
  /\ polled = fds
  /\ poll_err = 0
  /\ current_size = 0
  /\ i = 0
  /\ end_server = FALSE
  /\ compact = [i |-> 0, j |-> 0, nested |-> FALSE]
  /\ info = [old_fd |-> 1, fd |-> FD_UNUSED]
  /\ task_count = 0
  /\ compress_array = FALSE
  /\ num_threads_executing = 0
  /\ wpc = [w \in Workers |-> "idle"]
  /\ old_fd = [w \in Workers |-> 1]
  /\ fd = [w \in Workers |-> FD_UNUSED]
  /\ buffer = [w \in Workers |-> NoConn]
  /\ socket = [d \in Descriptors |-> NoConn]
  /\ backlog = {}
  /\ inbox = [c \in Conns |-> FALSE]
  /\ peer = [c \in Conns |-> "off"]
  /\ queries = [c \in Conns |-> 0]
  /\ room = [c \in Conns |-> TRUE]

-------------------------------------------------------------------------------
(* The kernel *)

FreeDescriptors == {d \in Descriptors : socket[d] = NoConn}

(* The connection behind a value of a pollfd's fd field, if there is one. *)
ConnOf(f) == IF f \in Descriptors THEN socket[f] ELSE NoConn

Readable(c) == inbox[c] \/ peer[c] \in {"fin", "rst"}

(* The revents poll reports for fd value f and events = POLLIN. *)
Event(f) ==
  CASE f = listen_sd     -> IF backlog = {} THEN "none" ELSE "in"
    [] f \in Unpollable  -> "none"
    [] ConnOf(f) \in Conns ->
         IF peer[ConnOf(f)] = "rst" THEN "hup"
         ELSE IF Readable(ConnOf(f)) THEN "in" ELSE "none"
    [] OTHER -> "nval"

(* close(f): an fd that is not open is left alone (EBADF). *)
Close(f) == socket' = [d \in Descriptors |-> IF d = f THEN NoConn ELSE socket[d]]

-------------------------------------------------------------------------------
(* main: poll and the compaction of fds *)

Goto(label) == pc' = label

(* poll copies the first nfds entries of fds and sleeps. *)
PollCall ==
  /\ pc = "poll"
  /\ polled' = fds
  /\ Goto("sleep")
  /\ UNCHANGED <<arrayVars, revents, poll_err, loopVars, compact, info,
                 otherVars>>

(* poll returns when something is ready, or after the timeout with nothing. *)
PollReturn ==
  /\ pc = "sleep"
  /\ revents' = [k \in Slots |-> IF k < nfds THEN Event(polled[k]) ELSE revents[k]]
  /\ poll_err' = Cardinality({k \in 0 .. nfds - 1 : Event(polled[k]) # "none"})
  /\ Goto("test")
  /\ UNCHANGED <<arrayVars, polled, loopVars, compact, info, otherVars>>

(* poll returns an error and the loop is left. *)
PollFails ==
  /\ pc = "sleep"
  /\ AllowPollFailure
  /\ Goto("shutdown")
  /\ i' = 0
  /\ UNCHANGED <<arrayVars, pollVars, current_size, end_server, compact, info,
                 otherVars>>

(* The condition is tested, without a lock, before the flag is cleared. *)
TestCompress ==
  /\ pc = "test"
  /\ Goto(IF compress_array /\ num_threads_executing = 0 THEN "clear" ELSE "ready")
  /\ UNCHANGED <<arrayVars, pollVars, loopVars, compact, info, otherVars>>

ClearCompress ==
  /\ pc = "clear"
  /\ compress_array' = FALSE
  /\ compact' = [i |-> 0, j |-> 0, nested |-> FALSE]
  /\ Goto("scan")
  /\ UNCHANGED <<arrayVars, pollVars, loopVars, info, task_count,
                 num_threads_executing, wpc, localVars, netVars>>

(* Mutant of ScanSlot: the outer loop goes one slot too far. *)
ScanPastEnd ==
  /\ pc = "scan"
  /\ IF compact.i > nfds
       THEN /\ Goto(IF compact.nested THEN "loop" ELSE "ready")
            /\ i' = IF compact.nested THEN i + 1 ELSE i
            /\ UNCHANGED compact
       ELSE /\ UNCHANGED i
            /\ IF fds[compact.i] \in Unpollable
                 THEN /\ compact' = [compact EXCEPT !.j = compact.i]
                      /\ Goto("shift")
                 ELSE /\ compact' = [compact EXCEPT !.i = compact.i + 1]
                      /\ UNCHANGED pc
  /\ UNCHANGED <<arrayVars, pollVars, current_size, end_server, info,
                 otherVars>>

(* The outer loop of the compaction, which occurs twice in main. *)
ScanSlot ==
  /\ pc = "scan"
  /\ IF compact.i = nfds
       THEN /\ Goto(IF compact.nested THEN "loop" ELSE "ready")
            /\ i' = IF compact.nested THEN i + 1 ELSE i
            /\ UNCHANGED compact
       ELSE /\ UNCHANGED i
            /\ IF fds[compact.i] \in Unpollable
                 THEN /\ compact' = [compact EXCEPT !.j = compact.i]
                      /\ Goto("shift")
                 ELSE /\ compact' = [compact EXCEPT !.i = compact.i + 1]
                      /\ UNCHANGED pc
  /\ UNCHANGED <<arrayVars, pollVars, current_size, end_server, info,
                 otherVars>>

(* The inner loop: one copy of an fd field at a time, revents stay behind. *)
ShiftSlot ==
  /\ pc = "shift"
  /\ IF compact.j < nfds - 1
       THEN /\ fds' = [fds EXCEPT ![compact.j] = fds[compact.j + 1]]
            /\ compact' = [compact EXCEPT !.j = compact.j + 1]
            /\ UNCHANGED <<pc, nfds>>
       ELSE /\ nfds' = nfds - 1
            /\ Goto("scan")
            /\ UNCHANGED <<fds, compact>>
  /\ UNCHANGED <<pollVars, loopVars, info, otherVars>>

-------------------------------------------------------------------------------
(* main: the loop over the descriptors that are ready *)

BeginLoop ==
  /\ pc = "ready"
  /\ IF poll_err = 0
       THEN Goto("poll") /\ UNCHANGED <<current_size, i>>
       ELSE Goto("loop") /\ current_size' = nfds /\ i' = 0
  /\ UNCHANGED <<arrayVars, pollVars, end_server, compact, info, otherVars>>

(* Mutant of InLoop: the last slot is left out. *)
InShortLoop == pc = "loop" /\ i < current_size - 1 /\ poll_err > 0

InLoop == pc = "loop" /\ i < current_size /\ poll_err > 0

EndLoop ==
  /\ pc = "loop" /\ ~InLoop
  /\ Goto(IF end_server THEN "shutdown" ELSE "poll")
  /\ i' = 0
  /\ UNCHANGED <<arrayVars, pollVars, current_size, end_server, compact, info,
                 otherVars>>

(* Mutant of SkipSlot: i is not incremented. *)
SkipWithoutAdvance == InLoop /\ revents[i] = "none" /\ UNCHANGED vars

SkipSlot ==
  /\ InLoop /\ revents[i] = "none"
  /\ i' = i + 1
  /\ UNCHANGED <<pc, arrayVars, pollVars, current_size, end_server, compact,
                 info, otherVars>>

(* POLLHUP: the connection is closed, its slot is cleared and the array is
   compacted at once, whatever the workers are doing.                         *)
HangUp ==
  /\ InLoop /\ revents[i] = "hup"
  /\ Close(fds[i])
  /\ Goto("hangup")
  /\ UNCHANGED <<arrayVars, pollVars, loopVars, compact, info, poolVars, wpc,
                 localVars, backlog, clientVars>>

HangUpClear ==
  /\ pc = "hangup"
  /\ fds' = [fds EXCEPT ![i] = FD_UNUSED]
  /\ compact' = [i |-> 0, j |-> 0, nested |-> TRUE]
  /\ Goto("scan")
  /\ UNCHANGED <<nfds, pollVars, loopVars, info, otherVars>>

(* Any other event ends the server. *)
UnexpectedEvent ==
  /\ InLoop /\ revents[i] = "nval"
  /\ end_server' = TRUE
  /\ Goto("shutdown")
  /\ i' = 0
  /\ UNCHANGED <<arrayVars, pollVars, current_size, compact, info, otherVars>>

BeginAccept ==
  /\ InLoop /\ revents[i] = "in" /\ fds[i] = listen_sd
  /\ poll_err' = poll_err - 1
  /\ Goto("accept")
  /\ UNCHANGED <<arrayVars, revents, polled, loopVars, compact, info,
                 otherVars>>

(* accept takes a connection from the backlog and gives it a free descriptor,
   which goes to the first slot past the array.                               *)
Accept(c, d) ==
  /\ pc = "accept"
  /\ c \in backlog /\ d \in FreeDescriptors
  /\ nfds # MAX_CONNECTIONS
  /\ backlog' = backlog \ {c}
  /\ socket' = [socket EXCEPT ![d] = c]
  /\ fds' = [fds EXCEPT ![nfds] = d]
  /\ nfds' = nfds + 1
  /\ UNCHANGED <<pc, pollVars, loopVars, compact, info, poolVars, wpc,
                 localVars, clientVars>>

(* The server is full: the new connection is closed and accepting stops. *)
RejectConnection(c) ==
  /\ pc = "accept"
  /\ c \in backlog /\ FreeDescriptors # {}
  /\ nfds = MAX_CONNECTIONS
  /\ backlog' = backlog \ {c}
  /\ Goto("loop")
  /\ i' = i + 1
  /\ UNCHANGED <<arrayVars, pollVars, current_size, end_server, compact, info,
                 poolVars, wpc, localVars, socket, clientVars>>

(* EWOULDBLOCK ends the accept loop; EMFILE, which accept reports before it
   looks at the backlog, also makes this the last round of the poll loop.     *)
EndAccept ==
  /\ pc = "accept"
  /\ backlog # {} => FreeDescriptors = {}
  /\ end_server' = (end_server \/ FreeDescriptors = {})
  /\ Goto("loop")
  /\ i' = i + 1
  /\ UNCHANGED <<arrayVars, pollVars, current_size, compact, info, otherVars>>

(* Mutant of Dispatch: the listening socket is not told apart. *)
DispatchAny ==
  /\ InLoop /\ revents[i] = "in"
  /\ poll_err' = poll_err - 1
  /\ info' = [info EXCEPT !.old_fd = i]
  /\ Goto("fill")
  /\ UNCHANGED <<arrayVars, revents, polled, loopVars, compact, otherVars>>

(* A readable connection: info is filled in field by field, the slot is taken
   out of poll's sight and the task is queued.                                *)
Dispatch ==
  /\ InLoop /\ revents[i] = "in" /\ fds[i] # listen_sd
  /\ poll_err' = poll_err - 1
  /\ info' = [info EXCEPT !.old_fd = i]
  /\ Goto("fill")
  /\ UNCHANGED <<arrayVars, revents, polled, loopVars, compact, otherVars>>

FillInfo ==
  /\ pc = "fill"
  /\ info' = [info EXCEPT !.fd = fds[i]]
  /\ Goto("park")
  /\ UNCHANGED <<arrayVars, pollVars, loopVars, compact, otherVars>>

(* Mutant of StopPolling: the slot stays in poll's sight. *)
KeepPolling ==
  /\ pc = "park"
  /\ Goto("add")
  /\ UNCHANGED <<arrayVars, pollVars, loopVars, compact, info, otherVars>>

StopPolling ==
  /\ pc = "park"
  /\ fds' = [fds EXCEPT ![i] = FD_STOP_POLLING]
  /\ Goto("add")
  /\ UNCHANGED <<nfds, pollVars, loopVars, compact, info, otherVars>>

AddTask ==
  /\ pc = "add"
  /\ task_count < MAX_TASK_NUM
  /\ task_count' = task_count + 1
  /\ Goto("loop")
  /\ i' = i + 1
  /\ UNCHANGED <<arrayVars, pollVars, current_size, end_server, compact, info,
                  num_threads_executing, compress_array, wpc, localVars,
                 netVars>>

-------------------------------------------------------------------------------
(* main: shutdown *)

CloseSlot ==
  /\ pc = "shutdown"
  /\ i < nfds
  /\ Close(fds[i])
  /\ i' = i + 1
  /\ UNCHANGED <<pc, arrayVars, pollVars, current_size, end_server, compact,
                 info, poolVars, wpc, localVars, backlog, clientVars>>

(* freeThreadPoolVariables destroys thread_pool_cond_empty.  While a worker
   waits on it that is undefined: the call may return, and exit ends the
   process, or, as in glibc, wait for the waiters for ever.                   *)
DestroyPool ==
  /\ pc = "shutdown"
  /\ i = nfds
  /\ \/ Goto("exited")
     \/ (\E w \in Workers : wpc[w] = "idle") /\ Goto("stuck")
  /\ UNCHANGED <<arrayVars, pollVars, loopVars, compact, info, otherVars>>

-------------------------------------------------------------------------------
(* A worker: threadStarter, executeTask and doWork *)

Step(w, from, to) ==
  /\ pc # "exited"
  /\ wpc[w] = from
  /\ wpc' = [wpc EXCEPT ![w] = to]

TakeTask(w) ==
  /\ Step(w, "idle", "taken")
  /\ task_count > 0
  /\ task_count' = task_count - 1
  /\ UNCHANGED <<mainVars, num_threads_executing, compress_array, localVars,
                 netVars>>

CountIn(w) ==
  /\ Step(w, "taken", "begun")
  /\ num_threads_executing' = num_threads_executing + 1
  /\ UNCHANGED <<mainVars, task_count, compress_array, localVars, netVars>>

(* doWork dereferences args once for each field it copies. *)
ReadOldFd(w) ==
  /\ Step(w, "begun", "half")
  /\ old_fd' = [old_fd EXCEPT ![w] = info.old_fd]
  /\ UNCHANGED <<mainVars, poolVars, fd, buffer, netVars>>

ReadFd(w) ==
  /\ Step(w, "half", "recv")
  /\ fd' = [fd EXCEPT ![w] = info.fd]
  /\ UNCHANGED <<mainVars, poolVars, old_fd, buffer, netVars>>

(* recv fails: the descriptor is not open, or the connection was reset and
   nothing is left in the receive queue.                                      *)
RecvError(w) ==
  /\ Step(w, "recv", "close")
  /\ ConnOf(fd[w]) # NoConn =>
       peer[ConnOf(fd[w])] = "rst" /\ ~inbox[ConnOf(fd[w])]
  /\ UNCHANGED <<mainVars, poolVars, localVars, netVars>>

(* recv returns a query, and the loop calls it again. *)
RecvQuery(w) ==
  /\ Step(w, "recv", "recv")
  /\ ConnOf(fd[w]) # NoConn
  /\ inbox[ConnOf(fd[w])]
  /\ buffer' = [buffer EXCEPT ![w] = ConnOf(fd[w])]
  /\ inbox' = [inbox EXCEPT ![ConnOf(fd[w])] = FALSE]
  /\ UNCHANGED <<mainVars, poolVars, old_fd, fd, socket, backlog, peer,
                 queries, room>>

(* recv returns 0: the client has closed, and whatever was read is dropped. *)
RecvEnd(w) ==
  /\ Step(w, "recv", "close")
  /\ ConnOf(fd[w]) # NoConn
  /\ peer[ConnOf(fd[w])] = "fin" /\ ~inbox[ConnOf(fd[w])]
  /\ UNCHANGED <<mainVars, poolVars, localVars, netVars>>

(* EWOULDBLOCK: doWork parses its buffer.  If nothing was received the buffer
   is uninitialised and holds what an earlier task of this thread left there.
   A query that is parsed and answered by the database goes on to send; every
   other outcome closes the connection.                                       *)
RecvWouldBlock(w) ==
  /\ ConnOf(fd[w]) # NoConn
  /\ ~Readable(ConnOf(fd[w]))
  /\ \/ Step(w, "recv", "send") /\ buffer[w] # NoConn
     \/ Step(w, "recv", "close")
  /\ UNCHANGED <<mainVars, poolVars, localVars, netVars>>

CanSend(w) ==
  /\ ConnOf(fd[w]) # NoConn
  /\ peer[ConnOf(fd[w])] # "rst"
  /\ room[ConnOf(fd[w])]

(* send takes a part of the answer and fills the send buffer.  The calls that
   follow return EWOULDBLOCK, one after the other, until the client has read:
   they change nothing and are no step, and the worker stays where it is.  That
   an answer goes out in one part or two is enough here; RequestHandler counts
   the bytes.                                                                 *)
SendPart(w) ==
  /\ AllowPartialSend
  /\ Step(w, "send", "rest")
  /\ CanSend(w)
  /\ room' = [room EXCEPT ![ConnOf(fd[w])] = FALSE]
  /\ UNCHANGED <<mainVars, poolVars, localVars, socket, backlog, inbox, peer,
                 queries>>

(* send takes what is left of the answer, for the client behind fd. *)
SendAnswer(w) ==
  /\ Step(w, "send", "restore") \/ Step(w, "rest", "restore")
  /\ CanSend(w)
  /\ peer' = [peer EXCEPT ![ConnOf(fd[w])] = IF @ = "waiting" THEN "open" ELSE @]
  /\ UNCHANGED <<mainVars, poolVars, localVars, socket, backlog, inbox,
                 queries, room>>

SendError(w) ==
  /\ Step(w, "send", "close") \/ Step(w, "rest", "close")
  /\ ConnOf(fd[w]) # NoConn => peer[ConnOf(fd[w])] = "rst"
  /\ UNCHANGED <<mainVars, poolVars, localVars, netVars>>

(* On a connection that was reset after the client had closed its end, or whose
   reset another worker has already been told of, send raises SIGPIPE: nothing
   handles it, so the process ends.                                           *)
BrokenPipe(w) ==
  /\ pc # "exited" /\ wpc[w] \in {"send", "rest"}
  /\ ConnOf(fd[w]) # NoConn /\ peer[ConnOf(fd[w])] = "rst"
  /\ Goto("exited")
  /\ UNCHANGED <<arrayVars, pollVars, loopVars, compact, info, otherVars>>

CloseConn(w) ==
  /\ Step(w, "close", "clear")
  /\ Close(fd[w])
  /\ UNCHANGED <<mainVars, poolVars, localVars, backlog, clientVars>>

(* *old_fd = value, through a pointer into fds. *)
WriteSlot(w, value) ==
  /\ fds' = [fds EXCEPT ![old_fd[w]] = value]
  /\ UNCHANGED <<pc, nfds, pollVars, loopVars, compact, info, poolVars,
                 localVars, netVars>>

(* Mutant of RestoreSlot: the slot is not given back to poll. *)
LeaveSlotParked(w) == Step(w, "restore", "done") /\ WriteSlot(w, FD_STOP_POLLING)

ClearSlot(w) == Step(w, "clear", "flag") /\ WriteSlot(w, FD_UNUSED)
RestoreSlot(w) == Step(w, "restore", "done") /\ WriteSlot(w, fd[w])

(* Mutant of SetCompress: the flag is not set. *)
SkipCompress(w) ==
  Step(w, "flag", "done") /\ UNCHANGED <<mainVars, poolVars, localVars, netVars>>

SetCompress(w) ==
  /\ Step(w, "flag", "done")
  /\ compress_array' = TRUE
  /\ UNCHANGED <<mainVars, task_count, num_threads_executing, localVars,
                 netVars>>

CountOut(w) ==
  /\ Step(w, "done", "idle")
  /\ num_threads_executing' = num_threads_executing - 1
  /\ UNCHANGED <<mainVars, task_count, compress_array, localVars, netVars>>

-------------------------------------------------------------------------------
(* Clients.  They send one query and wait for its answer, as the app does, and
   may leave at any time; what they do once the server has closed their
   connection changes nothing here.                                            *)

Held(c) == c \in backlog \/ \E d \in Descriptors : socket[d] = c

ClientStep(c, from, to) ==
  /\ pc # "exited"
  /\ peer[c] \in from
  /\ peer' = [peer EXCEPT ![c] = to]
  /\ UNCHANGED <<mainVars, poolVars, wpc, localVars, socket>>

Connect(c) ==
  /\ ClientStep(c, {"off"}, "open")
  /\ backlog' = backlog \cup {c}
  /\ UNCHANGED <<inbox, queries, room>>

SendQuery(c) ==
  /\ ClientStep(c, {"open"}, "waiting")
  /\ Held(c)
  /\ queries[c] < MaxQueries
  /\ queries' = [queries EXCEPT ![c] = @ + 1]
  /\ inbox' = [inbox EXCEPT ![c] = TRUE]
  /\ UNCHANGED <<backlog, room>>

Leave(c) ==
  /\ ClientStep(c, {"open", "waiting"}, "fin")
  /\ Held(c)
  /\ UNCHANGED <<backlog, inbox, queries, room>>

(* A reset, or a peer that stopped answering keep-alive probes. *)
Vanish(c) ==
  /\ AllowReset
  /\ ClientStep(c, {"open", "waiting", "fin"}, "rst")
  /\ Held(c)
  /\ UNCHANGED <<backlog, inbox, queries, room>>

(* The client reads what has arrived; the system of one that has closed throws
   it away.                                                                   *)
ReadAnswer(c) ==
  /\ pc # "exited"
  /\ peer[c] \in {"open", "waiting", "fin"} /\ ~room[c]
  /\ room' = [room EXCEPT ![c] = TRUE]
  /\ UNCHANGED <<mainVars, poolVars, wpc, localVars, socket, backlog, inbox,
                 peer, queries>>

-------------------------------------------------------------------------------

MainStep ==
  \/ PollCall \/ PollReturn \/ PollFails \/ TestCompress \/ ClearCompress
  \/ ScanSlot \/ ShiftSlot \/ BeginLoop \/ EndLoop \/ SkipSlot \/ HangUp
  \/ HangUpClear \/ UnexpectedEvent \/ BeginAccept \/ EndAccept
  \/ \E c \in Conns : RejectConnection(c) \/ \E d \in Descriptors : Accept(c, d)
  \/ Dispatch \/ FillInfo \/ StopPolling \/ AddTask \/ CloseSlot \/ DestroyPool

WorkerStep(w) ==
  \/ TakeTask(w) \/ CountIn(w) \/ ReadOldFd(w) \/ ReadFd(w)
  \/ RecvError(w) \/ RecvQuery(w) \/ RecvEnd(w) \/ RecvWouldBlock(w)
  \/ SendPart(w) \/ SendAnswer(w) \/ SendError(w) \/ BrokenPipe(w)
  \/ CloseConn(w) \/ ClearSlot(w) \/ RestoreSlot(w) \/ SetCompress(w) \/ CountOut(w)

ClientNext ==
  \E c \in Conns :
    Connect(c) \/ SendQuery(c) \/ Leave(c) \/ Vanish(c) \/ ReadAnswer(c)

Next == MainStep \/ (\E w \in Workers : WorkerStep(w)) \/ ClientNext

Spec == Init /\ [][Next]_vars

(* Threads that can run do run; poll returns, at the latest after its timeout.
   Clients need not do anything, but what is sent to them they read: the app
   reads until it has a whole line.  Without that a worker calls send for ever. *)
FairSpec ==
  /\ Spec
  /\ WF_vars(MainStep)
  /\ \A w \in Workers : WF_vars(WorkerStep(w))
  /\ \A c \in Conns : WF_vars(ReadAnswer(c))

-------------------------------------------------------------------------------
(* Properties *)

MainPCs == {"poll", "sleep", "test", "clear", "scan", "shift", "ready", "loop",
            "hangup", "accept", "fill", "park", "add", "shutdown", "exited",
            "stuck"}
WorkerPCs == {"idle", "taken", "begun", "half", "recv", "send", "rest", "close",
              "clear", "flag", "restore", "done"}
Fields == Descriptors \cup Unpollable \cup {listen_sd}

(* Every variable has its type; nfds and every index the code uses on fds are
   within the array, although the workers' pointers into it are never updated
   when the array is compacted.                                               *)
TypeOK ==
  /\ pc \in MainPCs
  /\ fds \in [Slots -> Fields] /\ polled \in [Slots -> Fields]
  /\ nfds \in 1 .. MAX_CONNECTIONS
  /\ revents \in [Slots -> Events]
  /\ poll_err \in Nat
  /\ current_size \in 0 .. MAX_CONNECTIONS
  /\ i \in 0 .. MAX_CONNECTIONS
  /\ end_server \in BOOLEAN /\ compress_array \in BOOLEAN
  /\ compact \in [i : 0 .. nfds, j : 0 .. nfds, nested : BOOLEAN]
  /\ info \in [old_fd : Slots, fd : Fields]
  /\ task_count \in 0 .. MAX_TASK_NUM
  /\ num_threads_executing \in Int
  /\ wpc \in [Workers -> WorkerPCs]
  /\ old_fd \in [Workers -> Slots] /\ fd \in [Workers -> Fields]
  /\ buffer \in [Workers -> Conns \cup {NoConn}]
  /\ socket \in [Descriptors -> Conns \cup {NoConn}]
  /\ backlog \subseteq Conns
  /\ inbox \in [Conns -> BOOLEAN]
  /\ peer \in [Conns -> {"off", "open", "waiting", "fin", "rst"}]
  /\ queries \in [Conns -> 0 .. MaxQueries]
  /\ room \in [Conns -> BOOLEAN]

(* Whatever the workers and the compaction do to fds at the same time, the
   listening socket stays in slot 0, is in no other slot, and no worker is
   handed it or its slot: new clients can always be accepted.                 *)
ListenerKept ==
  /\ \A k \in Slots : fds[k] = listen_sd <=> k = 0
  /\ \A w \in Workers : fd[w] # listen_sd /\ old_fd[w] # 0

(* While the process runs a cleared slot is not forgotten: compress_array is
   set, or the worker that cleared the slot is about to set it, or a compaction
   under way has yet to reach the slot.  main clears the flag before it scans, workers set it after
   they have cleared a slot.                                                  *)
NoDeadSlotForgotten ==
  \A k \in 1 .. nfds - 1 :
    fds[k] = FD_UNUSED =>
      \/ compress_array \/ pc = "exited"
      \/ \E w \in Workers : wpc[w] = "flag"
      \/ pc \in {"scan", "shift"} /\ compact.i <= k

(* The main loop always gets back to poll, or ends. *)
MainKeepsPolling == []<>(pc \in {"sleep", "exited", "stuck"})

(* A client that connects is accepted or turned away, unless the server ends. *)
EveryClientAccepted ==
  \A c \in Conns : c \in backlog ~> (c \notin backlog \/ pc \in {"exited", "stuck"})

(* An open descriptor is polled, or it is in the hands of a task. *)
Polled(d) == \E k \in 1 .. nfds - 1 : fds[k] = d
Queued(d) ==
  /\ info.fd = d
  /\ \/ pc \in {"park", "add"} \/ task_count > 0
     \/ \E w \in Workers : wpc[w] \in {"taken", "begun", "half"}
Serving(w) == wpc[w] \in {"recv", "send", "rest", "close", "restore"}

(* No connection is lost: as long as its descriptor is open it is polled, or a
   task will poll it again or close it.                                       *)
NoConnectionLost ==
  pc \notin {"shutdown", "stuck", "exited"} =>
    \A d \in Descriptors : socket[d] # NoConn =>
      Polled(d) \/ Queued(d) \/ \E w \in Workers : Serving(w) /\ fd[w] = d

(* While a worker takes care of a connection no other worker does: that is
   what server.c disables the slot for.                                       *)
OneWorkerPerConnection ==
  \A w1, w2 \in Workers :
    Serving(w1) /\ Serving(w2) /\ ConnOf(fd[w1]) # NoConn /\ fd[w1] = fd[w2]
      => w1 = w2

(* A task is made for a connection with something to read. *)
DispatchedIsReadable ==
  [][Dispatch => ConnOf(fds[i]) # NoConn /\ Readable(ConnOf(fds[i]))]_vars

(* A query whose client waits and reads what it is sent is answered in full, or
   its connection is closed, or the server ends: it is neither left in a slot
   that nobody polls nor behind a worker that sends for ever.                 *)
QueryServed ==
  \A c \in Conns :
    peer[c] = "waiting" ~>
      (peer[c] # "waiting" \/ ~Held(c) \/ pc \in {"shutdown", "stuck", "exited"})

===============================================================================
