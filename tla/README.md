# PotHub in TLA+

PotHub is an Android app that detects potholes with the accelerometer of a
phone and a C server that stores them and answers two queries: the potholes
within a distance of a point, and the potholes a user reported in the last 14
days. This directory holds TLA+ models of the program, TLC runs that check
them on small instances, and TLAPS proofs of what holds for every size.
Source paths below are relative to the repository.

## 1. Inventory

### Server (`Server/`)

| Component | State | Operations | Interaction | What makes it correct |
|---|---|---|---|---|
| Thread pool, `thread-pool.c` | `task_queue`, `task_count`, `num_threads_executing`, two mutexes, two condition variables | `addTask`, `threadStarter`, `executeTask`, `initThreadPoolVariables`, `freeThreadPoolVariables` (`joinThreads` is never called) | main adds tasks, workers run them; the counter is read by main | bounded FIFO, each task runs once, no lost wake-up, the counter is exact |
| Poll loop, `server.c` | `fds`, `nfds`, `end_server`, `i`, `current_size`, the one variable `info` | poll, compaction (twice), hang-up, accept, dispatch, shutdown | writes `fds` while workers do, hands `&info` to the pool, reads `compress_array` and the counter without a lock | the listener is always polled, no connection is lost, one worker per connection, full only when full, it ends when it means to |
| Request handler, `logic.c` `doWork` | its buffer, flags and local pointers | recv loop, parse, dispatch on action, send loop, cleanup, restore or clear the slot | reads `info`, writes `*old_fd`, sets `compress_array`, calls the database | each message handled once, answers whole and to the one who asked, resources released |
| Database functions, `logic.c` | a MySQL connection, a statement, a JSON array | `reportPothole`, `getPotholesByRangeJson`, `getUserPotholesBy14DaysJson` | called by `doWork` | an answer is complete or the failure is reported |
| Utilities, `utilities.c` | none | `haversineDistance`, `substr`, `valid_date`, `getDateDifference` | called by the database functions | the filter keeps exactly the last 14 days |
| `cJSON/` | trees of items with `next`, `prev`, `child`; a print buffer; a parse position | the tree functions, print, parse | called by `doWork` and the database functions; a tree belongs to one thread | the lists are linked as the calls say, everything is freed once, nothing is written past a buffer, what is printed can be parsed |

### App (`Pothub/app/src/main/java/com/cindea/pothub/`)

| Component | State | Operations | Interaction | What makes it correct |
|---|---|---|---|---|
| Client connection, `CustomHandler`, `CustomThread` | socket, streams, message queue of a looper thread | open, report, two queries, close | messages from the UI and the service, callbacks to models | requests in order between open and close, no thread or connection left behind |
| Pothole detection, `map/LocationService` | `handler`, `previous_acceleration`, `is_first_pothole`, last position | start, stop, sensor sample, location update, destroy | sends reports to the handler, broadcasts to the live map | a report per pothole, none from an artefact, nothing after stop |
| Live map, `map/LiveMapActivity`, `MapFragment` | whether the service runs, `potholesDetected` | network changes, stop button | starts and stops the service | detection runs whenever the network is there |
| Home screens, `home/` | filters, loaded lists, `first_load` | filter requests, refresh, start of a session | a thread and a connection per request | the list shows what the last filter asked for |
| Authentication, `authentication/`, `MainActivity` | static user name, session, reset continuation | sign in, sign up, confirm, reset | Cognito callbacks | each flow reaches its end; the user name is that of the session |
| Helpers: `GPSCheck`, `NetworkUtil`, `entities/Pothole`, adapters, contracts | none | - | - | - |

### What is hard

- `fds` is written by the main thread and by all workers, without a lock; the
  workers hold pointers into it that the compaction does not adjust.
- `info` is one variable of main for all tasks, read by workers at any later time.
- the compaction moves descriptors but not their `revents`, also in the middle
  of the loop over them.
- `compress_array` and `num_threads_executing` are checked without a lock.
- condition variables are signalled after their mutex is released.
- descriptor numbers are reused by the kernel as soon as they are closed.
- clients reset, close and reconnect at any moment; TCP splits and joins messages.
- the app's looper threads, sensor callbacks and UI callbacks interleave.
- resources: 200 slots, 1000 queued tasks, the process's descriptors.

`PROJECT.json` lists these hazards one by one at their lines.

## 2. Plan

In order of importance; all but the last two are written.

| # | Module | Models | Composition and abstraction | Theorems |
|---|---|---|---|---|
| 1 | `ThreadPool` | `thread-pool.c` | implements `TaskBuffer` | type, mutual exclusion, exact counter, no lost wake-up, implementation |
| 2 | `PollServer` | `server.c` with the workers of `logic.c` | uses the pool at the level of `TaskBuffer` | type, listener, no forgotten slot; with one client: not lost, one worker, events still true |
| 3 | `RequestHandler` | one connection through `doWork`: framing, partial sends, failures, what stays allocated | the poll loop reduced to one slot | type, one report per message, answers arrive whole |
| 4 | `Dates`, `DaysQuery` | the 14-day filter, dates, fetch loop | a count of days as the reference | type, the history is exact as far as rows are fetched |
| 5 | `JsonTree` | the trees of cJSON | implements `ItemLists` | type, lists linked, memory accounted, the refinement, the comparison |
| 6 | `JsonValues`, `JsonText` | the printer and the parser of cJSON | a grammar as the reference | - |
| 7 | `LiveSession` | `LocationService`, `LiveMapActivity`, `CustomThread`, `CustomHandler` | one module, as all of it meets in the queue of a thread | type, reports are apart by what was moved between them, and written in order |
| 8 | `HomeScreens` | `MainActivity`, signing in, the list of potholes nearby | Cognito and the server as choices | the user's name, the list |
| 9 | `Authentication` | sign-up, confirmation, the reset of a password | to be written | - |
| 10 | `LeftHome` | the user's history and the connectivity check | to be written, over `HomeScreens` | - |

## 3. The modules

### TaskBuffer and ThreadPool

`TaskBuffer` is the promise of the pool: a bounded FIFO of tasks from which any
number of workers take, each task being run once by one worker. `ThreadPool` is
the code: `task_queue` is an array shifted by hand on each take, guarded by
`thread_pool_mutex`; `thread_pool_cond_empty` and `thread_pool_cond_full` are
sets of waiting threads; `num_threads_executing` has a mutex of its own, and its
increment and decrement are a load and a store.

| Code | Action |
|---|---|
| `addTask`, 44-53 | `CallAddTask`, `Lock`, `WaitWhileFull`, `Put`, `Unlock`, `SignalEmpty` |
| `threadStarter`, 7-26 | `Lock`, `WaitWhileEmpty`, `Take`, `Unlock`, `SignalFull` |
| `executeTask`, 55-65 | `BeginExecuting`, `CountExecuting`, `WorkReturns`, `EndExecuting`, `UncountExecuting` |
| `pthread_cond_wait` | leaves the mutex and joins the waiters in one step; wakes on a signal or spuriously |

The refinement mapping reads the abstract buffer off the first `task_count`
slots of the array, and what a worker runs off its `task` variable.

### PollServer

The poll loop, the workers, the kernel and the clients. A step of a thread
touches shared memory, or calls the kernel, once, so each field of `info`, each
`fds[k].fd`, the flag and the counter are accesses of their own. The copy of one
element by the compaction (a read and a write of adjacent fields) is one step.

| Code | Actions |
|---|---|
| `server.c` 118-126 poll | `PollCall` (copies `fds`), `PollReturn`, `PollFails` |
| 127-142 and 170-184 compaction | `TestCompress`, `ClearCompress`, `ScanSlot`, `ShiftSlot` (nested: `HangUpClear`) |
| 145-257 loop | `BeginLoop`, `SkipSlot`, `HangUp`, `UnexpectedEvent`, `BeginAccept`, `Accept`, `RejectConnection`, `EndAccept`, `Dispatch`, `FillInfo`, `StopPolling`, `AddTask`, `EndLoop` |
| 259-275 shutdown | `CloseSlot`, `DestroyPool` |
| `logic.c` `doWork`, and the pool around it | `TakeTask`, `CountIn`, `ReadOldFd`, `ReadFd`, `RecvQuery`, `RecvEnd`, `RecvError`, `RecvWouldBlock`, `SendPart`, `SendAnswer`, `SendError`, `BrokenPipe`, `CloseConn`, `ClearSlot`, `RestoreSlot`, `SetCompress`, `CountOut` |
| external: clients and kernel | `Connect`, `SendQuery`, `ReadAnswer`, `Leave`, `Vanish`, the table `socket` |

The worker's `buffer` survives from one task to the next: the code's array is
uninitialised and occupies the same stack bytes in each call of a thread, so
when nothing is received `RecvWouldBlock` may parse what is left there, or fail.
`DestroyPool` is a choice as well: destroying a condition variable with waiters
is undefined; the choices are to return and to hang.

`SendPart` sends what there is room for. The worker then calls `send` again and
again, and each call returns EWOULDBLOCK until the client has read (`room`): a
client that does not read keeps the worker.

Left out of `PollServer`: failures of `setsockopt` and `fcntl` on an accepted
socket and of `malloc`; reports, which have no answer; the descriptors MySQL
connections use; messages that arrive in pieces or joined. The slots past
`nfds` hold 0 in the code and -1 in the model; neither is read before it is
written. `info` is one stack slot for all iterations, which is how the compiler
lays out a variable declared in a loop body.

### RequestHandler

One connection and the thread that serves it. A message is two halves, so that
messages may arrive whole, joined or cut; `buffer` is a sequence of halves that
each `recv` overwrites from its start and that nobody ever clears. `Parsed` says
what cJSON makes of it: the JSON value at the start, whatever follows. The first half of
one message over the rest of an older one (`ParseMixed`) may be no JSON, the older message
once more, if both start alike, the new one before all of it is there, if both end alike,
or a request that nobody made (`Mixed`). `stored` keeps, with each report, the message
whose receipt led to it.

| Code | Actions |
|---|---|
| `logic.c` 26-50 recv loop | `Recv`, `RecvEnd`, `RecvError`, `RecvWouldBlock` |
| 53-120, 147-165 parsing and actions | `ParseRequest`, `ParseMixed`, `ParseFails` |
| `reportPothole`, 236-330 | `StoreReport`, `ReportFails` (each way to return 0, with what it leaves open) |
| the query functions, 332-584 | `QueryDatabase`, `QueryFails` |
| 126-144, 170-188 send loop | `SendPieces` (any number of pieces there is room for), `SendTooLate`, `SendDone`, `SendError`, `BrokenPipe` |
| 198-233 end | `RestoreSlot`, `CloseConn`; the cleanup between is no step, as it frees nothing |
| external | `Send`, `Arrive`, `ReadAnswer`, `CloseClient`, `ResetByPeer`; `Dispatch` and `HangUp` stand for the poll loop |

`held` is what has been allocated or opened and not released. `reset` keeps the
state the connection was in when it was reset, because Linux then fails `send`
with ECONNRESET (established) or raises SIGPIPE (the client had closed before).

### Dates and DaysQuery

`Dates` has the operators: `ValidDate`, `DateDifference` with its borrowing, and
`InLast14Days`, the condition of logic.c:555. `DaysQuery` is
`getUserPotholesBy14DaysJson` over the rows of a user: execute, fetch row by row,
keep or drop, and the jump past the assignment of `json_string` when a date is
invalid. The loop of logic.c:540 ends at any result of `mysql_stmt_fetch` but 0, so
`PrintList`, which prints the list so far, may follow any row: the last one, one
before a failure, or one before a row that its buffers truncate. Phones add rows, days pass, also while the query runs. Every row carries
the number of the day it was reported on, counted by `clock`, which is the
reference the date arithmetic is compared with. `HistoryExact` asks for an increasing
choice of the rows that were fetched (`Fetched`) that names exactly the recent ones and is
what `json_string` lists; rows behind a failed fetch are missing, and nothing tells the
caller.

### ItemLists and JsonTree

`ItemLists` is what the tree functions of `cJSON.h` promise: each item owns a list
of items, an item is in at most one list, and a reference shows the list of another
item. `JsonTree` is the code, with the pointers `next`, `prev` and `child`, the
flags of `type`, and the names and strings counted as they are allocated and freed.
One call is one step. The refinement mapping reads each list off by following `next`
from `child`. A value is a scalar, the kind `Array` or the kind `Object`.

| Code, `cJSON.c` | Actions and operators |
|---|---|
| the `cJSON_Create` functions, 2385-2703 | `Create`, `CreateArrayOf`, `CreateReference` |
| `add_item_to_array`, `suffix_object`, `add_item_to_object`, 1928-2057 | `AppendItem`, `Rename` in `AddItemToArray`, `AddItemToObject` |
| `create_reference` and its callers, 1935-1954, 2059-2077 | `AddItemReference`, and `LoseReference` when the name cannot be copied |
| the `cJSON_Add...ToObject` functions, 2079-2185 | `AddNewToObject` |
| `cJSON_DetachItemViaPointer` and what calls it, 2187-2260 | `Detach`, `DetachItemFromObject`, `DeleteItem`, `DeleteItemFromObject` |
| `cJSON_InsertItemInArray`, 2263-2290 | `InsertItemInArray` |
| the replacing functions, 2292-2382 | `ReplaceItem`, `ReplaceItemInObject` |
| `cJSON_Duplicate`, 2706-2787 | `Duplicate`, of one item or of all below it |
| `cJSON_Delete`, 253-274 | `Delete`, with `Freed` for what it reaches |
| `cJSON_SetValuestring`, 400-425 | `SetValuestring` |
| `get_object_item`, `cJSON_Compare` | `ObjectItem`, `Compare`, which goes down two trees by `Matches` |

The caller keeps to the rules of `cJSON.h` (119-272), which are guards: it adds roots
that it holds, to a place that is not below them, and what a reference shows is neither
changed nor deleted while the reference exists (`Frozen`, `Deletable`). A call that
breaks them leaves pointers to freed memory, and no promise is left to check. A failed
allocation that changes nothing is no step. `ItemLists` lets an insertion happen at any
position, so the refinement says that nothing but an insertion happens, and not that it
is where the caller's index points; that is in `InsertItemInArray` only.

### JsonValues and JsonText

`JsonValues` has values, their texts (`Render`) and a grammar: `Values(t)` is the set of
values that the text t may mean, defined by splitting t at every possible separator.
`JsonText` prints a value into a buffer and parses the text, or parses a given one.
The recursive functions of the code are loops over `stack`.

| Code, `cJSON.c` | Actions and operators |
|---|---|
| `ensure`, `update_offset`, 439-535 | `Ensure`, `Put`, `Updated` |
| `print_value`, `print_string_ptr`, 902-1021, 1367-1438 | `PrintScalar`, `Key`, with `OutputLength` |
| `print_array`, `print_object`, 1539-1598, 1714-1825 | `Open`, `NextElement`, `Indent`, `Key`, `Colon`, `PrintedElement`, `Comma`, `Close` |
| `print`, `cJSON_PrintBuffered`, `cJSON_PrintPreallocated`, 1187-1309 | the choices of `Init`, `PrintEnds`, `PrintFails` |
| `cJSON_ParseWithLengthOpts`, 1095-1172 | `StartParse`, `ParseEnd`, `Fail` |
| `buffer_skip_whitespace`, `skip_utf8_bom` | `Skip`, `StartParse` |
| `parse_string`, `utf16_literal_to_utf8`, `parse_hex4`, 615-899 | `InputEnd`, `Unescaped`, `Code`, `ParseString`, `ParseName` |
| `parse_array`, `parse_object`, 1441-1711 | `ParseOpen`, `ParseFirst`, `ParseComma`, `ParseColon`, `ParseClose`, `ParseFails`, `OutOfMemory` |

`buffer.top` is the highest position ever written, `buffer.pending` what has been written
behind the offset and is found again with `strlen`. A character may stand for several
bytes (`Bytes`): a number, a literal, the four digits behind `\u`, and what is not ASCII.

### LiveSession

The screen that tracks a drive, the foreground service, and the thread that talks to the
server. The main thread handles one event at a time; a `CustomThread` handles the messages
of its queue. A position is a place on a line; a fix may be any place, ahead of the last
one, behind it, or the same. `way` adds up how far the fixes have moved since the first.

| Code | Actions |
|---|---|
| `LiveMapActivity` | `Enter`, `PermissionResult`, `ConnectivityChanged`, `Exit` |
| `LocationService.onStartCommand`, `stopService`, `onDestroy` | `Start`, `Stop`, `Destroy` |
| `LocationService.onSensorChanged`, `setupReport`, `reportPotHole` | `SensorChanged`, with `Jumped` |
| the location callback | `LocationResult` |
| `CustomThread.onLooperPrepared`, `LocationService.onSuccess` | `LooperPrepared` |
| `CustomHandler.handleMessage` for open, report, close | `HandleMessage` |
| external: Android | `intents` (delivered in order), `Running`, `SendMessage` (dropped by a thread that quits), `LoopEnds` |

`Crash` stands for an exception nobody catches: `onDestroy` of a service whose thread has
not called back, a report before that or on a stream that never opened, a place without a
locality, and leaving a screen that registered no receiver.

### HomeScreens

The app from its start to the list of potholes nearby. `Die` ends the process, which
clears the static fields and keeps the session. Android may keep the state of the screen
as well (`saved`), and then brings `HomeActivity` back in a new process without
`MainActivity.onCreate` (`Restore`), where the name is null. `Expire` is the end of a
Cognito session.

| Code | Actions |
|---|---|
| `MainActivity.onCreate`, `isSessionValid` | `Launch`, with `UserAtStart` |
| `HomeActivity.onCreate` in a process that was restored | `Restore` |
| `SigninFragment`, `SigninModel` | `SignIn`, `SignInCompleted`, `SignInFailed` |
| `RightHomeFragment`: last location, filter buttons | `LastLocation`, `Click`, with `Clicked` |
| `RightHomeModel.getPotholesByRange`, `onSuccess` | `GetPotholes`, `ReadMeters`, `ReadPlace` |
| `CustomHandler.dispatchPotholesByRange` | `Dispatch` |
| `RightHomeFragment.onPotholesLoaded` | `PotholesLoaded` |

## 4. Runs

| Run | Instance | Shows |
|---|---|---|
| `thread_pool` | 3 workers, 2 tasks, queue of 2 | `TypeOK`, `CounterExact`, `NoStrandedTask`, `NoStrandedProducer`, `ImplementsTaskBuffer`. Three workers are enough for two to compete for a task while a third counts; a queue of two for a shift to matter; both limits are hit. |
| `thread_pool_live` | 2 workers, 2 tasks, queue of 1 | `EveryTaskStarts`, `AddTaskReturns`, with a queue that is full after each add. |
| `poll_server` | 2 clients, 2 workers, 3 slots, resets | `TypeOK`, `ListenerKept`, `NoDeadSlotForgotten`. Two connections and two workers are the least at which the races on `info` and `fds` occur; three slots make the array fill. |
| `poll_server_live` | 2 clients, 1 worker, no queries, room for one connection | `MainKeepsPolling`, `EveryClientAccepted`: the one worker and the one free slot make the other client wait, and be turned away. The queue does not fill here; that `addTask` returns when it does is in `thread_pool_live`. |
| `poll_server_one_client` | 1 client, 2 workers, 2 queries, partial sends, resets, poll failures | `NoConnectionLost`, `OneWorkerPerConnection`, `DispatchedIsReadable`, `QueryServed`: with one connection the array is never disturbed, and these hold. |
| `request_handler` | 3 messages, a buffer of two, answers of 3 pieces through room for 2 | `TypeOK`, `OneReportPerMessage`, `AnswersWhole`, `TaskEnds`. Room smaller than an answer forces partial sends and EWOULDBLOCK; a third message finds the buffer used twice. |
| `days_query` | 50 start dates, 2 rows, 2 queries, spans of 1, 13, 14, 17 days and a year | `TypeOK`, `HistoryExact`. Two spans lead to ages of 1, 2, 13, 14, 15, 26 to 31 and 34 days, and to a year and more, from the middle and the end of months; a fetch may fail at each of the rows. |
| `json_tree` | 4 items, 3 when some have names, two objects with a member each, one number, one string, two names that differ in case | `TypeOK`, `ListsLinked`, `MemoryAccounted`, `CompareTellsValues`, `ImplementsItemLists`. Three items in a list are the least with an inner one, and a fourth makes the list itself or a replacement. Two objects that own a member each (`Pair`) are the least in which keys of one are looked up in the other, with case and without; the order of several keys is in `ComparedByValue` only. |
| `json_text` | 25 values, every buffer size up to 10 and some up to 24, `INT_MAX` = 30, a nesting limit of 2; all texts one edit away from seven | `TypeOK`, `WritesFit`, `SpareByteSuffices`, `RoundTrip`, `ParsesTheGrammar`, `NothingLeaked`. The texts of the values are longer than half of `INT_MAX`, so that doubling stops there, and some longer than all of it; each edit breaks a text at another place of the parser. |
| `live_session` | 4 events, 3 places, 5 steps (events and moves by one place), 30 m being 2 | `TypeOK`, `WrittenInOrder`, `ReportsApart`, `SessionCloses`. Four events allow a session to be started, stopped and started again, and two starts before the first is delivered; two start a session and leave three moves, enough for two reports with a jump between them that is too near, and for a car that comes back; leaving the screen is no event, so that a session can also end then. |
| `home_screens` | 2 users, 2 sign-ins, 3 filters, 3 clicks | `UserIsSession`, `ListIsAnswer`. A sign-in that fails and one of another user, with deaths, starts and restored screens at any time; three clicks are a quiet one, one that overlaps it, and one after both. |

One property fails when two connections meet, against what a comment in the code
promises, and its run ends in a counterexample:

| Run | Property | The counterexample |
|---|---|---|
| `connection_lost` | `NoConnectionLost` | two connections ready in one round; the second dispatch overwrites `info` |

The models contain more behaviours of this kind, which no run asserts anything about.
In the server:

- the race of `connection_lost` also puts two workers on one descriptor; a worker that
  then receives nothing answers from its old buffer;
- two workers may also come to one descriptor with `info` read in time, when the first client
  is reset and the second sends a query in the same round: the nested compaction moves
  the second descriptor to slot 1, the loop goes on with the old `revents` to what is left in
  slot 2, dispatches that and parks slot 2, which is behind the array now; slot 1 is polled
  on, and the next round dispatches it again. So `OneWorkerPerConnection` is checked for
  one client;
- a task that is queued but not yet counted is not in `num_threads_executing`, so the
  compaction may move a slot that the task points to;
- with two hang-ups in one round the nested compaction leaves `revents` that no longer
  match `fds`, and a client that is there is disconnected;
- a client that does not read keeps a worker in the send loop (`SendPart`), which calls
  `send` without a pause;
- a slot that is unused stays in the array while any worker runs, so
  `RejectConnection` may turn a client away with slots unused;
- `DestroyPool` may hang, because `pthread_cond_destroy` waits for idle workers;
- of two messages that arrive together the second is not looked at; a report that
  arrives together with the end of the stream is received and dropped (`RecvEnd`); the
  first half of a report over the rest of an old one that starts alike is the old one, which
  is stored again (`ParseMixed`), because `recv` returns EWOULDBLOCK whether or not the
  message is whole, which the comment at logic.c:39 relies on;
- the second `send` to a client that is gone raises SIGPIPE and ends the process
  (`BrokenPipe`);
- a query that fails keeps its JSON array and statement (`held`);
- one row with an invalid date ends the history without an answer (`FetchInvalidRow`), and
  after a fetch that fails the rows so far are answered as all there are (`PrintList`).

In cJSON:

- `cJSON_AddItemReferenceToObject` loses the reference when its name cannot be copied
  (`LoseReference`);
- an object with a key that occurs twice may not be equal to its copy, so
  `CompareTellsValues` asks for keys that differ;
- the search that is case sensitive ends at an item without a name (`ObjectItem`);
- `replace_item_in_object` renames the replacement even if there is nothing to replace.

In the app:

- `ConnectivityChanged(1)` while the service runs stops it and does not start it again;
- two starts before the first is delivered give one session two threads, and the connection
  of one of them is never closed, although `LocationService.onDestroy` means to; so
  `SessionCloses` is about sessions with one thread;
- leaving the screen while a start is on its way leaves the service running;
- the sensor listener is never unregistered, so samples keep coming to a destroyed session;
- the first sample is always a jump, and jumps within 30 m of each other, each of which
  moves `previous`, may go unreported however far they lead; two reports may be of places
  within 30 m, when the car comes back or jumps somewhere else on its way;
- a click on a filter while another request is under way shows whichever answer comes last,
  so `ListIsAnswer` is about the first click after everything is quiet; an empty or failed
  answer leaves the old list;
- `first_load` stays true, so the button for 100 m asks twice; the one for 5 km asks for 200;
- two sign-ins that overlap leave the name of one and the session of the other, so
  `UserIsSession` is about sign-ins that do not;
- a `HomeActivity` that the system restores has no name (`Restore`), and
  `LeftHomeFragment` asks the server for the potholes of nobody.

Bounds: `Workers`, `Conns`, `Descriptors` are small sets; `MaxQueries` bounds
the queries per connection (without it clients could query for ever and the
counter `queries` would not be finite); `AllowReset` and `AllowPollFailure`
switch failures of the network and of poll on, `AllowPartialSend` answers that do not fit
into the send buffer.
In `RequestHandler`, `MaxMessages`, `BufferLen`, `AnswerLen` and `Room`; in `DaysQuery`,
`MaxSpans`, `MaxRows` and `MaxQueries`; in `JsonTree`, `Nodes` and `MaxNamedItems`;
in `JsonText` the values, texts and sizes that `MCJsonText` lists, `IntMax` and
`NestingLimit`; in `LiveSession`, `MaxEvents`, `MaxSteps` and `Road`; in `HomeScreens`,
`MaxClicks` and `MaxSignIns`. Deadlock is checked for
`ThreadPool` only: the server's process may exit or hang, clients need not do
anything, a connection, a history, a drive or an app comes to rest, printing and
parsing end, and the caller of `JsonTree` may have no item left to allocate.
Safety runs of the server use symmetry over workers, connections and descriptors, and
`json_tree` over items; runs with liveness properties do not.

### Fairness

Weak fairness of each thread's steps: the kernel's scheduler runs a thread that
can run, and poll returns at the latest after its timeout. In `ThreadPool`
strong fairness of acquiring a mutex, because several threads compete for it
and a thread is not passed over for ever, and fairness of `WorkReturns`,
because a task ends; `CallAddTask` and spurious wake-ups need not happen. In
`PollServer` nothing forces clients to connect, query or leave, but what is sent to them
they read (`ReadAnswer`): the app reads until it has a line, and a worker whose client
does not read calls `send` for ever. In `RequestHandler` the server's steps, TCP and a client that has
not closed and reads are fair: the app reads until it has a line, and the send
loop of the code ends only if the client reads or goes away. In `LiveSession` Android
delivers its intents and each thread runs its loop; the user, the network, the car and
the sensors do as they like.

## 5. Proofs

`ThreadPoolProofs` and `PollServerProofs` prove, for every number of workers,
tasks, connections, descriptors and slots, `RequestHandlerProofs` for any number of
messages, length of an answer and room on the connection, `DaysQueryProofs` for any
start, spans and number of rows and queries, `JsonTreeProofs` and `JsonListsProofs`
for any finite number of items, any names and values, `LiveSessionProofs` for any
road, distance and number of events, and `HomeScreensProofs` for any users, filters, clicks and sign-ins:

- `PoolTypeCorrect`; `MutexesHeld` (each mutex has exactly the holder that is in
  its critical section, and a loaded counter is current until it is stored);
  `TasksHeld` (which workers hold a task, which slots do);
- `PoolCounterExact`, from `MutexesHeld`: the counter is the cardinality of a set
  of workers, so one worker entering or leaving changes it by one (`CountUpDown`,
  which needs `Workers` to be finite);
- `PoolNoLostWakeup`: `NoStrandedTask` and `NoStrandedProducer`. The two together
  are inductive: a thread that sleeps while it need not is always preceded by one
  that has yet to signal, or is awake and yet to test; `PoolProducerWakes` is the half about the main thread;
- `PoolImplementsTaskBuffer`, from `TasksHeld`: every step maps to a step of
  `TaskBuffer` or a stutter;
- `ServerTypeCorrect` and `ServerListenerKept`, from the inductive invariant
  `ServerInv`: types, the listener in slot 0 only, revents of slot 0 never a
  hang-up, and workers whose slot and descriptor are never the listener's. Types
  alone are not inductive: that `nfds` stays positive rests on slot 0 never being
  removed, which rests on no worker ever writing to it;
- `ServerForgetsNoDeadSlot`, from `ServerInv`: the order of the writes to a slot and
  to `compress_array`;
- `ClientNotLost`, `ClientHasOneWorker` and `ClientDispatchedToRead`: with one client
  (`OneClient`, the hypothesis of each) and any number of workers, slots, queries, partial
  sends, resets and failures, what fails for two clients (section 4) holds. `ClientInv` follows the connection through the
  server: `Fresh` in the queue of the listener, `Waiting` in slot 1, `Dispatched` in
  `info` or in the pool, `Handed` to the one worker, and back to `Waiting` or `Over`.
  The poll loop may remember an event of slot 1 only while the slot is `Waiting`,
  so the event is still true when the loop comes to it (`ClientEvent`);
- `HandlerTypeCorrect` and `AnswersArriveWhole`, from `HandlerInv`: `AnswersWhole` speaks of
  the end of what a client was sent only outside the send loop, so `EndsAt` says where it
  ends inside, at `offset`; `ClosedInv` (only a client that has closed is sent something
  too late, or resets the connection) says why an answer that is cut off has no reader;
- `OneReportStoredPerMessage`, from `OrderInv`: the halves nobody has received yet lie in the
  order of the messages, behind the half at the start of `buffer`; no report was stored on
  the receipt of anything ahead of them, and none yet for what a `recv` lets the server
  parse. `OneReportPerMessage` alone says nothing of what is still under way. It counts
  reports and does not say which report it is, and it may be an old one (`ParseMixed`);
- `HistoryTypeCorrect` and `HistoryIsExact`, from `HistoryInv`: `clock` is the number of
  days from the start to `today`, and each row's number the one of its date. `DayNumber`
  counts the days of the calendar (`AfterDate`, `AfterCount`), and `NearDates` proves that
  the condition of logic.c:555 holds exactly when two dates are 0 to 14 days apart:
  the branches of `getDateDifference` that borrow, the ends of months and leap years are
  decided by the prover for every two dates. While the rows are fetched, the list is what is recent
  among those already seen (`RowKept`, `RowDropped`);
- `TreeTypeCorrect`, `ListsStayLinked` and `MemoryIsAccounted`, from `JsonInv`: the pointers
  are a `Forest`. `ListsLinked` alone is not inductive: two items that lead to each other,
  apart from any list, satisfy it, and so does an item below itself. `NoLoop` and `NoCycle`
  exclude both without counting steps: the only set of items closed under `prev`, or under
  what shows them, is the empty one. `Roots` adds that the caller holds what has no owner,
  and `Strings` that the strings counted are those owned. The lemmas before the actions speak
  of the six functions of a forest and not of the variables: what is kept when a root is
  allocated (`RootKeeps`), appended, inserted, taken out of its list or freed with what is below
  it, when a list of new items is made and when a tree is copied. Each call of cJSON is a
  composition of these: a replacement inserts the new item before the old, then takes out
  and frees the old one. What `Freed` reaches is characterised by `BelowIs` as what is shown
  from below the root, all of it and nothing else;
- `TreeImplementsItemLists`, from `JsonInv`: the lists of `ItemLists` are read off the pointers
  by `ArrayList`, a walk defined by recursion. `ListOf` says without recursion that a
  sequence begins at `child` and that `next` leads from each of its elements to the one after
  it, the last to none. In a forest every item has such a sequence (`ListExists`: among the
  chains that begin at `child`, the longest, which no item can prolong), it has each item of
  the list once and no more items than there are (`ListOnce`, `ListShort`), and it is what
  the walk finds (`WalkIs`), so there is no other; what would be an induction over the length
  takes the least or the greatest of a set of numbers. `TreeIs` and `ShownListsIs` show that what
  `cJSON_Delete` frees and `cJSON_Duplicate` copies is what the lists say: what is left over
  would be below itself without end (`NoCycle`). Then each call: `KidsInsert`, `KidsAppend`,
  `KidsDetach`, `KidsPrune`, `KidsReplace` and `NewLists` give the lists after its
  assignments, and the lemmas `Lists...` the step of `ItemLists` that they are;
- `ComparedByValue`, from `JsonInv` and those lists: `ValueIs` and `CompareIs` say that the two
  recursions have a function for their ranks. `ObjectItemIs` shows that the walk of
  `get_object_item` comes to every item of the name if keys differ, so `MatchIs`: one
  level of `cJSON_Compare` tells the values apart if the level below does, each key being
  looked for both ways. From an item one sees fewer items than from what shows it
  (`ItemShowsLess`, by `NoCycle`), so `RankTells` goes by that number instead of
  by the depth, and no tree is deeper than the ranks there are;
- `ReportsStayApart`, from `FilterInv`: since its last report a session has moved at least as
  far as it is now from the place it remembers, which may be that of a jump that was not
  reported; by the triangle inequality (`Distances`) each fix keeps that;
- `SessionTypeCorrect` and `ReportsWrittenInOrder`, from `LoopInv`: the starts that are
  numbered are the sessions and the intents on their way, in this order; in the queue of a
  thread at most one open lies before the reports and one close behind them; the reports
  a session has sent and no thread has written map, in order, into reports that are queued.
  The property speaks of what is written; what may still be written is the part
  that makes it inductive;
- `UserStaysSession`, from `SignInInv`: while no two sign-ins overlap at most one is
  pending, and on the main screen it is for the name that has been set. The property
  alone is not inductive: it says nothing of a sign-in that Cognito has yet to answer,
  nor that a session that is valid is somebody's. `Started` adds that a process starts without a
  name, which is why a screen that is brought back never has another's;
- `ListAnswersFilter`, from `HomeInv`: what a thread has read so far of the shared
  fields is what the last click asked for, if nothing was under way then.

The assumptions are `PoolAssumption`, `ServerAssumption`, `HandlerAssumption`,
`DaysQueryAssumption`, `TreeAssumption`, `SessionAssumption` and `HomeAssumption`: capacities are positive,
`fds` has room for the listener and one connection, descriptors differ from
the listener's and from -1 and -2, ranges are numbers, and the items that can be allocated are finitely many, so that their
strings can be counted. `DaysQueryAssumption` lets the
clock start on any valid date early enough that it stays, for all the spans it may
pass, in the years 1800 to 9999 that `valid_date` knows.

Only model-checked: liveness under fairness (out of the prover's reach) and `JsonText`, whose
text functions are RECURSIVE operators.

## 6. Not modelled

- In the app: sign-up and the reset of a password, whose flows are single callbacks of
  Cognito, one of which the code forgets to pass on (`ResetCredentialsModel.java:40`);
  the history of a user (`LeftHomeFragment`) and the connectivity check of
  `MiddleHomeFragment`; both are planned (section 2). Layout, animation, maps and markers
  carry no state of interest, nor does the counter of detected potholes on the screen.
- In cJSON: `cJSON_Minify`, hooks and version, the accessors that only read a field, the
  formatting and scanning of numbers (`sprintf`, `strtod` and the locale's point: a
  number is one character here), `cJSON_ParseWithLength` of a text without a NUL, and the
  escapes `\b`, `\f`, `\r`, `\/`, which are handled like `\n`.
- In the server: the setup calls before the loop, whose failures end the process;
  `haversineDistance`, which is floating-point trigonometry; failures of `setsockopt`,
  `fcntl` and `malloc`.
- MySQL, Cognito and Android are external.
