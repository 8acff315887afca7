---------------------------- MODULE LiveSession ----------------------------
(* A tracking session of the app: LiveMapActivity, the foreground service
   LocationService, and the CustomThread whose CustomHandler talks to the server.
   The activity and the service run on the main thread, which handles one event
   at a time; each CustomThread handles the messages of its own queue.

   A position is a place on a line, 0 while no position is known. The
   platform is modelled as the app uses it: intents are delivered in order, a
   service is created for the first of them and destroyed after stopSelf, and a
   message to a thread that quits is dropped. What the screen shows is left out. *)
EXTENDS Integers, Sequences, SequencesExt

CONSTANTS
  Road,        \* the places there are
  Apart,       \* positions are more than 30 m apart if they differ by this much
  MaxEvents,   \* how often the screen is entered, a broadcast comes or the permission is given
  MaxSteps     \* these, and how far positions move from fix to fix

ASSUME SessionAssumption == Road \in Nat /\ MaxSteps \in Nat /\ Apart \in Nat \ {0} /\ MaxEvents \in Nat

VARIABLES
  shown,       \* LiveMapActivity is there
  receiver,    \* networkReceiver is registered
  intents,     \* what the system still has to deliver to the service
  sessions,    \* the instances of LocationService, destroyed ones included
  threads,     \* the CustomThreads, each with its CustomHandler
  crashed,     \* an exception that nobody catches has ended the app
  events

vars == <<shown, receiver, intents, sessions, threads, crashed, events>>
appVars == <<shown, receiver, events>>

Null == 0

\* For the bounds: what has happened, each move from one fix to the next counted by its length
Steps == events + FoldSeq(LAMBDA s, moved : s.way + moved, 0, sessions)
MoreEvents == events < MaxEvents /\ Steps < MaxSteps

--------------------------------------------------------------------------------
\* The service that the system knows: the last one, until stopSelf.
Running == Len(sessions) > 0 /\ ~Last(sessions).stopping

isLocationServiceRunning == Len(sessions) > 0 /\ Last(sessions).foreground

\* startLocationService and stopLocationService: the intents they send
StartIntent == IF isLocationServiceRunning THEN << >> ELSE <<"START">>

\* The bug that StopAnyway would be: the service is not looked at.
StopAnyway == <<"STOP">>

StopIntent == IF isLocationServiceRunning THEN <<"STOP">> ELSE << >>

\* The last session with its fields changed
SetLast(s) == Append(Front(sessions), s)

Crash == crashed' = TRUE /\ UNCHANGED <<intents, sessions, threads>>

\* Handler.sendMessage to thread t of ts
SendMessage(ts, t, m) ==
  IF ts[t].quitting THEN ts
  ELSE [ts EXCEPT ![t].queue = Append(@, m),
                  ![t].reports = IF m.what = "REPORT" THEN Append(@, m.at) ELSE @]

--------------------------------------------------------------------------------
\* LiveMapActivity

\* onCreate: without the permission it is asked for, and no receiver is registered.
Enter(permission) ==
  /\ ~shown /\ shown' = TRUE /\ receiver' = permission
  /\ MoreEvents /\ events' = events + 1
  /\ UNCHANGED <<intents, sessions, threads, crashed>>

\* onRequestPermissionsResult with an answer, whichever it is: it is not looked at. Without the
\* permission the service runs and no location comes.
PermissionResult ==
  /\ shown /\ ~receiver /\ MoreEvents
  /\ intents' = intents \o StartIntent
  /\ events' = events + 1
  /\ UNCHANGED <<shown, receiver, sessions, threads, crashed>>

\* networkReceiver.onReceive. Both methods look at the service before either intent arrives.
ConnectivityChanged(status) ==
  /\ shown /\ receiver /\ MoreEvents
  /\ intents' = intents \o StopIntent \o (IF status = 1 THEN StartIntent ELSE << >>)
  /\ events' = events + 1
  /\ UNCHANGED <<shown, receiver, sessions, threads, crashed>>

\* finish, by the button or because the GPS is turned off, and onDestroy, which throws if
\* networkReceiver has not been registered
Exit ==
  /\ shown
  /\ IF receiver
     THEN /\ shown' = FALSE /\ intents' = intents \o StopIntent
          /\ UNCHANGED <<receiver, sessions, threads, crashed, events>>
     ELSE Crash /\ UNCHANGED appVars

--------------------------------------------------------------------------------
\* LocationService, on the main thread

NewSession == [foreground |-> FALSE, stopping |-> FALSE, destroyed |-> FALSE, handler |-> Null,
               thread |-> Null, first |-> TRUE, at |-> 0, way |-> 0, previous |-> 0,
               reported |-> << >>]

NewThread(s) == [of |-> s, phase |-> "starting", queue |-> << >>, quitting |-> FALSE,
                 stream |-> "null", reports |-> << >>, written |-> << >>]

\* onStartCommand, ACTION_START: startForeground and startBackgroundThread
Start ==
  /\ intents # << >> /\ Head(intents) = "START"
  /\ intents' = Tail(intents)
  /\ LET all == IF Running THEN sessions ELSE Append(sessions, NewSession)
     IN /\ sessions' = [all EXCEPT ![Len(all)].foreground = TRUE,
                                   ![Len(all)].thread = Len(threads) + 1]
        /\ threads' = Append(threads, NewThread(Len(all)))
  /\ UNCHANGED <<appVars, crashed>>

\* onStartCommand, ACTION_STP: stopForeground and stopSelf
Stop ==
  /\ intents # << >> /\ Head(intents) = "STOP"
  /\ intents' = Tail(intents) \o (IF Last(sessions).stopping THEN << >> ELSE <<"DESTROY">>)
  /\ sessions' = SetLast([Last(sessions) EXCEPT !.foreground = FALSE, !.stopping = TRUE])
  /\ UNCHANGED <<appVars, threads, crashed>>

\* The bug that QuitAtOnce would be: quit for quitSafely, which drops what is queued.
QuitAtOnce(ts, s) ==
  [SendMessage(ts, s.handler, [what |-> "CLOSE", at |-> 0]) EXCEPT ![s.thread].quitting = TRUE,
                                                                   ![s.thread].queue = << >>]

\* The bug that NotClosed would be: onDestroy sends no message.
NotClosed(ts, s) == [ts EXCEPT ![s.thread].quitting = TRUE]

\* onDestroy of session s: a message to the handler, and quitSafely
Closing(ts, s) ==
  [SendMessage(ts, s.handler, [what |-> "CLOSE", at |-> 0]) EXCEPT ![s.thread].quitting = TRUE]

\* onDestroy, which throws if there is no handler yet
Destroy ==
  /\ intents # << >> /\ Head(intents) = "DESTROY"
  /\ IF Last(sessions).handler = Null THEN Crash
     ELSE /\ intents' = Tail(intents)
          /\ sessions' = SetLast([Last(sessions) EXCEPT !.destroyed = TRUE])
          /\ threads' = Closing(threads, Last(sessions))
          /\ UNCHANGED crashed
  /\ UNCHANGED appVars

Distance(a, b) == IF a <= b THEN b - a ELSE a - b

\* The session s after a fix. What it has moved since the first fix is history.
Located(s, at) == [s EXCEPT !.at = at, !.way = IF s.at = 0 THEN 0 ELSE @ + Distance(s.at, at)]

\* onLocationResult: any fix, ahead of the last one or behind. stopService ends the updates.
LocationResult ==
  /\ isLocationServiceRunning
  /\ UNCHANGED <<appVars, intents, threads, crashed>>
  /\ \E at \in 1..Road : sessions' = SetLast(Located(Last(sessions), at))
  /\ Steps' <= MaxSteps

\* The bug that FirstNotRemembered would be: previous is set for later jumps only.
FirstNotRemembered(s, reports) ==
  [s EXCEPT !.first = @ /\ s.at = 0, !.previous = IF s.first THEN @ ELSE s.at,
            !.reported = IF reports THEN Append(@, s.way) ELSE @]

\* What a jump of the acceleration leaves in session s, with a report or without
Jumped(s, reports) ==
  [s EXCEPT !.first = @ /\ s.at = 0, !.previous = s.at,
            !.reported = IF reports THEN Append(@, s.way) ELSE @]

\* onSensorChanged with a jump, of which the first sample always is one. The listener is
\* never unregistered. The geocoder may fail, and may find a place without a locality, which
\* throws as a report without a handler does.
SensorChanged(i) ==
  LET s == sessions[i]
      due == IF s.first THEN s.at # 0 ELSE Distance(s.previous, s.at) >= Apart
  IN /\ \/ /\ sessions' = [sessions EXCEPT ![i] = Jumped(s, FALSE)]
           /\ UNCHANGED <<intents, threads, crashed>>
        \/ due /\ Crash
        \/ /\ due /\ s.handler # Null
           /\ sessions' = [sessions EXCEPT ![i] = Jumped(s, TRUE)]
           /\ threads' = SendMessage(threads, s.handler, [what |-> "REPORT", at |-> s.at])
           /\ UNCHANGED <<intents, crashed>>
     /\ UNCHANGED appVars

--------------------------------------------------------------------------------
\* CustomThread and CustomHandler, on the thread t

\* onLooperPrepared and onSuccess
LooperPrepared(t) ==
  /\ threads[t].phase = "starting"
  /\ sessions' = [sessions EXCEPT ![threads[t].of].handler = t]
  /\ threads' = SendMessage([threads EXCEPT ![t].phase = "looping"], t, [what |-> "OPEN", at |-> 0])
  /\ UNCHANGED <<appVars, intents, crashed>>

\* handleMessage: what becomes of the thread without the message
Handled(th, m) ==
  CASE m.what = "OPEN" -> {[th EXCEPT !.stream = "open"], th}
    [] m.what = "REPORT" -> {IF th.stream = "open" THEN [th EXCEPT !.written = Append(@, m.at)] ELSE th}
    [] m.what = "CLOSE" -> {IF th.stream = "open" THEN [th EXCEPT !.stream = "closed"] ELSE th}

\* A report throws if no stream has been opened.
HandleMessage(t) ==
  /\ threads[t].phase = "looping" /\ threads[t].queue # << >>
  /\ LET m == Head(threads[t].queue)
     IN IF m.what = "REPORT" /\ threads[t].stream = "null" THEN Crash
        ELSE /\ \E th \in Handled([threads[t] EXCEPT !.queue = Tail(@)], m) : threads' = [threads EXCEPT ![t] = th]
             /\ UNCHANGED <<intents, sessions, crashed>>
  /\ UNCHANGED appVars

LoopEnds(t) ==
  /\ threads[t].phase = "looping" /\ threads[t].quitting /\ threads[t].queue = << >>
  /\ threads' = [threads EXCEPT ![t].phase = "ended"]
  /\ UNCHANGED <<appVars, intents, sessions, crashed>>

--------------------------------------------------------------------------------
Init ==
  /\ shown = FALSE /\ receiver = FALSE /\ intents = << >> /\ sessions = << >> /\ threads = << >>
  /\ crashed = FALSE /\ events = 0

Deliver == Start \/ Stop \/ Destroy
Loop(t) == LooperPrepared(t) \/ HandleMessage(t) \/ LoopEnds(t)

Next ==
  /\ ~crashed
  /\ \/ \E b \in BOOLEAN : Enter(b)
     \/ PermissionResult
     \/ \E status \in {0, 1} : ConnectivityChanged(status)
     \/ Exit
     \/ Start \/ Stop \/ Destroy
     \/ LocationResult
     \/ \E i \in DOMAIN sessions : SensorChanged(i)
     \/ \E t \in DOMAIN threads : LooperPrepared(t) \/ HandleMessage(t) \/ LoopEnds(t)

Spec == Init /\ [][Next]_vars

\* The system delivers its intents and a thread handles its messages.
FairSpec ==
  /\ Spec
  /\ WF_vars(~crashed /\ Deliver)
  /\ \A t \in 1..MaxEvents - 1 : WF_vars(~crashed /\ t \in DOMAIN threads /\ Loop(t))

--------------------------------------------------------------------------------
TypeOK ==
  /\ shown \in BOOLEAN /\ receiver \in BOOLEAN /\ crashed \in BOOLEAN
  /\ events \in 0..MaxEvents /\ (threads # << >> => Len(threads) < events)
  /\ \A i \in DOMAIN intents : intents[i] \in {"START", "STOP", "DESTROY"}
  /\ \A i \in DOMAIN sessions : sessions[i].handler \in {Null} \cup DOMAIN threads
                                /\ sessions[i].thread \in DOMAIN threads
  /\ \A t \in DOMAIN threads : threads[t].phase \in {"starting", "looping", "ended"}
                               /\ threads[t].stream \in {"null", "open", "closed"}
  /\ \A i \in DOMAIN intents : intents[i] = "STOP" => sessions # << >>

\* What is written to the server are the reports in the order in which they were detected,
\* and none of those given to a thread is missing when it ends: onDestroy closes the
\* connection behind them and quits safely. In a session that ended before its thread ran
\* there are none.
WrittenInOrder ==
  \A t \in DOMAIN threads :
    /\ IsPrefix(threads[t].written, threads[t].reports)
    /\ threads[t].phase = "ended" => threads[t].written = threads[t].reports

\* Between two reports of a session the fixes have moved more than 30 m in all, whichever jumps
\* came between and were not reported: what jolts a car that stands, or one pothole that is
\* felt in many samples, is reported once. That the reports themselves lie that far apart is
\* not so: the distance is taken to the last jump, and a car may come back.
ReportsApart ==
  \A i \in DOMAIN sessions : LET r == sessions[i].reported IN
    \A k \in 2..Len(r) : r[k] - r[k - 1] >= Apart

\* A session that has been started once and destroyed ends with its connection closed and
\* its thread gone. With two threads the one whose handler came first keeps its connection.
Threads(i) == {t \in DOMAIN threads : threads[t].of = i}
SessionCloses ==
  \A i \in 1..MaxEvents - 1 :
    (i \in DOMAIN sessions /\ sessions[i].destroyed /\ Cardinality(Threads(i)) = 1)
      ~> (crashed \/ \A t \in Threads(i) : threads[t].phase = "ended" /\ threads[t].stream # "open")
================================================================================
