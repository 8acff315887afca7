------------------------- MODULE LiveSessionProofs -------------------------
(* ReportsApart, TypeOK and WrittenInOrder of LiveSession, for any number of places,
   any distance Apart and any number of sessions, events and threads: first what the
   distance filter keeps, then the links between sessions and threads, the order of
   the intents, and what each looper has still to write.                          *)
EXTENDS LiveSession, TLAPS

Messages == [what : {"OPEN", "REPORT", "CLOSE"}, at : Nat]

Loopers == [of : Nat, phase : {"starting", "looping", "ended"}, queue : Seq(Messages),
            quitting : BOOLEAN, stream : {"null", "open", "closed"},
            reports : Seq(Nat), written : Seq(Nat)]

SessionRecords ==
  [foreground : BOOLEAN, stopping : BOOLEAN, destroyed : BOOLEAN, handler : Nat, thread : Nat,
   first : BOOLEAN, at : Nat, way : Nat, previous : Nat, reported : Seq(Nat)]

\* What the distance filter of a session keeps: since each report the fixes have moved at
\* least as far as the last one is from what is remembered, whichever jumps were reported.
Filtered ==
  {s \in SessionRecords :
     /\ s.at = 0 => s.first
     /\ s.first => s.reported = << >>
     /\ \A k \in DOMAIN s.reported : s.reported[k] + Distance(s.previous, s.at) <= s.way
     /\ \A k \in 2..Len(s.reported) : s.reported[k] - s.reported[k - 1] >= Apart}

\* The service is stopped only after it has been started.
IntentsInv ==
  /\ intents \in Seq({"START", "STOP", "DESTROY"})
  /\ \A i \in DOMAIN intents : intents[i] # "START" => sessions # << >>

FilterInv == sessions \in Seq(Filtered) /\ threads \in Seq(Loopers) /\ IntentsInv

--------------------------------------------------------------------------------
LEMMA ElementSet ==
  ASSUME NEW S, NEW ss \in Seq(S), NEW k, NEW e, k \in DOMAIN ss => e \in S
  PROVE  /\ [ss EXCEPT ![k] = e] \in Seq(S)
         /\ ss # << >> => [ss EXCEPT ![k] = e] # << >>
<1>1. CASE k \in DOMAIN ss
  BY <1>1
<1>2. CASE k \notin DOMAIN ss
  <2>1. [ss EXCEPT ![k] = e] = ss
    BY <1>2
  <2>. QED BY <2>1
<1>. QED BY <1>1, <1>2

LEMMA LastSet ==
  ASSUME NEW S, sessions \in Seq(S), Len(sessions) > 0, NEW s \in S
  PROVE  SetLast(s) \in Seq(S) \ {<< >>} /\ Last(sessions) \in S
<1>1. Front(sessions) \in Seq(S) /\ Last(sessions) \in S
  BY DEF Front, Last
<1>. QED BY <1>1 DEF SetLast

\* A message to a thread leaves a queue of messages.
LEMMA MessageSent ==
  ASSUME NEW ts \in Seq(Loopers), NEW t \in Nat, NEW m \in Messages
  PROVE  SendMessage(ts, t, m) \in Seq(Loopers)
<1>1. CASE t \notin DOMAIN ts
  <2>1. SendMessage(ts, t, m) \in
          {ts, [ts EXCEPT ![t] = [ts[t] EXCEPT !.queue = Append(@, m),
                  !.reports = IF m.what = "REPORT" THEN Append(@, m.at) ELSE @]]}
    BY <1>1 DEF SendMessage
  <2>. QED BY <1>1, <2>1
<1>2. CASE t \in DOMAIN ts
  <2>1. ts[t] \in Loopers
    BY <1>2
  <2>2. /\ Append(ts[t].queue, m) \in Seq(Messages)
        /\ Append(ts[t].reports, m.at) \in Seq(Nat)
    BY <2>1 DEF Loopers, Messages
  <2>3. [ts[t] EXCEPT !.queue = Append(@, m),
                  !.reports = IF m.what = "REPORT" THEN Append(@, m.at) ELSE @] \in Loopers
    BY <2>1, <2>2 DEF Loopers
  <2>4. SendMessage(ts, t, m) =
          IF ts[t].quitting THEN ts
          ELSE [ts EXCEPT ![t] = [ts[t] EXCEPT !.queue = Append(@, m),
                  !.reports = IF m.what = "REPORT" THEN Append(@, m.at) ELSE @]]
    BY <1>2, <2>1 DEF SendMessage, Loopers
  <2>. QED BY <1>2, <2>3, <2>4
<1>. QED BY <1>1, <1>2

LEMMA Distances ==
  ASSUME NEW a \in Nat, NEW b \in Nat, NEW c \in Nat
  PROVE  /\ Distance(a, b) \in Nat /\ Distance(a, a) = 0
         /\ Distance(a, c) <= Distance(a, b) + Distance(b, c)
BY DEF Distance

\* A jump keeps what the filter relies on, with a report if one is due and without.
LEMMA JumpFiltered ==
  ASSUME NEW s \in Filtered, NEW b \in BOOLEAN,
         b => IF s.first THEN s.at # 0 ELSE Distance(s.previous, s.at) >= Apart
  PROVE  Jumped(s, b) \in Filtered
<1>. DEFINE r == IF b THEN Append(s.reported, s.way) ELSE s.reported
            j == Jumped(s, b)
            d == Distance(s.previous, s.at)
<1>1. s \in SessionRecords
  BY DEF Filtered
<1>2. r \in Seq(Nat) /\ (b => Len(r) = Len(s.reported) + 1)
  BY <1>1 DEF SessionRecords
<1>3. /\ j \in SessionRecords /\ j.at = s.at /\ j.way = s.way
      /\ j.previous = s.at /\ j.reported = r /\ j.first = (s.first /\ s.at = 0)
  BY <1>1, <1>2 DEF SessionRecords, Jumped
<1>4. j.first => r = << >>
  BY <1>3 DEF Filtered
<1>5. /\ s.at \in Nat /\ s.previous \in Nat /\ s.way \in Nat /\ s.reported \in Seq(Nat)
      /\ d \in Nat /\ Distance(s.at, s.at) = 0
  <2>1. s.at \in Nat /\ s.previous \in Nat /\ s.way \in Nat /\ s.reported \in Seq(Nat)
    BY <1>1 DEF SessionRecords
  <2>. QED BY <2>1, Distances
<1>6. \A k \in DOMAIN s.reported : s.reported[k] \in Nat /\ s.reported[k] + d <= s.way
  BY <1>5 DEF Filtered
<1>. HIDE DEF d
<1>7. \A k \in DOMAIN r : r[k] <= s.way
  BY <1>2, <1>5, <1>6
<1>8. \A k \in 2..Len(r) : r[k] - r[k - 1] >= Apart
  <2>1. CASE ~b
    BY <2>1 DEF Filtered
  <2>2. ASSUME b, NEW k \in 2..Len(r) PROVE r[k] - r[k - 1] >= Apart
    <3>1. CASE k <= Len(s.reported)
      BY <1>2, <1>5, <2>2, <3>1 DEF Filtered
    <3>2. CASE k = Len(s.reported) + 1
      <4>1. k - 1 \in DOMAIN s.reported /\ r[k] = s.way /\ r[k - 1] = s.reported[k - 1]
        BY <1>2, <1>5, <2>2, <3>2
      <4>2. ~s.first /\ d >= Apart
        BY <2>2, <4>1 DEF Filtered, d
      <4>3. s.reported[k - 1] \in Nat /\ s.reported[k - 1] + d <= s.way
        BY <1>6, <4>1
      <4>4. Apart \in Nat
        BY SessionAssumption
      <4>. HIDE DEF r
      <4>5. r[k] = s.way /\ r[k - 1] \in Nat /\ r[k - 1] + d <= s.way
        BY <4>1, <4>3
      <4>. QED BY <1>5, <4>2, <4>4, <4>5
    <3>. QED BY <1>2, <1>5, <2>2, <3>1, <3>2
  <2>. QED BY <2>1, <2>2
<1>. HIDE DEF r
<1>9. \A k \in DOMAIN j.reported : j.reported[k] + Distance(j.previous, j.at) <= j.way
  <2>1. \A k \in DOMAIN r : r[k] \in Nat
    BY <1>2
  <2>. QED BY <1>3, <1>5, <1>7, <2>1
<1>10. j.at = 0 => j.first
  BY <1>3 DEF Filtered
<1>. QED BY <1>3, <1>4, <1>8, <1>9, <1>10 DEF Filtered

\* The filter does not look at the other fields.
LEMMA OthersChanged ==
  ASSUME NEW s \in Filtered, NEW u \in SessionRecords, u.at = s.at, u.way = s.way,
         u.previous = s.previous, u.first = s.first, u.reported = s.reported
  PROVE  u \in Filtered
BY DEF Filtered

\* Wherever the next fix lies, the way to it is counted.
LEMMA FixFiltered ==
  ASSUME NEW s \in Filtered, NEW at \in Nat \ {0}
  PROVE  Located(s, at) \in Filtered
<1>. DEFINE u == Located(s, at)
            way == IF s.at = 0 THEN 0 ELSE s.way + Distance(s.at, at)
<1>1. /\ s \in SessionRecords /\ s.at \in Nat /\ s.previous \in Nat /\ s.way \in Nat
      /\ s.reported \in Seq(Nat)
  BY DEF Filtered, SessionRecords
<1>2. way \in Nat
  <2>1. Distance(s.at, at) \in Nat
    BY <1>1, Distances
  <2>. QED BY <1>1, <2>1
<1>3. /\ u \in SessionRecords /\ u.at = at /\ u.way = way /\ u.previous = s.previous
      /\ u.first = s.first /\ u.reported = s.reported
  BY <1>1, <1>2 DEF Located, SessionRecords
<1>4. CASE s.at = 0
  BY <1>3, <1>4 DEF Filtered
<1>5. CASE s.at # 0
  <2>1. ASSUME NEW k \in DOMAIN s.reported PROVE s.reported[k] + Distance(s.previous, at) <= way
    <3>1. s.reported[k] \in Nat /\ s.reported[k] + Distance(s.previous, s.at) <= s.way
      BY <1>1, <2>1 DEF Filtered
    <3>2. /\ Distance(s.previous, at) <= Distance(s.previous, s.at) + Distance(s.at, at)
          /\ Distance(s.previous, at) \in Nat /\ Distance(s.previous, s.at) \in Nat
          /\ Distance(s.at, at) \in Nat
      BY <1>1, Distances
    <3>. QED BY <1>1, <1>5, <3>1, <3>2
  <2>2. /\ s.at = 0 => s.first
        /\ s.first => s.reported = << >>
        /\ \A k \in 2..Len(s.reported) : s.reported[k] - s.reported[k - 1] >= Apart
    BY DEF Filtered
  <2>. HIDE DEF u, way
  <2>3. u.at # 0
    BY <1>3
  <2>4. \A k \in DOMAIN u.reported : u.reported[k] + Distance(u.previous, u.at) <= u.way
    BY <1>3, <2>1
  <2>5. /\ u.first => u.reported = << >>
        /\ \A k \in 2..Len(u.reported) : u.reported[k] - u.reported[k - 1] >= Apart
    BY <1>3, <2>2
  <2>6. u \in Filtered
    BY <1>3, <2>3, <2>4, <2>5 DEF Filtered
  <2>. QED BY <2>6 DEF u
<1>. QED BY <1>4, <1>5

\* What a step leaves of the last session is a session again.
LEMMA LastChanged ==
  ASSUME NEW ss \in Seq(Filtered), Len(ss) > 0, NEW u \in Filtered
  PROVE  /\ ss[Len(ss)] \in Filtered
         /\ [ss EXCEPT ![Len(ss)] = u] \in Seq(Filtered) \ {<< >>}
OBVIOUS

\* Intents that are taken, and those that are sent while there is a session.
LEMMA IntentsTaken ==
  ASSUME IntentsInv, intents # << >>, intents' = Tail(intents), sessions' # << >>
  PROVE  IntentsInv'
BY DEF IntentsInv

LEMMA IntentsSent ==
  ASSUME IntentsInv, NEW s \in Seq({"START", "STOP", "DESTROY"}), intents' = intents \o s,
         sessions' = sessions, \A i \in DOMAIN s : s[i] # "START" => sessions # << >>
  PROVE  IntentsInv'
BY DEF IntentsInv

--------------------------------------------------------------------------------
\* The steps of the service on the main thread.
LEMMA StartStep ==
  ASSUME FilterInv, Start
  PROVE  FilterInv'
<1>. DEFINE all == IF Running THEN sessions ELSE Append(sessions, NewSession)
            last == all[Len(all)]
            u == [last EXCEPT !.foreground = TRUE, !.thread = Len(threads) + 1]
<1>1. NewSession \in Filtered
  BY DEF NewSession, Filtered, SessionRecords, Null
<1>2. all \in Seq(Filtered) /\ Len(all) > 0 /\ last \in Filtered
  BY <1>1 DEF FilterInv, Running
<1>3. last \in SessionRecords /\ Len(threads) + 1 \in Nat
  BY <1>2 DEF Filtered, FilterInv
<1>4. NewThread(Len(all)) \in Loopers
  BY <1>2 DEF NewThread, Loopers
<1>5. /\ sessions' = [all EXCEPT ![Len(all)].foreground = TRUE, ![Len(all)].thread = Len(threads) + 1]
      /\ threads' = Append(threads, NewThread(Len(all)))
      /\ intents # << >> /\ intents' = Tail(intents)
  BY DEF Start
<1>. HIDE DEF all
<1>6. u \in SessionRecords
  BY <1>3 DEF SessionRecords
<1>7. u.at = last.at /\ u.previous = last.previous /\ u.first = last.first /\ u.reported = last.reported
  BY <1>3 DEF SessionRecords
<1>8. u \in Filtered
  <2>1. u.at = last.at /\ u.way = last.way
    BY <1>3, <1>7 DEF SessionRecords
  <2>. HIDE DEF u, last
  <2>. QED BY <1>2, <1>6, <1>7, <2>1, OthersChanged
<1>9. sessions' = [all EXCEPT ![Len(all)] = u]
  BY <1>2, <1>5
<1>10. sessions' \in Seq(Filtered) /\ sessions' # << >>
  <2>. HIDE DEF u
  <2>. QED BY <1>2, <1>8, <1>9, LastChanged
<1>. QED BY <1>4, <1>5, <1>10, IntentsTaken DEF FilterInv

LEMMA StopStep ==
  ASSUME FilterInv, Stop
  PROVE  FilterInv'
<1>. DEFINE u == [Last(sessions) EXCEPT !.foreground = FALSE, !.stopping = TRUE]
<1>1. sessions # << >> /\ Len(sessions) > 0
  BY DEF FilterInv, IntentsInv, Stop
<1>2. Last(sessions) \in Filtered /\ Last(sessions) \in SessionRecords
  BY <1>1 DEF FilterInv, Last, Filtered
<1>3. u \in SessionRecords
  BY <1>2 DEF SessionRecords
<1>4. u.at = Last(sessions).at /\ u.previous = Last(sessions).previous /\ u.first = Last(sessions).first
      /\ u.reported = Last(sessions).reported /\ u.at = Last(sessions).at /\ u.way = Last(sessions).way
  BY <1>2 DEF SessionRecords
<1>5. sessions' \in Seq(Filtered) /\ sessions' # << >>
  <2>1. u \in Filtered
    <3>. HIDE DEF u
    <3>. QED BY <1>2, <1>3, <1>4, OthersChanged
  <2>. HIDE DEF u
  <2>2. sessions' = SetLast(u)
    BY DEF Stop, u
  <2>. QED BY <1>1, <2>1, <2>2, LastSet DEF FilterInv
<1>6. IntentsInv'
  <2>1. \E s \in {<< >>, <<"DESTROY">>} : intents' = Tail(intents) \o s
    BY DEF Stop
  <2>. QED BY <1>5, <2>1 DEF FilterInv, IntentsInv, Stop
<1>. QED BY <1>5, <1>6 DEF FilterInv, Stop

LEMMA DestroyStep ==
  ASSUME FilterInv, Destroy
  PROVE  FilterInv'
<1>1. CASE Last(sessions).handler = Null
  BY <1>1 DEF Destroy, Crash, FilterInv, IntentsInv
<1>2. CASE Last(sessions).handler # Null
  <2>. DEFINE u == [Last(sessions) EXCEPT !.destroyed = TRUE]
  <2>1. sessions # << >> /\ Len(sessions) > 0
    BY DEF FilterInv, IntentsInv, Destroy
  <2>2. Last(sessions) \in Filtered /\ Last(sessions) \in SessionRecords
    BY <2>1 DEF FilterInv, Last, Filtered
  <2>3. u \in SessionRecords
    BY <2>2 DEF SessionRecords
  <2>4. u.at = Last(sessions).at /\ u.previous = Last(sessions).previous /\ u.first = Last(sessions).first
        /\ u.reported = Last(sessions).reported /\ u.at = Last(sessions).at /\ u.way = Last(sessions).way
    BY <2>2 DEF SessionRecords
  <2>5. sessions' \in Seq(Filtered) /\ sessions' # << >>
    <3>1. u \in Filtered
      <4>. HIDE DEF u
      <4>. QED BY <2>2, <2>3, <2>4, OthersChanged
    <3>. HIDE DEF u
    <3>2. sessions' = SetLast(u)
      BY <1>2 DEF Destroy, u
    <3>. QED BY <2>1, <3>1, <3>2, LastSet DEF FilterInv
  <2>6. threads' \in Seq(Loopers)
    <3>. DEFINE m == [what |-> "CLOSE", at |-> 0]
                sent == SendMessage(threads, Last(sessions).handler, m)
                k == Last(sessions).thread
    <3>1. sent \in Seq(Loopers)
      <4>1. m \in Messages
        BY DEF Messages
      <4>2. Last(sessions).handler \in Nat
        BY <2>2 DEF SessionRecords
      <4>. QED BY <4>1, <4>2, MessageSent DEF FilterInv
    <3>2. threads' = [sent EXCEPT ![k] = [sent[k] EXCEPT !.quitting = TRUE]]
      BY <1>2 DEF Destroy, Closing
    <3>. HIDE DEF sent, k
    <3>3. k \in DOMAIN sent => sent[k] \in Loopers
      BY <3>1
    <3>4. sent[k] \in Loopers => [sent[k] EXCEPT !.quitting = TRUE] \in Loopers
      BY DEF Loopers
    <3>. QED BY <3>1, <3>2, <3>3, <3>4, ElementSet
  <2>7. intents # << >> /\ intents' = Tail(intents)
    BY <1>2 DEF Destroy
  <2>. QED BY <2>5, <2>6, <2>7, IntentsTaken DEF FilterInv
<1>. QED BY <1>1, <1>2

LEMMA LocationStep ==
  ASSUME FilterInv, LocationResult
  PROVE  FilterInv'
<1>1. Len(sessions) > 0
  BY DEF LocationResult, isLocationServiceRunning
<1>2. Last(sessions) \in Filtered /\ Last(sessions) \in SessionRecords
  BY <1>1 DEF FilterInv, Last, Filtered
<1>3. PICK at \in 1..Road : sessions' = SetLast(Located(Last(sessions), at))
  BY DEF LocationResult
<1>4. at \in Nat \ {0}
  BY SessionAssumption
<1>5. Located(Last(sessions), at) \in Filtered
  BY <1>2, <1>4, FixFiltered
<1>6. sessions' \in Seq(Filtered) \ {<< >>}
  BY <1>1, <1>3, <1>5, LastSet DEF FilterInv
<1>. QED BY <1>6 DEF FilterInv, IntentsInv, LocationResult

\* A sample of any session, a destroyed one included.
LEMMA SensorStep ==
  ASSUME FilterInv, NEW i \in DOMAIN sessions, SensorChanged(i)
  PROVE  FilterInv'
<1>. DEFINE s == sessions[i]
            m == [what |-> "REPORT", at |-> s.at]
<1>1. s \in Filtered /\ s.at \in Nat /\ s.handler \in Nat
  <2>1. s \in Filtered
    BY DEF FilterInv
  <2>2. s \in SessionRecords
    BY <2>1 DEF Filtered
  <2>. QED BY <2>1, <2>2 DEF SessionRecords
<1>2. CASE Crash
  BY <1>2 DEF SensorChanged, Crash, appVars, FilterInv, IntentsInv
<1>3. CASE sessions' = [sessions EXCEPT ![i] = Jumped(s, FALSE)] /\ UNCHANGED <<intents, threads>>
  <2>1. Jumped(s, FALSE) \in Filtered
    BY <1>1, JumpFiltered
  <2>. HIDE DEF s
  <2>. QED BY <1>3, <2>1, ElementSet DEF FilterInv, IntentsInv
<1>4. CASE /\ IF s.first THEN s.at # 0 ELSE Distance(s.previous, s.at) >= Apart
           /\ sessions' = [sessions EXCEPT ![i] = Jumped(s, TRUE)]
           /\ threads' = SendMessage(threads, s.handler, m)
           /\ UNCHANGED intents
  <2>1. Jumped(s, TRUE) \in Filtered
    BY <1>1, <1>4, JumpFiltered
  <2>2. m \in Messages
    BY <1>1 DEF Messages
  <2>3. threads' \in Seq(Loopers)
    BY <1>1, <1>4, <2>2, MessageSent DEF FilterInv
  <2>. HIDE DEF s
  <2>. QED BY <1>4, <2>1, <2>3, ElementSet DEF FilterInv, IntentsInv
<1>. QED BY <1>2, <1>3, <1>4 DEF SensorChanged

--------------------------------------------------------------------------------
\* The steps of a CustomThread leave what a session remembers alone.
LEMMA LoopStep ==
  ASSUME FilterInv, NEW t \in DOMAIN threads, LooperPrepared(t) \/ HandleMessage(t) \/ LoopEnds(t)
  PROVE  FilterInv'
<1>1. t \in Nat /\ threads[t] \in Loopers
  BY DEF FilterInv
<1>2. CASE LooperPrepared(t)
  <2>. DEFINE n == threads[t].of
              u == [sessions[n] EXCEPT !.handler = t]
              ts == [threads EXCEPT ![t].phase = "looping"]
  <2>1. sessions' \in Seq(Filtered) /\ (sessions # << >> => sessions' # << >>)
    <3>1. sessions' = [sessions EXCEPT ![n] = u]
      BY <1>2 DEF LooperPrepared
    <3>. HIDE DEF n
    <3>2. ASSUME n \in DOMAIN sessions PROVE u \in Filtered
      <4>1. sessions[n] \in Filtered /\ sessions[n] \in SessionRecords
        BY <3>2 DEF FilterInv, Filtered
      <4>2. u \in SessionRecords
        BY <1>1, <4>1 DEF SessionRecords
      <4>3. u.previous = sessions[n].previous /\ u.first = sessions[n].first
            /\ u.reported = sessions[n].reported /\ u.at = sessions[n].at /\ u.way = sessions[n].way
        BY <4>1 DEF SessionRecords
      <4>. HIDE DEF u
      <4>. QED BY <4>1, <4>2, <4>3, OthersChanged
    <3>. HIDE DEF u
    <3>. QED BY <3>1, <3>2, ElementSet DEF FilterInv
  <2>2. ts \in Seq(Loopers)
    <3>1. [threads[t] EXCEPT !.phase = "looping"] \in Loopers
      BY <1>1 DEF Loopers
    <3>2. ts = [threads EXCEPT ![t] = [threads[t] EXCEPT !.phase = "looping"]]
      OBVIOUS
    <3>. QED BY <3>1, <3>2, ElementSet DEF FilterInv
  <2>3. [what |-> "OPEN", at |-> 0] \in Messages
    BY DEF Messages
  <2>4. threads' \in Seq(Loopers)
    BY <1>1, <1>2, <2>2, <2>3, MessageSent DEF LooperPrepared
  <2>. QED BY <1>2, <2>1, <2>4 DEF LooperPrepared, FilterInv, IntentsInv
<1>3. CASE HandleMessage(t)
  <2>. DEFINE m == Head(threads[t].queue)
              th0 == [threads[t] EXCEPT !.queue = Tail(@)]
  <2>1. CASE Crash
    BY <1>3, <2>1 DEF Crash, HandleMessage, FilterInv, IntentsInv
  <2>2. ASSUME NEW th \in Handled(th0, m), threads' = [threads EXCEPT ![t] = th], UNCHANGED <<intents, sessions>>
        PROVE  FilterInv'
    <3>1. m \in Messages /\ th0 \in Loopers
      <4>1. threads[t].queue \in Seq(Messages) /\ threads[t].queue # << >>
        BY <1>1, <1>3 DEF Loopers, HandleMessage
      <4>2. m \in Messages /\ Tail(threads[t].queue) \in Seq(Messages)
        BY <4>1
      <4>. QED BY <1>1, <4>2 DEF Loopers
    <3>2. th \in Loopers
      <4>. HIDE DEF th0, m
      <4>1. th0.written \in Seq(Nat) /\ m.at \in Nat /\ m.what \in {"OPEN", "REPORT", "CLOSE"}
        BY <3>1 DEF Loopers, Messages
      <4>2. th \in {th0, [th0 EXCEPT !.stream = "open"], [th0 EXCEPT !.stream = "closed"],
                    [th0 EXCEPT !.written = Append(@, m.at)]}
        BY <2>2, <4>1 DEF Handled
      <4>3. Append(th0.written, m.at) \in Seq(Nat)
        BY <4>1
      <4>. QED BY <3>1, <4>2, <4>3 DEF Loopers
    <3>. QED BY <2>2, <3>2 DEF FilterInv, IntentsInv
  <2>. QED BY <1>3, <2>1, <2>2 DEF HandleMessage
<1>4. CASE LoopEnds(t)
  <2>1. threads' \in Seq(Loopers)
    <3>1. [threads[t] EXCEPT !.phase = "ended"] \in Loopers
      BY <1>1 DEF Loopers
    <3>2. threads' = [threads EXCEPT ![t] = [threads[t] EXCEPT !.phase = "ended"]]
      BY <1>4 DEF LoopEnds
    <3>. QED BY <3>1, <3>2, ElementSet DEF FilterInv
  <2>. QED BY <1>4, <2>1 DEF LoopEnds, FilterInv, IntentsInv
<1>. QED BY <1>2, <1>3, <1>4

\* The steps of the screen send intents, to stop only a service that runs.
LEMMA ScreenStep ==
  ASSUME FilterInv,
         \/ \E b \in BOOLEAN : Enter(b)
         \/ PermissionResult
         \/ \E status \in {0, 1} : ConnectivityChanged(status)
         \/ Exit
  PROVE  FilterInv'
<1>1. /\ StartIntent \in Seq({"START", "STOP", "DESTROY"}) /\ \A i \in DOMAIN StartIntent : StartIntent[i] = "START"
      /\ StopIntent \in Seq({"START", "STOP", "DESTROY"}) /\ (StopIntent # << >> => sessions # << >>)
  <2>1. StartIntent \in {<< >>, <<"START">>} /\ StopIntent \in {<< >>, <<"STOP">>}
    BY DEF StartIntent, StopIntent
  <2>2. StopIntent # << >> => Len(sessions) > 0
    BY DEF StopIntent, isLocationServiceRunning
  <2>3. << >> \in Seq({"START", "STOP", "DESTROY"}) /\ <<"START">> \in Seq({"START", "STOP", "DESTROY"})
        /\ <<"STOP">> \in Seq({"START", "STOP", "DESTROY"})
    OBVIOUS
  <2>4. \A i \in DOMAIN StartIntent : StartIntent[i] = "START"
    BY <2>1
  <2>5. StopIntent # << >> => sessions # << >>
    BY <2>2
  <2>6. StartIntent \in Seq({"START", "STOP", "DESTROY"}) /\ StopIntent \in Seq({"START", "STOP", "DESTROY"})
    BY <2>1, <2>3
  <2>. QED BY <2>4, <2>5, <2>6
<1>2. UNCHANGED <<sessions, threads>>
  BY DEF Enter, PermissionResult, ConnectivityChanged, Exit, Crash
<1>3. CASE UNCHANGED intents
  BY <1>2, <1>3 DEF FilterInv, IntentsInv
<1>4. CASE intents' = intents \o StartIntent
  BY <1>1, <1>2, <1>4, IntentsSent DEF FilterInv
<1>5. CASE intents' = intents \o StopIntent
  <2>1. \A i \in DOMAIN StopIntent : StopIntent[i] # "START" => sessions # << >>
    BY <1>1
  <2>. QED BY <1>1, <1>2, <1>5, <2>1, IntentsSent DEF FilterInv
<1>6. CASE intents' = intents \o StopIntent \o StartIntent
  <2>1. StopIntent \o StartIntent \in Seq({"START", "STOP", "DESTROY"})
    BY <1>1
  <2>2. \A i \in DOMAIN (StopIntent \o StartIntent) : (StopIntent \o StartIntent)[i] # "START" => sessions # << >>
    BY <1>1
  <2>3. intents' = intents \o (StopIntent \o StartIntent)
    BY <1>1, <1>6 DEF FilterInv, IntentsInv
  <2>. QED BY <1>2, <2>1, <2>2, <2>3, IntentsSent DEF FilterInv
<1>7. intents \o StopIntent \o << >> = intents \o StopIntent
  BY <1>1 DEF FilterInv, IntentsInv
<1>. QED BY <1>3, <1>4, <1>5, <1>6, <1>7 DEF Enter, PermissionResult, ConnectivityChanged, Exit, Crash

--------------------------------------------------------------------------------
\* Between two reports of a session the fixes move at least Apart in all: for every order of
\* fixes and jumps, reported or not, and any restarts of the service between them.
THEOREM ReportsStayApart == Spec => []ReportsApart
<1>1. Init => FilterInv
  BY DEF Init, FilterInv, IntentsInv
<1>2. FilterInv /\ [Next]_vars => FilterInv'
  <2>1. ASSUME FilterInv, Next PROVE FilterInv'
    BY <2>1, StartStep, StopStep, DestroyStep, LocationStep, SensorStep, LoopStep, ScreenStep DEF Next
  <2>2. ASSUME FilterInv, UNCHANGED vars PROVE FilterInv'
    BY <2>2 DEF vars, FilterInv, IntentsInv
  <2>. QED BY <2>1, <2>2
<1>3. FilterInv => ReportsApart
  BY DEF FilterInv, ReportsApart, Filtered
<1>. QED BY <1>1, <1>2, <1>3, PTL DEF Spec

--------------------------------------------------------------------------------
\* Every report a thread was given and has not written waits in its queue, in the order of
\* the reports, and nothing else is queued as a report.
Unwritten(th) == Len(th.written) + 1..Len(th.reports)

Waits(th, g) ==
  /\ \A r, q \in Unwritten(th) : r < q => g[r] < g[q]
  /\ \A r \in Unwritten(th) : /\ th.queue[g[r]].what = "REPORT"
                              /\ th.queue[g[r]].at = th.reports[r]
  /\ \A k \in DOMAIN th.queue :
       th.queue[k].what = "REPORT" => \E r \in Unwritten(th) : g[r] = k

Pending(th) == \E g \in [Unwritten(th) -> DOMAIN th.queue] : Waits(th, g)

\* A thread whose session is gone or not. Until its connection is closed nothing is lost, and
\* the connection of a thread that quits is closed behind all it was given.
Written(th) ==
  /\ Len(th.written) <= Len(th.reports)
  /\ \A k \in DOMAIN th.written : th.written[k] = th.reports[k]

Opens(th) == \A k \in DOMAIN th.queue : th.queue[k].what = "OPEN" => k = 1 /\ th.stream = "null"

CloseSent(th) == th.stream = "closed" \/ \E k \in DOMAIN th.queue : th.queue[k].what = "CLOSE"

ClosedBehind(th) ==
  /\ th.stream = "closed" => Len(th.written) = Len(th.reports)
  /\ \A j, k \in DOMAIN th.queue :
       j < k /\ th.queue[j].what = "CLOSE" => th.queue[k].what # "REPORT"

Phased(th) ==
  /\ th.phase = "starting" => /\ th.queue = << >> /\ th.reports = << >> /\ th.written = << >>
                              /\ th.stream = "null"
  /\ th.phase = "ended" => th.quitting /\ th.queue = << >>

Looped(th, gone) ==
  /\ Written(th) /\ Opens(th) /\ Phased(th)
  /\ th.stream # "closed" => Pending(th)
  /\ th.quitting => ClosedBehind(th)
  /\ ~th.quitting /\ CloseSent(th) => gone

\* A session and the threads it knows are of each other, and a handler has been prepared.
Linked(i) ==
  LET s == sessions[i] IN
  /\ s.thread \in DOMAIN threads /\ threads[s.thread].of = i
  /\ s.handler # Null => /\ s.handler \in DOMAIN threads /\ threads[s.handler].of = i
                         /\ threads[s.handler].phase # "starting"
  /\ s.destroyed => s.stopping
  /\ s.stopping => ~s.foreground

ThreadsInv ==
  \A t \in DOMAIN threads : /\ threads[t].of \in DOMAIN sessions
                            /\ Looped(threads[t], sessions[threads[t].of].destroyed)

SessionsInv == \A i \in DOMAIN sessions : Linked(i)

\* The order of the intents: behind a DESTROY the service is only started anew, before it
\* only stopped again, and no start waits behind a stop but with a DESTROY.
Queued(a) == \E j \in DOMAIN intents : intents[j] = a

OrderedIntents ==
  /\ \A j \in DOMAIN intents : intents[j] = "DESTROY" =>
       /\ Last(sessions).stopping /\ ~Last(sessions).destroyed
       /\ \A i \in DOMAIN intents : (i < j => intents[i] = "STOP") /\ (i > j => intents[i] = "START")
  /\ \A i, j \in DOMAIN intents : i < j /\ intents[i] = "STOP" /\ intents[j] = "START" => Queued("DESTROY")
  /\ Queued("STOP") => Last(sessions).foreground \/ Queued("DESTROY")

\* Every start that waits was sent by an event of its own, after the screen was entered.
Numbered(c) ==
  /\ \A j \in DOMAIN intents : intents[j] = "START" => c[j] \in Len(threads) + 1..events - 1
  /\ \A i, j \in DOMAIN intents : i < j /\ intents[i] = "START" /\ intents[j] = "START" => c[i] < c[j]

EventsInv ==
  /\ shown \in BOOLEAN /\ receiver \in BOOLEAN /\ crashed \in BOOLEAN
  /\ events \in 0..MaxEvents /\ (shown => events > 0)
  /\ threads # << >> => Len(threads) < events
  /\ \E c \in [DOMAIN intents -> 0..MaxEvents] : Numbered(c)

LoopInv == FilterInv /\ EventsInv /\ OrderedIntents /\ SessionsInv /\ ThreadsInv

--------------------------------------------------------------------------------
\* What a thread that does not quit makes of a message that is sent to it.
Given(th, m) ==
  [th EXCEPT !.queue = Append(@, m),
             !.reports = IF m.what = "REPORT" THEN Append(@, m.at) ELSE @]

LEMMA GivenFields ==
  ASSUME NEW th \in Loopers, NEW m \in Messages
  PROVE  LET u == Given(th, m) IN
         /\ u \in Loopers
         /\ u.of = th.of /\ u.phase = th.phase /\ u.quitting = th.quitting /\ u.stream = th.stream
         /\ u.written = th.written /\ u.queue = Append(th.queue, m)
         /\ m.what = "REPORT" => u.reports = Append(th.reports, m.at)
         /\ m.what # "REPORT" => u.reports = th.reports
<1>1. /\ Append(th.queue, m) \in Seq(Messages)
      /\ (IF m.what = "REPORT" THEN Append(th.reports, m.at) ELSE th.reports) \in Seq(Nat)
  BY DEF Loopers, Messages
<1>. QED BY <1>1 DEF Loopers, Given

\* The report that is sent waits behind those that waited.
LEMMA GivenWaits ==
  ASSUME NEW th \in Loopers, NEW m \in Messages, Written(th), Pending(th)
  PROVE  Pending(Given(th, m))
<1>. DEFINE u == Given(th, m)
<1>1. PICK g \in [Unwritten(th) -> DOMAIN th.queue] : Waits(th, g)
  BY DEF Pending
<1>2. /\ th.queue \in Seq(Messages) /\ th.reports \in Seq(Nat) /\ th.written \in Seq(Nat)
      /\ Len(th.written) <= Len(th.reports)
  BY DEF Loopers, Written
<1>3. /\ u.written = th.written /\ u.queue = Append(th.queue, m)
      /\ m.what = "REPORT" => u.reports = Append(th.reports, m.at)
      /\ m.what # "REPORT" => u.reports = th.reports
  BY GivenFields
<1>. HIDE DEF u
<1>4. CASE m.what = "REPORT"
  <2>. DEFINE n == Len(th.reports) + 1
              h == [r \in Unwritten(u) |-> IF r = n THEN Len(u.queue) ELSE g[r]]
  <2>1. Unwritten(u) = Unwritten(th) \cup {n} /\ Unwritten(th) = Len(th.written) + 1..n - 1
    BY <1>2, <1>3, <1>4 DEF Unwritten
  <2>2. \A r \in Unwritten(th) : r # n /\ r < n /\ g[r] \in DOMAIN th.queue
    BY <1>2, <2>1
  <2>3. h \in [Unwritten(u) -> DOMAIN u.queue]
    <3>1. Len(u.queue) = Len(th.queue) + 1 /\ DOMAIN u.queue = 1..Len(th.queue) + 1
      BY <1>2, <1>3
    <3>2. \A r \in Unwritten(u) : (IF r = n THEN Len(u.queue) ELSE g[r]) \in DOMAIN u.queue
      BY <1>2, <2>1, <2>2, <3>1
    <3>. HIDE DEF n
    <3>. QED BY <3>2
  <2>4. /\ \A r \in Unwritten(th) : h[r] = g[r]
        /\ h[n] = Len(th.queue) + 1
    BY <1>2, <1>3, <2>1, <2>2
  <2>. HIDE DEF h
  <2>5. \A r, q \in Unwritten(u) : r < q => h[r] < h[q]
    BY <1>1, <1>2, <2>1, <2>2, <2>4 DEF Waits
  <2>6. \A r \in Unwritten(u) : u.queue[h[r]].what = "REPORT" /\ u.queue[h[r]].at = u.reports[r]
    <3>1. \A r \in Unwritten(th) : u.queue[h[r]] = th.queue[g[r]] /\ u.reports[r] = th.reports[r]
      BY <1>2, <1>3, <1>4, <2>1, <2>2, <2>4
    <3>2. u.queue[h[n]] = m /\ u.reports[n] = m.at
      BY <1>2, <1>3, <1>4, <2>4 DEF Messages
    <3>. QED BY <1>1, <1>4, <2>1, <3>1, <3>2 DEF Waits
  <2>7. \A k \in DOMAIN u.queue : u.queue[k].what = "REPORT" => \E r \in Unwritten(u) : h[r] = k
    <3>. SUFFICES ASSUME NEW k \in DOMAIN u.queue, u.queue[k].what = "REPORT"
                  PROVE  \E r \in Unwritten(u) : h[r] = k
      OBVIOUS
    <3>1. CASE k = Len(th.queue) + 1
      BY <2>1, <2>4, <3>1
    <3>2. CASE k # Len(th.queue) + 1
      <4>1. k \in DOMAIN th.queue /\ th.queue[k] = u.queue[k]
        BY <1>2, <1>3, <3>2
      <4>. QED BY <1>1, <2>1, <2>4, <4>1 DEF Waits
    <3>. QED BY <3>1, <3>2
  <2>8. Waits(u, h)
    BY <2>5, <2>6, <2>7 DEF Waits
  <2>9. Pending(u)
    BY <2>3, <2>8 DEF Pending
  <2>. QED BY <2>9 DEF u
<1>5. CASE m.what # "REPORT"
  <2>1. Unwritten(u) = Unwritten(th)
    BY <1>3, <1>5 DEF Unwritten
  <2>2. /\ DOMAIN u.queue = DOMAIN th.queue \cup {Len(th.queue) + 1}
        /\ \A k \in DOMAIN th.queue : u.queue[k] = th.queue[k]
        /\ u.queue[Len(th.queue) + 1] = m
    BY <1>2, <1>3
  <2>3. g \in [Unwritten(u) -> DOMAIN u.queue]
    BY <2>1, <2>2
  <2>4. Waits(u, g)
    BY <1>1, <1>3, <1>5, <2>1, <2>2 DEF Waits
  <2>5. Pending(u)
    BY <2>3, <2>4 DEF Pending
  <2>. QED BY <2>5 DEF u
<1>. QED BY <1>4, <1>5 DEF u

LEMMA GivenLooped ==
  ASSUME NEW th \in Loopers, NEW m \in Messages, NEW gone \in BOOLEAN, NEW later \in BOOLEAN,
         Looped(th, gone), ~th.quitting, th.phase # "starting", gone => later,
         m.what = "CLOSE" => later,
         m.what = "OPEN" => th.queue = << >> /\ th.stream = "null"
  PROVE  Looped(Given(th, m), later)
<1>. DEFINE u == Given(th, m)
<1>1. /\ u.phase = th.phase /\ u.quitting = th.quitting /\ u.stream = th.stream
      /\ u.written = th.written /\ u.queue = Append(th.queue, m)
      /\ m.what = "REPORT" => u.reports = Append(th.reports, m.at)
      /\ m.what # "REPORT" => u.reports = th.reports
  BY GivenFields
<1>2. th.stream # "closed" => Pending(u)
  BY GivenWaits DEF Looped
<1>. HIDE DEF u
<1>3. /\ th.queue \in Seq(Messages) /\ th.reports \in Seq(Nat) /\ th.written \in Seq(Nat)
      /\ m.what \in {"OPEN", "REPORT", "CLOSE"} /\ m.at \in Nat
  BY DEF Loopers, Messages
<1>4. /\ DOMAIN u.queue = DOMAIN th.queue \cup {Len(th.queue) + 1}
      /\ \A k \in DOMAIN th.queue : u.queue[k] = th.queue[k]
      /\ u.queue[Len(th.queue) + 1] = m
  BY <1>1, <1>3
<1>5. Written(u)
  <2>1. /\ Len(th.reports) <= Len(u.reports) /\ Len(u.reports) \in Nat
        /\ \A k \in 1..Len(th.reports) : u.reports[k] = th.reports[k]
    BY <1>1, <1>3
  <2>2. DOMAIN th.written = 1..Len(th.written) /\ Len(th.written) \in Nat /\ Len(th.reports) \in Nat
    BY <1>3
  <2>3. Len(th.written) <= Len(th.reports) /\ \A k \in DOMAIN th.written : th.written[k] = th.reports[k]
    BY DEF Written, Looped
  <2>. QED BY <1>1, <2>1, <2>2, <2>3 DEF Written
<1>6. Opens(u)
  BY <1>1, <1>3, <1>4 DEF Opens, Looped
<1>7. Phased(u)
  BY <1>1 DEF Phased, Looped
<1>8. CloseSent(u) => later
  BY <1>1, <1>4 DEF CloseSent, Looped
<1>. QED BY <1>1, <1>2, <1>5, <1>6, <1>7, <1>8 DEF Looped, u

\* A thread quits behind the message that closes it: no report waits behind that one.
LEMMA QuitLooped ==
  ASSUME NEW th \in Loopers, NEW gone \in BOOLEAN, NEW later \in BOOLEAN,
         Looped(th, gone), ClosedBehind(th)
  PROVE  Looped([th EXCEPT !.quitting = TRUE], later)
<1>. DEFINE u == [th EXCEPT !.quitting = TRUE]
<1>1. /\ u.phase = th.phase /\ u.quitting = TRUE /\ u.stream = th.stream
      /\ u.written = th.written /\ u.queue = th.queue /\ u.reports = th.reports
  BY DEF Loopers
<1>. HIDE DEF u
<1>2. Written(u) /\ Opens(u) /\ Phased(u) /\ ClosedBehind(u)
  BY <1>1 DEF Looped, Written, Opens, Phased, ClosedBehind
<1>3. u.stream # "closed" => Pending(u)
  BY <1>1 DEF Looped, Pending, Waits, Unwritten
<1>. QED BY <1>1, <1>2, <1>3 DEF Looped, u
\* What a looper leaves of its thread when it handles the first message, without a report
\* that finds no stream: such a report ends the app.
LEMMA HandledPending ==
  ASSUME NEW th \in Loopers, Written(th), Pending(th), th.queue # << >>,
         NEW u \in Loopers, u.queue = Tail(th.queue), u.reports = th.reports,
         IF Head(th.queue).what = "REPORT" THEN u.written = Append(th.written, Head(th.queue).at)
         ELSE u.written = th.written
  PROVE  Written(u) /\ Pending(u)
<1>. DEFINE m == Head(th.queue)
            w == Len(th.written)
<1>1. PICK g \in [Unwritten(th) -> DOMAIN th.queue] : Waits(th, g)
  BY DEF Pending
<1>2. /\ th.queue \in Seq(Messages) /\ th.reports \in Seq(Nat) /\ th.written \in Seq(Nat)
      /\ w \in Nat /\ Len(th.reports) \in Nat /\ w <= Len(th.reports)
      /\ \A k \in 1..w : th.written[k] = th.reports[k]
  <2>1. th.queue \in Seq(Messages) /\ th.reports \in Seq(Nat) /\ th.written \in Seq(Nat)
    BY DEF Loopers
  <2>2. DOMAIN th.written = 1..w /\ w \in Nat /\ Len(th.reports) \in Nat
    BY <2>1
  <2>. QED BY <2>1, <2>2 DEF Written
<1>3. /\ DOMAIN th.queue = 1..Len(th.queue) /\ Len(th.queue) \in Nat /\ m = th.queue[1]
      /\ DOMAIN u.queue = 1..Len(th.queue) - 1
      /\ \A k \in DOMAIN u.queue : u.queue[k] = th.queue[k + 1]
  BY <1>2
<1>4. /\ \A r \in Unwritten(u) : r \in Unwritten(th) /\ g[r] # 1
      /\ \A r \in Unwritten(th) : g[r] # 1 => r \in Unwritten(u)
      /\ Written(u)
  <2>1. CASE m.what = "REPORT"
    <3>1. PICK r \in Unwritten(th) : g[r] = 1
      BY <1>1, <1>3, <2>1 DEF Waits
    <3>2. w + 1 \in Unwritten(th) /\ r = w + 1
      <4>1. w + 1 \in Unwritten(th) /\ r \in Nat /\ w + 1 <= r
        BY <1>2, <3>1 DEF Unwritten
      <4>2. g[w + 1] \in 1..Len(th.queue)
        BY <1>3, <4>1
      <4>3. w + 1 < r => g[w + 1] < g[r]
        BY <1>1, <3>1, <4>1 DEF Waits
      <4>. QED BY <1>2, <1>3, <3>1, <4>1, <4>2, <4>3
    <3>3. m.at = th.reports[w + 1]
      BY <1>1, <1>3, <3>1, <3>2 DEF Waits
    <3>4. u.written = Append(th.written, m.at) /\ Len(u.written) = w + 1 /\ u.reports = th.reports
      BY <1>2, <2>1
    <3>5. Unwritten(u) = w + 2..Len(th.reports) /\ Unwritten(th) = w + 1..Len(th.reports)
      BY <1>2, <3>4 DEF Unwritten
    <3>6. Written(u)
      <4>1. \A k \in 1..w : u.written[k] = th.written[k]
        BY <1>2, <3>4
      <4>2. u.written[w + 1] = m.at /\ DOMAIN u.written = 1..w + 1
        BY <1>2, <3>4
      <4>3. w + 1 <= Len(th.reports)
        BY <1>2, <3>2, <3>5
      <4>4. \A k \in DOMAIN u.written : u.written[k] = u.reports[k]
        <5>1. w \in Nat /\ \A k \in 1..w : th.written[k] = th.reports[k]
          BY <1>2
        <5>2. \A k \in 1..w + 1 : k \in 1..w \/ k = w + 1
          BY <5>1
        <5>. HIDE DEF w
        <5>. QED BY <3>3, <3>4, <4>1, <4>2, <5>1, <5>2
      <4>. QED BY <3>4, <4>3, <4>4 DEF Written
    <3>7. \A q \in Unwritten(u) : q \in Unwritten(th) /\ g[q] # 1
      <4>. SUFFICES ASSUME NEW q \in Unwritten(u) PROVE q \in Unwritten(th) /\ g[q] # 1
        OBVIOUS
      <4>1. q \in Unwritten(th) /\ r < q
        BY <1>2, <3>2, <3>5
      <4>2. g[r] < g[q] /\ g[q] \in 1..Len(th.queue)
        BY <1>1, <1>3, <3>1, <4>1 DEF Waits
      <4>. QED BY <1>3, <3>1, <4>1, <4>2
    <3>8. \A q \in Unwritten(th) : g[q] # 1 => q \in Unwritten(u)
      BY <1>2, <3>1, <3>2, <3>5
    <3>. QED BY <3>6, <3>7, <3>8
  <2>2. CASE m.what # "REPORT"
    <3>1. Unwritten(u) = Unwritten(th)
      BY <2>2 DEF Unwritten
    <3>2. Written(u)
      BY <2>2 DEF Written
    <3>3. \A r \in Unwritten(th) : g[r] # 1
      BY <1>1, <1>3, <2>2 DEF Waits
    <3>. QED BY <3>1, <3>2, <3>3
  <2>. QED BY <2>1, <2>2
<1>5. \A r \in Unwritten(u) : /\ g[r] \in 1..Len(th.queue) /\ g[r] - 1 \in DOMAIN u.queue
                               /\ u.queue[g[r] - 1] = th.queue[g[r]]
  <2>. SUFFICES ASSUME NEW r \in Unwritten(u)
                PROVE  /\ g[r] \in 1..Len(th.queue) /\ g[r] - 1 \in DOMAIN u.queue
                       /\ u.queue[g[r] - 1] = th.queue[g[r]]
    OBVIOUS
  <2>1. g[r] \in 1..Len(th.queue) /\ g[r] # 1
    BY <1>3, <1>4
  <2>2. g[r] - 1 \in 1..Len(th.queue) - 1 /\ (g[r] - 1) + 1 = g[r]
    BY <1>3, <2>1
  <2>. QED BY <1>3, <2>1, <2>2
<1>. DEFINE h == [r \in Unwritten(u) |-> g[r] - 1]
<1>6. h \in [Unwritten(u) -> DOMAIN u.queue] /\ \A r \in Unwritten(u) : h[r] = g[r] - 1
  BY <1>5
<1>. HIDE DEF h
<1>7. \A r, q \in Unwritten(u) : r < q => h[r] < h[q]
  BY <1>1, <1>3, <1>4, <1>5, <1>6 DEF Waits
<1>8. \A r \in Unwritten(u) : u.queue[h[r]].what = "REPORT" /\ u.queue[h[r]].at = u.reports[r]
  BY <1>1, <1>4, <1>5, <1>6 DEF Waits
<1>9. \A k \in DOMAIN u.queue : u.queue[k].what = "REPORT" => \E r \in Unwritten(u) : h[r] = k
  <2>. SUFFICES ASSUME NEW k \in DOMAIN u.queue, u.queue[k].what = "REPORT"
                PROVE  \E r \in Unwritten(u) : h[r] = k
    OBVIOUS
  <2>1. th.queue[k + 1].what = "REPORT"
    BY <1>3
  <2>2. k \in 1..Len(th.queue) - 1
    BY <1>3
  <2>3. k + 1 \in DOMAIN th.queue /\ k + 1 # 1 /\ (k + 1) - 1 = k
    BY <1>3, <2>2
  <2>4. PICK r \in Unwritten(th) : g[r] = k + 1
    BY <1>1, <2>1, <2>3 DEF Waits
  <2>. QED BY <1>4, <1>6, <2>3, <2>4
<1>10. Waits(u, h)
  BY <1>7, <1>8, <1>9 DEF Waits
<1>. QED BY <1>4, <1>6, <1>10 DEF Pending

LEMMA HandledLooped ==
  ASSUME NEW th \in Loopers, NEW gone \in BOOLEAN, Looped(th, gone), th.queue # << >>,
         th.phase = "looping", ~(Head(th.queue).what = "REPORT" /\ th.stream = "null"),
         NEW u \in Handled([th EXCEPT !.queue = Tail(@)], Head(th.queue))
  PROVE  u \in Loopers /\ u.of = th.of /\ u.phase = th.phase /\ Looped(u, gone)
<1>. DEFINE m == Head(th.queue)
            th0 == [th EXCEPT !.queue = Tail(@)]
<1>1. th.queue \in Seq(Messages) /\ m \in Messages /\ Tail(th.queue) \in Seq(Messages)
  <2>1. th.queue \in Seq(Messages)
    BY DEF Loopers
  <2>. QED BY <2>1
<1>2. th0 \in Loopers
  BY <1>1 DEF Loopers
<1>3. /\ th0.of = th.of /\ th0.phase = th.phase /\ th0.quitting = th.quitting
      /\ th0.reports = th.reports /\ th0.written = th.written /\ th0.queue = Tail(th.queue)
      /\ th0.stream = th.stream
  BY DEF Loopers
<1>4. m.what \in {"OPEN", "REPORT", "CLOSE"} /\ m.at \in Nat /\ th.written \in Seq(Nat)
      /\ th.stream \in {"null", "open", "closed"}
  BY <1>1 DEF Messages, Loopers
<1>. HIDE DEF m, th0
<1>5. \/ m.what = "OPEN" /\ u \in {[th0 EXCEPT !.stream = "open"], th0}
      \/ m.what = "REPORT" /\ th.stream = "open" /\ u = [th0 EXCEPT !.written = Append(@, m.at)]
      \/ m.what = "REPORT" /\ th.stream = "closed" /\ u = th0
      \/ m.what = "CLOSE" /\ th.stream = "open" /\ u = [th0 EXCEPT !.stream = "closed"]
      \/ m.what = "CLOSE" /\ th.stream # "open" /\ u = th0
  BY <1>3, <1>4 DEF Handled, m, th0
<1>6. u \in Loopers
  <2>1. Append(th0.written, m.at) \in Seq(Nat)
    BY <1>3, <1>4
  <2>. QED BY <1>2, <1>5, <2>1 DEF Loopers
<1>7. /\ u.of = th.of /\ u.phase = th.phase /\ u.quitting = th.quitting
      /\ u.reports = th.reports /\ u.queue = Tail(th.queue)
  BY <1>2, <1>3, <1>5 DEF Loopers
<1>8. \/ m.what = "OPEN" /\ u.stream \in {"open", th.stream} /\ u.written = th.written
      \/ m.what = "REPORT" /\ th.stream = "open" /\ u.stream = "open" /\ u.written = Append(th.written, m.at)
      \/ m.what = "REPORT" /\ th.stream = "closed" /\ u.stream = "closed" /\ u.written = th.written
      \/ m.what = "CLOSE" /\ th.stream = "open" /\ u.stream = "closed" /\ u.written = th.written
      \/ m.what = "CLOSE" /\ th.stream # "open" /\ u.stream = th.stream /\ u.written = th.written
  BY <1>2, <1>3, <1>5 DEF Loopers
<1>9. /\ DOMAIN th.queue = 1..Len(th.queue) /\ Len(th.queue) \in Nat \ {0} /\ m = th.queue[1]
      /\ DOMAIN u.queue = 1..Len(th.queue) - 1
      /\ \A k \in DOMAIN u.queue : u.queue[k] = th.queue[k + 1]
  BY <1>1, <1>7 DEF m
<1>10. m.what = "OPEN" => th.stream = "null"
  BY <1>9 DEF Looped, Opens
<1>11. th.stream # "closed" => Written(u) /\ Pending(u)
  <2>1. th.stream # "closed" =>
          IF m.what = "REPORT" THEN u.written = Append(th.written, m.at) ELSE u.written = th.written
    BY <1>8
  <2>. QED BY <1>6, <1>7, <2>1, HandledPending DEF Looped, m
<1>12. Written(u)
  <2>1. th.stream = "closed" => u.written = th.written
    BY <1>8, <1>10
  <2>. QED BY <1>7, <1>11, <2>1 DEF Looped, Written
<1>13. u.stream # "closed" => Pending(u)
  BY <1>8, <1>10, <1>11
<1>14. Opens(u)
  <2>. SUFFICES ASSUME NEW k \in DOMAIN u.queue, u.queue[k].what = "OPEN" PROVE FALSE
    BY DEF Opens
  <2>1. k + 1 \in DOMAIN th.queue /\ th.queue[k + 1].what = "OPEN" /\ k + 1 # 1
    BY <1>9
  <2>. QED BY <2>1 DEF Looped, Opens
<1>15. Phased(u)
  BY <1>7 DEF Phased
<1>16. ~u.quitting /\ CloseSent(u) => gone
  <2>1. CASE u.stream = "closed"
    BY <1>7, <1>8, <1>9, <1>10, <2>1 DEF Looped, CloseSent
  <2>2. ASSUME NEW k \in DOMAIN u.queue, u.queue[k].what = "CLOSE" PROVE ~u.quitting => gone
    <3>1. k + 1 \in DOMAIN th.queue /\ th.queue[k + 1].what = "CLOSE"
      BY <1>9, <2>2
    <3>. QED BY <1>7, <3>1 DEF Looped, CloseSent
  <2>. QED BY <2>1, <2>2 DEF CloseSent
<1>17. u.quitting => ClosedBehind(u)
  <2>. SUFFICES ASSUME u.quitting PROVE ClosedBehind(u)
    OBVIOUS
  <2>1. ClosedBehind(th)
    BY <1>7 DEF Looped
  <2>2. \A j, k \in DOMAIN u.queue : j < k /\ u.queue[j].what = "CLOSE" => u.queue[k].what # "REPORT"
    <3>. SUFFICES ASSUME NEW j \in DOMAIN u.queue, NEW k \in DOMAIN u.queue, j < k, u.queue[j].what = "CLOSE"
                  PROVE  u.queue[k].what # "REPORT"
      OBVIOUS
    <3>1. j + 1 \in DOMAIN th.queue /\ k + 1 \in DOMAIN th.queue /\ j + 1 < k + 1
      BY <1>9
    <3>. QED BY <1>9, <2>1, <3>1 DEF ClosedBehind
  <2>3. u.stream = "closed" => Len(u.written) = Len(u.reports)
    <3>1. CASE th.stream = "closed"
      BY <1>7, <1>8, <1>10, <2>1, <3>1 DEF ClosedBehind
    <3>2. CASE th.stream # "closed" /\ u.stream = "closed"
      <4>1. m.what = "CLOSE"
        BY <1>8, <1>10, <3>2
      <4>2. \A k \in DOMAIN u.queue : u.queue[k].what # "REPORT"
        <5>. SUFFICES ASSUME NEW k \in DOMAIN u.queue PROVE u.queue[k].what # "REPORT"
          OBVIOUS
        <5>1. 1 \in DOMAIN th.queue /\ k + 1 \in DOMAIN th.queue /\ 1 < k + 1
          BY <1>9
        <5>. QED BY <1>9, <2>1, <4>1, <5>1 DEF ClosedBehind
      <4>3. PICK g \in [Unwritten(u) -> DOMAIN u.queue] : Waits(u, g)
        BY <1>11, <3>2 DEF Pending
      <4>4. Unwritten(u) = {}
        BY <4>2, <4>3 DEF Waits
      <4>5. u.written \in Seq(Nat) /\ u.reports \in Seq(Nat)
        BY <1>6 DEF Loopers
      <4>6. Len(u.written) <= Len(u.reports) /\ Len(u.written) + 1..Len(u.reports) = {}
        BY <1>12, <4>4 DEF Unwritten, Written
      <4>7. Len(u.written) \in Nat /\ Len(u.reports) \in Nat
        BY <4>5
      <4>8. Len(u.written) < Len(u.reports) => Len(u.reports) \in Len(u.written) + 1..Len(u.reports)
        BY <4>7
      <4>. QED BY <4>6, <4>7, <4>8
    <3>. QED BY <3>1, <3>2
  <2>. QED BY <2>2, <2>3 DEF ClosedBehind
<1>18. Looped(u, gone)
  BY <1>12, <1>13, <1>14, <1>15, <1>16, <1>17 DEF Looped
<1>. QED BY <1>6, <1>7, <1>18

\* A thread ends when nothing is left in its queue.
LEMMA EndedLooped ==
  ASSUME NEW th \in Loopers, NEW gone \in BOOLEAN, Looped(th, gone), th.quitting, th.queue = << >>
  PROVE  Looped([th EXCEPT !.phase = "ended"], gone)
<1>. DEFINE u == [th EXCEPT !.phase = "ended"]
<1>1. /\ u.phase = "ended" /\ u.quitting = th.quitting /\ u.stream = th.stream
      /\ u.written = th.written /\ u.queue = th.queue /\ u.reports = th.reports
  BY DEF Loopers
<1>. HIDE DEF u
<1>2. Written(u) /\ Opens(u) /\ Phased(u) /\ ClosedBehind(u)
  BY <1>1 DEF Looped, Written, Opens, Phased, ClosedBehind
<1>3. u.stream # "closed" => Pending(u)
  BY <1>1 DEF Looped, Pending, Waits, Unwritten
<1>. QED BY <1>1, <1>2, <1>3 DEF Looped, u

\* A looper is prepared with an empty queue and opens its connection first.
LEMMA PreparedLooped ==
  ASSUME NEW th \in Loopers, NEW gone \in BOOLEAN, Looped(th, gone), th.phase = "starting"
  PROVE  LET u == [th EXCEPT !.phase = "looping"]
         IN  u \in Loopers /\ u.queue = << >> /\ u.stream = "null" /\ Looped(u, gone)
<1>. DEFINE u == [th EXCEPT !.phase = "looping"]
<1>1. /\ u.phase = "looping" /\ u.quitting = th.quitting /\ u.stream = th.stream
      /\ u.written = th.written /\ u.queue = th.queue /\ u.reports = th.reports /\ u \in Loopers
  BY DEF Loopers
<1>. HIDE DEF u
<1>2. Written(u) /\ Opens(u) /\ Phased(u) /\ (u.quitting => ClosedBehind(u))
  BY <1>1 DEF Looped, Written, Opens, Phased, ClosedBehind
<1>3. u.stream # "closed" => Pending(u)
  BY <1>1 DEF Looped, Pending, Waits, Unwritten
<1>4. u.queue = << >> /\ u.stream = "null"
  BY <1>1 DEF Looped, Phased
<1>. QED BY <1>1, <1>2, <1>3, <1>4 DEF Looped, CloseSent, u
\* A thread that has just been made has nothing to write.
LEMMA NewLooped ==
  ASSUME NEW i \in Nat
  PROVE  NewThread(i).of = i /\ Looped(NewThread(i), FALSE)
<1>. DEFINE u == NewThread(i)
<1>1. /\ u.of = i /\ u.phase = "starting" /\ u.quitting = FALSE /\ u.stream = "null"
      /\ u.written = << >> /\ u.queue = << >> /\ u.reports = << >>
  BY DEF NewThread
<1>. HIDE DEF u
<1>2. Written(u) /\ Opens(u) /\ Phased(u)
  BY <1>1 DEF Written, Opens, Phased
<1>3. Pending(u)
  <2>1. Unwritten(u) = {}
    BY <1>1 DEF Unwritten
  <2>2. [r \in {} |-> 1] \in [Unwritten(u) -> DOMAIN u.queue] /\ Waits(u, [r \in {} |-> 1])
    BY <1>1, <2>1 DEF Waits
  <2>. QED BY <2>2 DEF Pending
<1>. QED BY <1>1, <1>2, <1>3 DEF Looped, CloseSent, u

LEMMA SetLastIs ==
  ASSUME NEW S, sessions \in Seq(S), Len(sessions) > 0, NEW s
  PROVE  /\ Last(sessions) = sessions[Len(sessions)]
         /\ Len(sessions) \in DOMAIN sessions
         /\ DOMAIN SetLast(s) = DOMAIN sessions
         /\ SetLast(s)[Len(sessions)] = s
         /\ \A i \in DOMAIN sessions : i # Len(sessions) => SetLast(s)[i] = sessions[i]
<1>1. /\ Front(sessions) \in Seq(S) /\ Len(Front(sessions)) = Len(sessions) - 1
      /\ \A i \in 1..Len(sessions) - 1 : Front(sessions)[i] = sessions[i]
  <2>. DEFINE n == Len(sessions) - 1
  <2>1. n \in Nat /\ n <= Len(sessions) /\ Len(sessions) \in Nat /\ \A i \in 1..n : i \in 1..Len(sessions)
    OBVIOUS
  <2>2. Front(sessions) = SubSeq(sessions, 1, n)
    BY DEF Front
  <2>. HIDE DEF n
  <2>3. \A i \in 1..n : SubSeq(sessions, 1, n)[i] = sessions[i]
    BY <2>1
  <2>4. SubSeq(sessions, 1, n) \in Seq(S)
    BY <2>1
  <2>5. Len(SubSeq(sessions, 1, n)) = n
    BY <2>1
  <2>. QED BY <2>2, <2>3, <2>4, <2>5 DEF n
<1>. QED BY <1>1 DEF SetLast, Last

--------------------------------------------------------------------------------
\* What a step changes of sessions and threads, so that the links between them hold again.
LEMMA LinksKept ==
  ASSUME SessionsInv, DOMAIN sessions' = DOMAIN sessions, DOMAIN threads \subseteq DOMAIN threads',
         \A t \in DOMAIN threads : /\ threads'[t].of = threads[t].of
                                   /\ threads[t].phase # "starting" => threads'[t].phase # "starting",
         \A i \in DOMAIN sessions :
           /\ sessions'[i].thread = sessions[i].thread
           /\ \/ sessions'[i].handler = sessions[i].handler
              \/ /\ sessions'[i].handler \in DOMAIN threads
                 /\ threads[sessions'[i].handler].of = i
                 /\ threads'[sessions'[i].handler].phase # "starting"
           /\ sessions'[i].destroyed => sessions'[i].stopping
           /\ sessions'[i].stopping => ~sessions'[i].foreground
  PROVE  SessionsInv'
<1>. SUFFICES ASSUME NEW i \in DOMAIN sessions PROVE Linked(i)'
  BY DEF SessionsInv
<1>1. Linked(i)
  BY DEF SessionsInv
<1>. QED BY <1>1 DEF Linked

LEMMA ThreadsKept ==
  ASSUME ThreadsInv, DOMAIN sessions \subseteq DOMAIN sessions', DOMAIN threads' = DOMAIN threads,
         \A i \in DOMAIN sessions : sessions'[i].destroyed = sessions[i].destroyed,
         \A t \in DOMAIN threads :
           \/ threads'[t] = threads[t]
           \/ /\ threads'[t].of = threads[t].of
              /\ Looped(threads'[t], sessions[threads[t].of].destroyed)
  PROVE  ThreadsInv'
<1>. SUFFICES ASSUME NEW t \in DOMAIN threads
              PROVE  threads'[t].of \in DOMAIN sessions'
                     /\ Looped(threads'[t], sessions'[threads'[t].of].destroyed)
  BY DEF ThreadsInv, Looped, Written, Opens, Phased, CloseSent, ClosedBehind, Pending, Waits, Unwritten
<1>. QED BY DEF ThreadsInv
--------------------------------------------------------------------------------
LEMMA IntentsBehind ==
  ASSUME IntentsInv, intents # << >>, NEW s \in {<< >>, <<"DESTROY">>}, intents' = Tail(intents) \o s
  PROVE  /\ DOMAIN intents = 1..Len(intents) /\ Len(intents) \in Nat \ {0} /\ Head(intents) = intents[1]
         /\ DOMAIN intents' \subseteq 1..Len(intents)
         /\ \A k \in DOMAIN intents' :
              \/ k + 1 \in DOMAIN intents /\ intents'[k] = intents[k + 1]
              \/ k = Len(intents) /\ intents'[k] = "DESTROY" /\ s = <<"DESTROY">>
         /\ \A k \in DOMAIN intents : k # 1 => k - 1 \in DOMAIN intents' /\ intents'[k - 1] = intents[k]
         /\ s = <<"DESTROY">> => Len(intents) \in DOMAIN intents' /\ intents'[Len(intents)] = "DESTROY"
<1>. DEFINE tail == Tail(intents)
            n == Len(intents)
<1>1. intents \in Seq({"START", "STOP", "DESTROY"})
  BY DEF IntentsInv
<1>2. /\ DOMAIN intents = 1..n /\ n \in Nat \ {0} /\ Head(intents) = intents[1]
      /\ tail \in Seq({"START", "STOP", "DESTROY"}) /\ Len(tail) = n - 1
      /\ \A k \in 1..n - 1 : tail[k] = intents[k + 1]
  BY <1>1
<1>. HIDE DEF tail, n
<1>3. CASE s = << >>
  <2>1. intents' = tail
    BY <1>2, <1>3 DEF tail
  <2>2. DOMAIN intents' = 1..n - 1
    BY <1>2, <2>1
  <2>. QED BY <1>2, <1>3, <2>1, <2>2 DEF n
<1>4. CASE s = <<"DESTROY">>
  <2>1. intents' = Append(tail, "DESTROY")
    BY <1>2, <1>4 DEF tail
  <2>2. /\ DOMAIN intents' = 1..n /\ intents'[n] = "DESTROY"
        /\ \A k \in 1..n - 1 : intents'[k] = intents[k + 1]
    BY <1>2, <2>1
  <2>3. \A k \in 1..n : k # n => k \in 1..n - 1 /\ k + 1 \in 1..n
    BY <1>2
  <2>4. \A k \in 1..n : k # 1 => k - 1 \in 1..n - 1 /\ k - 1 \in 1..n /\ (k - 1) + 1 = k
    BY <1>2
  <2>5. n \in DOMAIN intents'
    BY <1>2, <2>2
  <2>6. \A k \in DOMAIN intents' :
          \/ k + 1 \in DOMAIN intents /\ intents'[k] = intents[k + 1]
          \/ k = n /\ intents'[k] = "DESTROY"
    <3>1. ASSUME NEW k \in 1..n, k # n PROVE k + 1 \in DOMAIN intents /\ intents'[k] = intents[k + 1]
      BY <1>2, <2>2, <2>3, <3>1
    <3>. QED BY <2>2, <3>1
  <2>7. \A k \in DOMAIN intents : k # 1 => k - 1 \in DOMAIN intents' /\ intents'[k - 1] = intents[k]
    BY <1>2, <2>2, <2>4
  <2>. QED BY <1>2, <1>4, <2>2, <2>5, <2>6, <2>7 DEF n
<1>. QED BY <1>3, <1>4

LEMMA IntentsTail ==
  ASSUME IntentsInv, intents # << >>, intents' = Tail(intents)
  PROVE  /\ 1 \in DOMAIN intents /\ Head(intents) = intents[1]
         /\ \A k \in DOMAIN intents : k \in Nat /\ (k = 1 \/ 1 < k)
         /\ \A k \in DOMAIN intents' : /\ k \in Nat /\ k + 1 > 1
                                     /\ k + 1 \in DOMAIN intents /\ intents'[k] = intents[k + 1]
<1>1. /\ intents' = Tail(intents) \o << >> /\ << >> # <<"DESTROY">>
      /\ << >> \in {<< >>, <<"DESTROY">>}
  BY DEF IntentsInv
<1>2. /\ DOMAIN intents = 1..Len(intents) /\ Len(intents) \in Nat \ {0} /\ Head(intents) = intents[1]
      /\ DOMAIN intents' \subseteq 1..Len(intents)
      /\ \A k \in DOMAIN intents' : k + 1 \in DOMAIN intents /\ intents'[k] = intents[k + 1]
  <2>. DEFINE e == << >>
  <2>1. intents' = Tail(intents) \o e /\ e # <<"DESTROY">> /\ e \in {<< >>, <<"DESTROY">>}
    BY <1>1
  <2>. HIDE DEF e
  <2>. QED BY <2>1, IntentsBehind
<1>. QED BY <1>2

LEMMA IntentsAppended ==
  ASSUME IntentsInv, NEW a \in {"STOP", "START"}, intents' = Append(intents, a)
  PROVE  /\ DOMAIN intents = 1..Len(intents) /\ Len(intents) \in Nat
         /\ DOMAIN intents' = DOMAIN intents \cup {Len(intents) + 1}
         /\ \A j \in DOMAIN intents : intents'[j] = intents[j] /\ j < Len(intents) + 1
         /\ intents'[Len(intents) + 1] = a
<1>1. intents \in Seq({"START", "STOP", "DESTROY"})
  BY DEF IntentsInv
<1>. QED BY <1>1

\* The service looks at the first intent: its number is free, and the others keep theirs.
LEMMA EventsTaken ==
  ASSUME EventsInv, IntentsInv, intents # << >>, UNCHANGED appVars, crashed' \in BOOLEAN,
         threads \in Seq(Loopers), threads' \in Seq(Loopers),
         NEW s \in {<< >>, <<"DESTROY">>}, intents' = Tail(intents) \o s,
         IF Head(intents) = "START" THEN Len(threads') = Len(threads) + 1 ELSE Len(threads') = Len(threads)
  PROVE  EventsInv'
<1>1. PICK c \in [DOMAIN intents -> 0..MaxEvents] : Numbered(c)
  BY DEF EventsInv
<1>2. /\ DOMAIN intents = 1..Len(intents) /\ Len(intents) \in Nat \ {0} /\ Head(intents) = intents[1]
      /\ Len(threads) \in Nat /\ events \in Nat /\ Len(threads') \in Nat /\ events' = events
      /\ threads' # << >> => Len(threads') > 0
      /\ threads # << >> <=> Len(threads) > 0
  <2>1. events \in Nat /\ events' = events
    BY SessionAssumption DEF EventsInv, appVars
  <2>2. /\ Len(threads) \in Nat /\ Len(threads') \in Nat /\ (threads' # << >> => Len(threads') > 0)
        /\ (threads # << >> <=> Len(threads) > 0)
    OBVIOUS
  <2>. QED BY <2>1, <2>2, IntentsBehind
<1>3. /\ DOMAIN intents' \subseteq 1..Len(intents)
      /\ \A k \in DOMAIN intents' : intents'[k] = "START" => k + 1 \in DOMAIN intents /\ intents[k + 1] = "START"
  BY IntentsBehind
<1>. DEFINE d == [k \in DOMAIN intents' |-> IF k + 1 \in DOMAIN intents THEN c[k + 1] ELSE 0]
<1>4. /\ d \in [DOMAIN intents' -> 0..MaxEvents]
      /\ \A k \in DOMAIN intents' : intents'[k] = "START" => d[k] = c[k + 1]
  BY <1>3, SessionAssumption
<1>. HIDE DEF d
<1>5. Head(intents) = "START" => c[1] \in Len(threads) + 1..events - 1
  <2>1. 1 \in DOMAIN intents /\ Head(intents) = intents[1]
    BY <1>2
  <2>. QED BY <1>1, <2>1 DEF Numbered
<1>6. \A k \in DOMAIN intents' : intents'[k] = "START" => d[k] \in Len(threads') + 1..events - 1
  <2>. SUFFICES ASSUME NEW k \in DOMAIN intents', intents'[k] = "START"
                PROVE  d[k] \in Len(threads') + 1..events - 1
    OBVIOUS
  <2>1. /\ k + 1 \in DOMAIN intents /\ intents[k + 1] = "START" /\ 1 < k + 1 /\ 1 \in DOMAIN intents
        /\ d[k] = c[k + 1]
    BY <1>2, <1>3, <1>4
  <2>2. c[k + 1] \in Len(threads) + 1..events - 1
    BY <1>1, <2>1 DEF Numbered
  <2>3. Head(intents) = "START" => c[1] < c[k + 1]
    BY <1>1, <1>2, <2>1 DEF Numbered
  <2>. QED BY <1>2, <1>5, <2>1, <2>2, <2>3
<1>7. \A k, l \in DOMAIN intents' :
        k < l /\ intents'[k] = "START" /\ intents'[l] = "START" => d[k] < d[l]
  <2>. SUFFICES ASSUME NEW k \in DOMAIN intents', NEW l \in DOMAIN intents', k < l,
                       intents'[k] = "START", intents'[l] = "START"
                PROVE  d[k] < d[l]
    OBVIOUS
  <2>1. k + 1 \in DOMAIN intents /\ l + 1 \in DOMAIN intents /\ k + 1 < l + 1
    BY <1>2, <1>3
  <2>. QED BY <1>1, <1>3, <1>4, <2>1 DEF Numbered
<1>8. \E e \in [DOMAIN intents' -> 0..MaxEvents] :
        /\ \A k \in DOMAIN intents' : intents'[k] = "START" => e[k] \in Len(threads') + 1..events' - 1
        /\ \A k, l \in DOMAIN intents' :
             k < l /\ intents'[k] = "START" /\ intents'[l] = "START" => e[k] < e[l]
  BY <1>2, <1>4, <1>6, <1>7
<1>9. threads' # << >> => Len(threads') < events
  BY <1>2, <1>5 DEF EventsInv
<1>. QED BY <1>2, <1>8, <1>9 DEF EventsInv, Numbered, appVars

\* A start that is sent has the number of its event.
LEMMA EventsSent ==
  ASSUME EventsInv, IntentsInv, threads' = threads, threads \in Seq(Loopers),
         shown' \in BOOLEAN, receiver' \in BOOLEAN, crashed' \in BOOLEAN,
         events' \in {events, events + 1}, events' <= MaxEvents, shown' => events' > 0,
         \/ intents' = intents
         \/ intents' = Append(intents, "STOP")
         \/ intents' = Append(intents, "START") /\ events' = events + 1 /\ events > 0
  PROVE  EventsInv'
<1>1. PICK c \in [DOMAIN intents -> 0..MaxEvents] : Numbered(c)
  BY DEF EventsInv
<1>2. /\ DOMAIN intents = 1..Len(intents) /\ Len(intents) \in Nat
      /\ Len(threads) \in Nat /\ events \in 0..MaxEvents /\ MaxEvents \in Nat
      /\ threads # << >> => Len(threads) < events
      /\ threads = << >> => Len(threads) = 0
  BY SessionAssumption DEF EventsInv, IntentsInv
<1>. DEFINE d == [k \in DOMAIN intents' |-> IF k \in DOMAIN intents THEN c[k] ELSE events]
<1>3. /\ d \in [DOMAIN intents' -> 0..MaxEvents]
      /\ \A k \in DOMAIN intents' : d[k] = IF k \in DOMAIN intents THEN c[k] ELSE events
  BY <1>2
<1>. HIDE DEF d
<1>4. /\ \A k \in DOMAIN intents' : k \in Nat /\ (k \in DOMAIN intents => intents'[k] = intents[k])
      /\ \A k \in DOMAIN intents' : k \notin DOMAIN intents =>
           k = Len(intents) + 1 /\ (intents'[k] = "START" => events' = events + 1 /\ events > 0)
  BY <1>2, IntentsAppended
<1>5. \A k \in DOMAIN intents' : intents'[k] = "START" => d[k] \in Len(threads') + 1..events' - 1
  <2>. SUFFICES ASSUME NEW k \in DOMAIN intents', intents'[k] = "START"
                PROVE  d[k] \in Len(threads') + 1..events' - 1
    OBVIOUS
  <2>1. CASE k \in DOMAIN intents
    <3>1. c[k] \in Len(threads) + 1..events - 1
      BY <1>1, <1>4, <2>1 DEF Numbered
    <3>. QED BY <1>2, <1>3, <2>1, <3>1
  <2>2. CASE k \notin DOMAIN intents
    BY <1>2, <1>3, <1>4, <2>2
  <2>. QED BY <2>1, <2>2
<1>6. \A k, l \in DOMAIN intents' :
        k < l /\ intents'[k] = "START" /\ intents'[l] = "START" => d[k] < d[l]
  <2>. SUFFICES ASSUME NEW k \in DOMAIN intents', NEW l \in DOMAIN intents', k < l,
                       intents'[k] = "START", intents'[l] = "START"
                PROVE  d[k] < d[l]
    OBVIOUS
  <2>1. k \in DOMAIN intents
    BY <1>2, <1>4
  <2>2. CASE l \in DOMAIN intents
    BY <1>1, <1>3, <1>4, <2>1, <2>2 DEF Numbered
  <2>3. CASE l \notin DOMAIN intents
    <3>1. c[k] \in Len(threads) + 1..events - 1
      BY <1>1, <1>4, <2>1 DEF Numbered
    <3>. QED BY <1>2, <1>3, <2>1, <2>3, <3>1
  <2>. QED BY <2>2, <2>3
<1>7. \E e \in [DOMAIN intents' -> 0..MaxEvents] :
        /\ \A k \in DOMAIN intents' : intents'[k] = "START" => e[k] \in Len(threads') + 1..events' - 1
        /\ \A k, l \in DOMAIN intents' :
             k < l /\ intents'[k] = "START" /\ intents'[l] = "START" => e[k] < e[l]
  BY <1>3, <1>5, <1>6
<1>8. events' \in 0..MaxEvents /\ (threads' # << >> => Len(threads') < events')
  BY <1>2
<1>. QED BY <1>7, <1>8 DEF EventsInv, Numbered

--------------------------------------------------------------------------------
\* The order of the intents.
LEMMA OrderSame ==
  ASSUME OrderedIntents, UNCHANGED intents, IntentsInv,
         sessions # << >> => /\ Last(sessions').stopping = Last(sessions).stopping
                             /\ Last(sessions').destroyed = Last(sessions).destroyed
                             /\ Last(sessions').foreground = Last(sessions).foreground
  PROVE  OrderedIntents'
BY DEF OrderedIntents, Queued, IntentsInv

\* A stop is sent to a service in the foreground, a start to none.
LEMMA OrderSent ==
  ASSUME OrderedIntents, IntentsInv, UNCHANGED sessions, SessionsInv, sessions \in Seq(Filtered),
         \/ intents' = intents
         \/ intents' = Append(intents, "STOP") /\ isLocationServiceRunning
         \/ intents' = Append(intents, "START") /\ ~isLocationServiceRunning
  PROVE  OrderedIntents'
<1>1. DOMAIN intents = 1..Len(intents) /\ Len(intents) \in Nat
  BY DEF IntentsInv
<1>2. sessions # << >> /\ Last(sessions).stopping => ~Last(sessions).foreground
  BY DEF SessionsInv, Linked, Last
<1>3. CASE intents' = intents
  BY <1>3 DEF OrderedIntents, Queued
<1>4. /\ sessions # << >> => isLocationServiceRunning = Last(sessions).foreground
      /\ isLocationServiceRunning => sessions # << >>
  <2>1. \A i \in DOMAIN sessions : sessions[i].foreground \in BOOLEAN
    BY DEF Filtered, SessionRecords
  <2>2. sessions # << >> => Len(sessions) > 0 /\ Last(sessions).foreground \in BOOLEAN
    BY <2>1 DEF Last
  <2>3. ~Len(<< >>) > 0
    OBVIOUS
  <2>. QED BY <2>2, <2>3 DEF isLocationServiceRunning
<1>5. ASSUME NEW a \in {"STOP", "START"}, intents' = Append(intents, a)
      PROVE  /\ DOMAIN intents' = DOMAIN intents \cup {Len(intents) + 1}
             /\ \A j \in DOMAIN intents : intents'[j] = intents[j] /\ j < Len(intents) + 1
             /\ intents'[Len(intents) + 1] = a
             /\ Queued("DESTROY")' <=> Queued("DESTROY")
  <2>1. /\ DOMAIN intents' = DOMAIN intents \cup {Len(intents) + 1}
        /\ \A j \in DOMAIN intents : intents'[j] = intents[j] /\ j < Len(intents) + 1
        /\ intents'[Len(intents) + 1] = a
    BY <1>5, IntentsAppended
  <2>. QED BY <2>1 DEF Queued
<1>6. CASE intents' = Append(intents, "STOP") /\ isLocationServiceRunning
  <2>1. ~Queued("DESTROY")
    BY <1>2, <1>4, <1>6 DEF OrderedIntents, Queued
  <2>2. \A j \in DOMAIN intents' : intents'[j] # "DESTROY"
    BY <1>5, <1>6, <2>1 DEF Queued
  <2>3. \A i, j \in DOMAIN intents' : i < j /\ intents'[i] = "STOP" => intents'[j] # "START"
    <3>. SUFFICES ASSUME NEW i \in DOMAIN intents', NEW j \in DOMAIN intents', i < j,
                         intents'[i] = "STOP", intents'[j] = "START"
                  PROVE  FALSE
      OBVIOUS
    <3>1. j \in DOMAIN intents /\ intents[j] = "START"
      BY <1>5, <1>6
    <3>2. i \in DOMAIN intents /\ intents[i] = "STOP"
      BY <1>1, <1>5, <1>6, <3>1
    <3>. QED BY <2>1, <3>1, <3>2 DEF OrderedIntents
  <2>4. Last(sessions').foreground
    BY <1>4, <1>6
  <2>. QED BY <2>2, <2>3, <2>4 DEF OrderedIntents
<1>7. CASE intents' = Append(intents, "START") /\ ~isLocationServiceRunning
  <2>1. Queued("STOP") => Queued("DESTROY")
    BY <1>4, <1>7 DEF OrderedIntents, Queued, IntentsInv
  <2>2. Queued("STOP")' => Queued("DESTROY")'
    BY <1>5, <1>7, <2>1 DEF Queued
  <2>3. ASSUME NEW j \in DOMAIN intents', intents'[j] = "DESTROY"
        PROVE  /\ Last(sessions').stopping /\ ~Last(sessions').destroyed
               /\ \A i \in DOMAIN intents' : (i < j => intents'[i] = "STOP") /\ (i > j => intents'[i] = "START")
    <3>1. j \in DOMAIN intents /\ intents[j] = "DESTROY"
      BY <1>5, <1>7, <2>3
    <3>2. \A i \in DOMAIN intents : (i < j => intents'[i] = "STOP") /\ (i > j => intents'[i] = "START")
      BY <1>5, <1>7, <3>1 DEF OrderedIntents
    <3>3. Last(sessions).stopping /\ ~Last(sessions).destroyed
      BY <3>1 DEF OrderedIntents
    <3>4. ~(Len(intents) + 1 < j)
      BY <1>1, <3>1
    <3>. QED BY <1>5, <1>7, <3>2, <3>3, <3>4
  <2>4. \A i, j \in DOMAIN intents' : i < j /\ intents'[i] = "STOP" /\ intents'[j] = "START" => Queued("DESTROY")'
    BY <2>2 DEF Queued
  <2>. QED BY <2>2, <2>3, <2>4 DEF OrderedIntents
<1>. QED BY <1>3, <1>6, <1>7
\* The service takes a start: there is no DESTROY behind it.
LEMMA OrderStarted ==
  ASSUME OrderedIntents, IntentsInv, intents # << >>, Head(intents) = "START",
         intents' = Tail(intents), Last(sessions').foreground
  PROVE  OrderedIntents'
<1>2. /\ 1 \in DOMAIN intents /\ intents[1] = "START"
      /\ \A k \in DOMAIN intents : k = 1 \/ 1 < k
      /\ \A k \in DOMAIN intents' : k + 1 \in DOMAIN intents /\ intents'[k] = intents[k + 1]
      /\ \A i, j \in DOMAIN intents' : i < j => i + 1 < j + 1
  BY IntentsTail
<1>3. ~Queued("DESTROY")
  BY <1>2 DEF OrderedIntents, Queued
<1>4. \A j \in DOMAIN intents' : intents'[j] # "DESTROY"
  BY <1>2, <1>3 DEF Queued
<1>5. \A i, j \in DOMAIN intents' : ~(i < j /\ intents'[i] = "STOP" /\ intents'[j] = "START")
  <2>1. \A i, j \in DOMAIN intents : ~(i < j /\ intents[i] = "STOP" /\ intents[j] = "START")
    BY <1>3 DEF OrderedIntents
  <2>. QED BY <1>2, <2>1
<1>. QED BY <1>4, <1>5 DEF OrderedIntents

\* The first stop is followed by no start, and DESTROY comes behind the stops.
LEMMA OrderStopped ==
  ASSUME OrderedIntents, IntentsInv, intents # << >>, Head(intents) = "STOP",
         Last(sessions).stopping => ~Last(sessions).foreground,
         intents' = Tail(intents) \o (IF Last(sessions).stopping THEN << >> ELSE <<"DESTROY">>),
         Last(sessions').stopping, Last(sessions').destroyed = Last(sessions).destroyed,
         Last(sessions).destroyed => Last(sessions).stopping, Last(sessions).stopping \in BOOLEAN
  PROVE  OrderedIntents'
<1>. DEFINE s == IF Last(sessions).stopping THEN << >> ELSE <<"DESTROY">>
            n == Len(intents)
<1>1. s \in {<< >>, <<"DESTROY">>}
  OBVIOUS
<1>2. /\ 1 \in DOMAIN intents /\ intents[1] = "STOP" /\ n \in Nat \ {0}
      /\ \A k \in DOMAIN intents : k \in Nat /\ (k = 1 \/ 1 < k)
      /\ \A k \in DOMAIN intents' : k \in Nat /\ k <= n
      /\ \A i, j \in DOMAIN intents' : i < j => i + 1 < j + 1
      /\ \A i, j \in DOMAIN intents' : i > j => i + 1 > j + 1
  BY IntentsBehind, <1>1
<1>3. /\ \A k \in DOMAIN intents' : \/ k + 1 \in DOMAIN intents /\ intents'[k] = intents[k + 1]
                                    \/ k = n /\ intents'[k] = "DESTROY" /\ ~Last(sessions).stopping
      /\ \A k \in DOMAIN intents : k # 1 => k - 1 \in DOMAIN intents' /\ intents'[k - 1] = intents[k]
      /\ ~Last(sessions).stopping => n \in DOMAIN intents' /\ intents'[n] = "DESTROY"
  <2>1. <<"DESTROY">> # << >>
    OBVIOUS
  <2>. QED BY IntentsBehind, <1>1, <2>1
<1>4. CASE Last(sessions).stopping
  <2>1. PICK d \in DOMAIN intents : intents[d] = "DESTROY"
    BY <1>2, <1>4 DEF OrderedIntents, Queued
  <2>2. d # 1 /\ d - 1 \in DOMAIN intents' /\ intents'[d - 1] = "DESTROY"
    BY <1>2, <1>3, <2>1
  <2>3. Queued("DESTROY")'
    BY <2>2 DEF Queued
  <2>4. \A j \in DOMAIN intents' : intents'[j] = "DESTROY" =>
          \A i \in DOMAIN intents' : (i < j => intents'[i] = "STOP") /\ (i > j => intents'[i] = "START")
    BY <1>2, <1>3, <1>4 DEF OrderedIntents
  <2>5. ~Last(sessions').destroyed
    BY <2>1 DEF OrderedIntents
  <2>. QED BY <2>3, <2>4, <2>5 DEF OrderedIntents
<1>5. CASE ~Last(sessions).stopping
  <2>1. Queued("DESTROY")'
    BY <1>3, <1>5 DEF Queued
  <2>2. ~Queued("DESTROY")
    BY <1>5 DEF OrderedIntents, Queued
  <2>3. \A k \in DOMAIN intents : k # 1 => intents[k] = "STOP"
    <3>1. \A k \in DOMAIN intents : intents[k] # "START" \/ k = 1
      BY <1>2, <2>2 DEF OrderedIntents
    <3>2. \A k \in DOMAIN intents : intents[k] \in {"START", "STOP", "DESTROY"}
      BY DEF IntentsInv
    <3>. QED BY <2>2, <3>1, <3>2 DEF Queued
  <2>4. \A k \in DOMAIN intents' : k + 1 # 1 /\ (k # n => intents'[k] = "STOP")
    BY <1>2, <1>3, <2>3
  <2>5. \A j \in DOMAIN intents' : intents'[j] = "DESTROY" =>
          \A i \in DOMAIN intents' : (i < j => intents'[i] = "STOP") /\ (i > j => intents'[i] = "START")
    <3>1. \A j \in DOMAIN intents' : intents'[j] = "DESTROY" => j = n
      BY <2>4
    <3>2. \A i \in DOMAIN intents' : ~(i > n) /\ (i < n => i # n)
      BY <1>2
    <3>. QED BY <2>4, <3>1, <3>2
  <2>6. ~Last(sessions').destroyed
    BY <1>5
  <2>. QED BY <2>1, <2>5, <2>6 DEF OrderedIntents
<1>. QED BY <1>4, <1>5

\* Behind DESTROY there are only starts.
LEMMA OrderDestroyed ==
  ASSUME OrderedIntents, IntentsInv, intents # << >>, Head(intents) = "DESTROY", intents' = Tail(intents)
  PROVE  OrderedIntents'
<1>2. /\ 1 \in DOMAIN intents /\ intents[1] = "DESTROY"
      /\ \A k \in DOMAIN intents' : k + 1 \in DOMAIN intents /\ intents'[k] = intents[k + 1] /\ k + 1 > 1
  BY IntentsTail
<1>3. \A k \in DOMAIN intents' : intents'[k] = "START"
  BY <1>2 DEF OrderedIntents
<1>. QED BY <1>3 DEF OrderedIntents, Queued
--------------------------------------------------------------------------------
\* Each step of the app keeps LoopInv. FilterInv' comes from the steps above.
LEMMA StartKeeps ==
  ASSUME LoopInv, FilterInv', Start
  PROVE  LoopInv'
<1>. DEFINE all == IF Running THEN sessions ELSE Append(sessions, NewSession)
            n == Len(all)
            l == Len(threads) + 1
<1>1. /\ sessions \in Seq(Filtered) /\ threads \in Seq(Loopers) /\ threads' \in Seq(Loopers)
      /\ IntentsInv /\ SessionsInv /\ ThreadsInv /\ OrderedIntents /\ EventsInv
  BY DEF LoopInv, FilterInv
<1>2. NewSession \in Filtered
  BY DEF NewSession, Filtered, SessionRecords, Null
<1>3. /\ all \in Seq(Filtered) /\ n \in Nat \ {0} /\ l \in Nat /\ n \in DOMAIN all
      /\ DOMAIN all = 1..n
      /\ DOMAIN all = DOMAIN sessions \cup {n}
      /\ \A i \in DOMAIN sessions : all[i] = sessions[i]
      /\ n \in DOMAIN sessions <=> Running
      /\ ~Running => all[n] = NewSession
      /\ Running => ~all[n].stopping
  <2>1. CASE Running
    <3>1. all = sessions /\ Len(sessions) > 0 /\ ~Last(sessions).stopping
      BY <2>1 DEF Running
    <3>2. /\ Len(all) = Len(sessions) /\ Len(sessions) \in Nat \ {0} /\ DOMAIN sessions = 1..Len(sessions)
          /\ Len(sessions) \in DOMAIN sessions /\ l \in Nat
      BY <1>1, <3>1
    <3>3. ~all[Len(sessions)].stopping
      BY <3>1 DEF Last
    <3>. HIDE DEF all, l
    <3>. QED BY <1>1, <2>1, <3>1, <3>2, <3>3
  <2>2. CASE ~Running
    <3>1. all = Append(sessions, NewSession)
      BY <2>2
    <3>2. /\ all \in Seq(Filtered) /\ Len(all) = Len(sessions) + 1 /\ all[Len(sessions) + 1] = NewSession
          /\ DOMAIN all = 1..Len(sessions) + 1 /\ DOMAIN sessions = 1..Len(sessions) /\ Len(sessions) \in Nat
          /\ \A i \in DOMAIN sessions : all[i] = sessions[i]
      BY <1>1, <1>2, <3>1
    <3>3. l \in Nat
      BY <1>1
    <3>. HIDE DEF all, l
    <3>. QED BY <2>2, <3>2, <3>3
  <2>. QED BY <2>1, <2>2
<1>4. /\ sessions' = [all EXCEPT ![n].foreground = TRUE, ![n].thread = l]
      /\ threads' = Append(threads, NewThread(n))
      /\ intents # << >> /\ Head(intents) = "START" /\ intents' = Tail(intents)
      /\ UNCHANGED appVars /\ crashed' = crashed
  BY DEF Start
<1>5. /\ l = Len(threads) + 1 /\ l \notin DOMAIN threads /\ DOMAIN threads' = DOMAIN threads \cup {l}
      /\ threads'[l] = NewThread(n) /\ Len(threads') = Len(threads) + 1
      /\ \A t \in DOMAIN threads : threads'[t] = threads[t]
  <2>1. NewThread(n) \in Loopers
    BY <1>3 DEF NewThread, Loopers
  <2>. HIDE DEF n
  <2>. QED BY <1>1, <1>4, <2>1
<1>. HIDE DEF all, n, l
<1>6. all[n] \in SessionRecords
  BY <1>3 DEF Filtered
<1>7. /\ DOMAIN sessions' = DOMAIN all
      /\ \A i \in DOMAIN all : i # n => sessions'[i] = all[i]
      /\ sessions'[n].foreground = TRUE /\ sessions'[n].thread = l
      /\ sessions'[n].handler = all[n].handler /\ sessions'[n].stopping = all[n].stopping
      /\ sessions'[n].destroyed = all[n].destroyed
  BY <1>3, <1>4, <1>6 DEF SessionRecords
<1>8. ~all[n].stopping /\ all[n].destroyed = FALSE
  <2>1. CASE Running
    BY <1>1, <1>3, <1>6, <2>1 DEF SessionsInv, Linked, SessionRecords
  <2>2. CASE ~Running
    BY <1>3, <2>2 DEF NewSession
  <2>. QED BY <2>1, <2>2
<1>9. NewThread(n).of = n /\ Looped(NewThread(n), FALSE)
  BY <1>3, NewLooped
<1>10. SessionsInv'
  <2>. SUFFICES ASSUME NEW i \in DOMAIN sessions' PROVE Linked(i)'
    BY DEF SessionsInv
  <2>1. CASE i # n
    <3>1. i \in DOMAIN sessions /\ sessions'[i] = sessions[i]
      BY <1>3, <1>7, <2>1
    <3>2. Linked(i)
      BY <1>1, <3>1 DEF SessionsInv
    <3>. QED BY <1>5, <3>1, <3>2 DEF Linked
  <2>2. CASE i = n
    <3>1. all[n].handler # Null => /\ all[n].handler \in DOMAIN threads
                                   /\ threads[all[n].handler].of = n
                                   /\ threads[all[n].handler].phase # "starting"
      <4>1. CASE Running
        BY <1>1, <1>3, <4>1 DEF SessionsInv, Linked
      <4>2. CASE ~Running
        BY <1>3, <4>2 DEF NewSession
      <4>. QED BY <4>1, <4>2
    <3>. QED BY <1>5, <1>7, <1>8, <1>9, <2>2, <3>1 DEF Linked
  <2>. QED BY <2>1, <2>2
<1>11. ThreadsInv'
  <2>. SUFFICES ASSUME NEW t \in DOMAIN threads'
                PROVE  threads'[t].of \in DOMAIN sessions'
                       /\ Looped(threads'[t], sessions'[threads'[t].of].destroyed)
    BY DEF ThreadsInv, Looped, Written, Opens, Phased, CloseSent, ClosedBehind, Pending, Waits, Unwritten
  <2>1. CASE t = l
    BY <1>5, <1>3, <1>7, <1>8, <1>9, <2>1
  <2>2. CASE t # l
    <3>1. t \in DOMAIN threads /\ threads'[t] = threads[t]
      BY <1>5, <2>2
    <3>2. threads[t].of \in DOMAIN sessions /\ Looped(threads[t], sessions[threads[t].of].destroyed)
      BY <1>1, <3>1 DEF ThreadsInv
    <3>3. sessions'[threads[t].of].destroyed = sessions[threads[t].of].destroyed
      BY <1>3, <1>7, <3>2
    <3>. QED BY <1>3, <1>7, <3>1, <3>2, <3>3
  <2>. QED BY <2>1, <2>2
<1>12. OrderedIntents'
  <2>1. Last(sessions') = sessions'[n]
    <3>1. sessions' \in Seq(Filtered)
      BY DEF FilterInv
    <3>2. Len(sessions') = n
      BY <1>3, <1>7, <3>1
    <3>. QED BY <3>2 DEF Last
  <2>. QED BY <1>1, <1>4, <1>7, <2>1, OrderStarted
<1>13. EventsInv'
  <2>. DEFINE e == << >>
  <2>1. intents' = Tail(intents) \o e /\ e \in {<< >>, <<"DESTROY">>}
    BY <1>1, <1>4 DEF IntentsInv
  <2>2. crashed' \in BOOLEAN
    BY <1>1, <1>4 DEF EventsInv
  <2>. HIDE DEF e
  <2>. QED BY <1>1, <1>4, <1>5, <2>1, <2>2, EventsTaken
<1>. QED BY <1>10, <1>11, <1>12, <1>13 DEF LoopInv

LEMMA StopKeeps ==
  ASSUME LoopInv, FilterInv', Stop
  PROVE  LoopInv'
<1>. DEFINE n == Len(sessions)
            u == [Last(sessions) EXCEPT !.foreground = FALSE, !.stopping = TRUE]
            s == IF Last(sessions).stopping THEN << >> ELSE <<"DESTROY">>
<1>1. /\ sessions \in Seq(Filtered) /\ threads \in Seq(Loopers)
      /\ IntentsInv /\ SessionsInv /\ ThreadsInv /\ OrderedIntents /\ EventsInv
  BY DEF LoopInv, FilterInv
<1>2. /\ intents # << >> /\ Head(intents) = "STOP" /\ intents' = Tail(intents) \o s
      /\ sessions' = SetLast(u) /\ threads' = threads /\ UNCHANGED appVars /\ crashed' = crashed
  BY DEF Stop
<1>3. Len(sessions) > 0
  BY <1>1, <1>2 DEF IntentsInv
<1>4. /\ Last(sessions) = sessions[n] /\ n \in DOMAIN sessions
      /\ DOMAIN sessions' = DOMAIN sessions /\ sessions'[n] = u
      /\ \A i \in DOMAIN sessions : i # n => sessions'[i] = sessions[i]
  BY <1>1, <1>2, <1>3, SetLastIs
<1>5. Last(sessions) \in SessionRecords /\ Last(sessions).stopping \in BOOLEAN
  BY <1>1, <1>4 DEF Filtered, SessionRecords
<1>6. /\ u.foreground = FALSE /\ u.stopping = TRUE /\ u.destroyed = Last(sessions).destroyed
      /\ u.handler = Last(sessions).handler /\ u.thread = Last(sessions).thread
  BY <1>5 DEF SessionRecords
<1>7. Last(sessions') = u
  <2>1. Len(sessions') = n
    BY <1>1, <1>4 DEF FilterInv
  <2>. QED BY <1>4, <2>1 DEF Last
<1>. HIDE DEF n, u, s
<1>8. \A i \in DOMAIN sessions :
        (sessions[i].destroyed => sessions[i].stopping) /\ (sessions[i].stopping => ~sessions[i].foreground)
  BY <1>1 DEF SessionsInv, Linked
<1>9. SessionsInv' /\ ThreadsInv'
  BY <1>1, <1>2, <1>4, <1>6, <1>8, LinksKept, ThreadsKept
<1>10. OrderedIntents'
  BY <1>1, <1>2, <1>4, <1>5, <1>6, <1>7, <1>8, OrderStopped DEF s
<1>11. EventsInv'
  <2>1. s \in {<< >>, <<"DESTROY">>} /\ crashed' \in BOOLEAN
    BY <1>1, <1>2 DEF s, EventsInv
  <2>. QED BY <1>1, <1>2, <2>1, EventsTaken
<1>. QED BY <1>9, <1>10, <1>11 DEF LoopInv
\* The last session is closed: its handler is told, and its thread quits behind that.
LEMMA DestroyKeeps ==
  ASSUME LoopInv, FilterInv', Destroy
  PROVE  LoopInv'
<1>1. /\ sessions \in Seq(Filtered) /\ threads \in Seq(Loopers) /\ threads' \in Seq(Loopers)
      /\ IntentsInv /\ SessionsInv /\ ThreadsInv /\ OrderedIntents /\ EventsInv
  BY DEF LoopInv, FilterInv
<1>2. CASE Last(sessions).handler = Null
  <2>1. UNCHANGED <<intents, sessions, threads>> /\ crashed' = TRUE /\ UNCHANGED appVars
    BY <1>2 DEF Destroy, Crash
  <2>. QED BY <1>1, <2>1 DEF LoopInv, EventsInv, Numbered, OrderedIntents, Queued, SessionsInv, Linked,
       ThreadsInv, appVars
<1>3. CASE Last(sessions).handler # Null
  <2>. DEFINE n == Len(sessions)
              s == Last(sessions)
              u == [s EXCEPT !.destroyed = TRUE]
              m == [what |-> "CLOSE", at |-> 0]
              sent == SendMessage(threads, s.handler, m)
  <2>1. /\ intents # << >> /\ Head(intents) = "DESTROY" /\ intents' = Tail(intents)
        /\ sessions' = SetLast(u) /\ threads' = [sent EXCEPT ![s.thread].quitting = TRUE]
        /\ UNCHANGED appVars /\ crashed' = crashed
    BY <1>3 DEF Destroy, Closing
  <2>2. Len(sessions) > 0
    BY <1>1, <2>1 DEF IntentsInv
  <2>3. /\ s = sessions[n] /\ n \in DOMAIN sessions
        /\ DOMAIN sessions' = DOMAIN sessions /\ sessions'[n] = u
        /\ \A i \in DOMAIN sessions : i # n => sessions'[i] = sessions[i]
    BY <1>1, <2>1, <2>2, SetLastIs
  <2>4. s \in SessionRecords
    BY <1>1, <2>3 DEF Filtered
  <2>5. /\ u.destroyed = TRUE /\ u.stopping = s.stopping /\ u.foreground = s.foreground
        /\ u.handler = s.handler /\ u.thread = s.thread
    BY <2>4 DEF SessionRecords
  <2>6. s.stopping /\ s.destroyed = FALSE
    <3>1. 1 \in DOMAIN intents /\ intents[1] = "DESTROY"
      BY <1>1, <2>1, IntentsTail
    <3>. QED BY <1>1, <2>4, <3>1 DEF OrderedIntents, SessionRecords
  <2>7. /\ s.thread \in DOMAIN threads /\ threads[s.thread].of = n
        /\ s.handler \in DOMAIN threads /\ threads[s.handler].of = n
        /\ threads[s.handler].phase # "starting" /\ ~s.foreground
    BY <1>1, <1>3, <2>3, <2>6 DEF SessionsInv, Linked
  <2>. DEFINE h == s.handler
              k == s.thread
              given == IF threads[h].quitting THEN threads[h] ELSE Given(threads[h], m)
  <2>8. m \in Messages /\ m.what = "CLOSE"
    BY DEF Messages
  <2>9. /\ DOMAIN sent = DOMAIN threads /\ sent[h] = given
        /\ \A t \in DOMAIN threads : t # h => sent[t] = threads[t]
    BY <2>7 DEF SendMessage, Given
  <2>10. /\ DOMAIN threads' = DOMAIN threads /\ threads'[k] = [sent[k] EXCEPT !.quitting = TRUE]
         /\ \A t \in DOMAIN threads : t # k => threads'[t] = sent[t]
    BY <2>1, <2>7, <2>9
  <2>. HIDE DEF n, u, m, sent, s
  <2>11. \A t \in DOMAIN threads : threads[t] \in Loopers
    BY <1>1
  <2>12. \A t \in DOMAIN threads : threads[t].of = n => Looped(threads[t], FALSE)
    BY <1>1, <2>3, <2>6 DEF ThreadsInv
  <2>13. given \in Loopers /\ given.of = n /\ given.phase = threads[h].phase /\ Looped(given, TRUE)
    <3>1. threads[h] \in Loopers /\ Looped(threads[h], FALSE)
      BY <2>7, <2>11, <2>12
    <3>2. CASE threads[h].quitting
      BY <2>7, <3>1, <3>2 DEF Looped
    <3>3. CASE ~threads[h].quitting
      <4>1. Looped(Given(threads[h], m), TRUE)
        BY <2>7, <2>8, <3>1, <3>3, GivenLooped
      <4>. QED BY <2>7, <2>8, <3>1, <3>3, <4>1, GivenFields
    <3>. QED BY <3>2, <3>3
  <2>14. sent[k] \in Loopers /\ sent[k].of = n /\ sent[k].phase = threads[k].phase
         /\ Looped(sent[k], TRUE) /\ ClosedBehind(sent[k])
    <3>1. threads[k] \in Loopers /\ Looped(threads[k], FALSE)
      BY <2>7, <2>11, <2>12
    <3>2. ~threads[k].quitting => ~CloseSent(threads[k])
      BY <3>1 DEF Looped
    <3>3. ClosedBehind(threads[k])
      BY <3>1, <3>2 DEF Looped, CloseSent, ClosedBehind
    <3>4. CASE k # h
      BY <2>7, <2>9, <3>1, <3>3, <3>4 DEF Looped
    <3>5. CASE k = h /\ threads[h].quitting
      BY <2>7, <2>9, <3>1, <3>3, <3>5 DEF Looped
    <3>6. CASE k = h /\ ~threads[h].quitting
      <4>1. given = Given(threads[h], m)
        BY <3>6
      <4>2. given.queue = Append(threads[h].queue, m) /\ given.stream = threads[h].stream
        BY <2>7, <2>8, <2>11, <4>1, GivenFields
      <4>3. threads[h].queue \in Seq(Messages)
        BY <3>1, <3>6 DEF Loopers
      <4>4. \A j, l \in DOMAIN given.queue : j < l => given.queue[j].what # "CLOSE"
        <5>1. \A j, l \in DOMAIN given.queue : j < l => j \in DOMAIN threads[h].queue
                                                       /\ given.queue[j] = threads[h].queue[j]
          BY <4>2, <4>3
        <5>. QED BY <3>2, <3>6, <5>1 DEF CloseSent
      <4>5. ClosedBehind(given)
        BY <3>2, <3>6, <4>2, <4>4 DEF ClosedBehind, CloseSent
      <4>. QED BY <2>9, <2>13, <3>6, <4>5
    <3>. QED BY <3>4, <3>5, <3>6
  <2>15. /\ threads'[k].of = n /\ threads'[k].phase = threads[k].phase
         /\ Looped(threads'[k], TRUE)
    <3>1. Looped([sent[k] EXCEPT !.quitting = TRUE], TRUE)
      BY <2>14, QuitLooped
    <3>2. [sent[k] EXCEPT !.quitting = TRUE].of = sent[k].of
          /\ [sent[k] EXCEPT !.quitting = TRUE].phase = sent[k].phase
      BY <2>14 DEF Loopers
    <3>. QED BY <2>10, <2>14, <3>1, <3>2
  <2>. HIDE DEF given
  <2>16. \A t \in DOMAIN threads : /\ threads'[t].of = threads[t].of /\ threads'[t].phase = threads[t].phase
                                   /\ \/ t \notin {h, k} /\ threads'[t] = threads[t]
                                      \/ threads[t].of = n /\ Looped(threads'[t], TRUE)
    BY <2>7, <2>9, <2>10, <2>13, <2>15
  <2>17. SessionsInv'
    <3>1. \A i \in DOMAIN sessions :
            (sessions[i].destroyed => sessions[i].stopping) /\ (sessions[i].stopping => ~sessions[i].foreground)
      BY <1>1 DEF SessionsInv, Linked
    <3>. QED BY <1>1, <2>3, <2>5, <2>6, <2>7, <2>10, <2>16, <3>1, LinksKept
  <2>18. ThreadsInv'
    <3>. SUFFICES ASSUME NEW t \in DOMAIN threads
                  PROVE  threads'[t].of \in DOMAIN sessions'
                         /\ Looped(threads'[t], sessions'[threads'[t].of].destroyed)
      BY <2>10 DEF ThreadsInv, Looped, Written, Opens, Phased, CloseSent, ClosedBehind, Pending, Waits, Unwritten
    <3>1. threads[t].of \in DOMAIN sessions /\ Looped(threads[t], sessions[threads[t].of].destroyed)
      BY <1>1 DEF ThreadsInv
    <3>2. CASE threads[t].of = n /\ Looped(threads'[t], TRUE)
      BY <2>3, <2>5, <2>16, <3>2
    <3>3. CASE threads'[t] = threads[t] /\ threads[t].of # n
      BY <2>3, <3>1, <3>3
    <3>4. CASE threads'[t] = threads[t] /\ threads[t].of = n
      BY <2>3, <2>5, <3>1, <3>4 DEF Looped
    <3>. QED BY <2>16, <3>2, <3>3, <3>4
  <2>19. OrderedIntents'
    BY <1>1, <2>1, OrderDestroyed
  <2>20. EventsInv'
    <3>. DEFINE e == << >>
    <3>1. intents' = Tail(intents) \o e /\ e \in {<< >>, <<"DESTROY">>}
      BY <1>1, <2>1 DEF IntentsInv
    <3>2. crashed' \in BOOLEAN
      BY <1>1, <2>1 DEF EventsInv
    <3>3. Len(threads') = Len(threads)
      BY <1>1, <2>10
    <3>. HIDE DEF e
    <3>. QED BY <1>1, <2>1, <3>1, <3>2, <3>3, EventsTaken
  <2>. QED BY <2>17, <2>18, <2>19, <2>20 DEF LoopInv
<1>. QED BY <1>2, <1>3
\* Steps that leave the intents and the number of threads alone.
LEMMA EventsSame ==
  ASSUME EventsInv, UNCHANGED intents, UNCHANGED appVars, crashed' \in BOOLEAN,
         threads \in Seq(Loopers), threads' \in Seq(Loopers), DOMAIN threads' = DOMAIN threads
  PROVE  EventsInv'
<1>1. Len(threads') = Len(threads) /\ (threads' # << >> <=> threads # << >>)
  OBVIOUS
<1>. QED BY <1>1 DEF EventsInv, Numbered, appVars

LEMMA CrashKeeps ==
  ASSUME LoopInv, Crash, UNCHANGED appVars
  PROVE  LoopInv'
BY DEF LoopInv, Crash, FilterInv, IntentsInv, EventsInv, Numbered, OrderedIntents, Queued, SessionsInv,
       Linked, ThreadsInv, appVars

LEMMA LocationKeeps ==
  ASSUME LoopInv, FilterInv', LocationResult
  PROVE  LoopInv'
<1>1. /\ sessions \in Seq(Filtered) /\ threads \in Seq(Loopers)
      /\ IntentsInv /\ SessionsInv /\ ThreadsInv /\ OrderedIntents /\ EventsInv
  BY DEF LoopInv, FilterInv
<1>2. PICK at : sessions' = SetLast(Located(Last(sessions), at))
  BY DEF LocationResult
<1>. DEFINE n == Len(sessions)
            u == Located(Last(sessions), at)
<1>3. Len(sessions) > 0 /\ UNCHANGED <<appVars, intents, threads, crashed>>
  BY DEF LocationResult, isLocationServiceRunning
<1>4. /\ Last(sessions) = sessions[n] /\ n \in DOMAIN sessions
      /\ DOMAIN sessions' = DOMAIN sessions /\ sessions'[n] = u
      /\ \A i \in DOMAIN sessions : i # n => sessions'[i] = sessions[i]
  BY <1>1, <1>2, <1>3, SetLastIs
<1>5. Last(sessions) \in SessionRecords
  BY <1>1, <1>4 DEF Filtered
<1>6. /\ u.foreground = Last(sessions).foreground /\ u.stopping = Last(sessions).stopping
      /\ u.destroyed = Last(sessions).destroyed
      /\ u.handler = Last(sessions).handler /\ u.thread = Last(sessions).thread
  BY <1>5 DEF SessionRecords, Located
<1>7. Last(sessions') = u
  <2>1. Len(sessions') = n
    BY <1>1, <1>4 DEF FilterInv
  <2>. QED BY <1>4, <2>1 DEF Last
<1>. HIDE DEF n, u
<1>8. \A i \in DOMAIN sessions :
        (sessions[i].destroyed => sessions[i].stopping) /\ (sessions[i].stopping => ~sessions[i].foreground)
  BY <1>1 DEF SessionsInv, Linked
<1>9. SessionsInv' /\ ThreadsInv'
  BY <1>1, <1>3, <1>4, <1>6, <1>8, LinksKept, ThreadsKept
<1>10. OrderedIntents' /\ EventsInv'
  <2>1. crashed' \in BOOLEAN
    BY <1>1, <1>3 DEF EventsInv
  <2>. QED BY <1>1, <1>3, <1>6, <1>7, <2>1, OrderSame, EventsSame
<1>. QED BY <1>9, <1>10 DEF LoopInv

\* A sample changes what the filter remembers, and may give a report to the handler.
LEMMA SensorKeeps ==
  ASSUME LoopInv, FilterInv', NEW i \in DOMAIN sessions, SensorChanged(i)
  PROVE  LoopInv'
<1>. DEFINE s == sessions[i]
            m == [what |-> "REPORT", at |-> s.at]
<1>1. /\ sessions \in Seq(Filtered) /\ threads \in Seq(Loopers) /\ threads' \in Seq(Loopers)
      /\ IntentsInv /\ SessionsInv /\ ThreadsInv /\ OrderedIntents /\ EventsInv
  BY DEF LoopInv, FilterInv
<1>2. CASE Crash
  BY <1>2, CrashKeeps DEF SensorChanged
<1>3. ASSUME NEW b \in BOOLEAN, sessions' = [sessions EXCEPT ![i] = Jumped(s, b)],
             UNCHANGED <<intents, crashed>>, UNCHANGED appVars,
             \/ threads' = threads
             \/ s.handler # Null /\ threads' = SendMessage(threads, s.handler, m)
      PROVE  LoopInv'
  <2>1. s \in SessionRecords
    BY <1>1 DEF Filtered
  <2>2. /\ Jumped(s, b).handler = s.handler /\ Jumped(s, b).thread = s.thread
        /\ Jumped(s, b).stopping = s.stopping /\ Jumped(s, b).destroyed = s.destroyed
        /\ Jumped(s, b).foreground = s.foreground
    BY <2>1 DEF SessionRecords, Jumped
  <2>3. /\ DOMAIN sessions' = DOMAIN sessions /\ Len(sessions') = Len(sessions)
        /\ \A j \in DOMAIN sessions :
             /\ sessions'[j].handler = sessions[j].handler /\ sessions'[j].thread = sessions[j].thread
             /\ sessions'[j].stopping = sessions[j].stopping /\ sessions'[j].destroyed = sessions[j].destroyed
             /\ sessions'[j].foreground = sessions[j].foreground
    <3>1. DOMAIN sessions' = DOMAIN sessions /\ sessions' \in Seq(Filtered)
      BY <1>3 DEF FilterInv
    <3>2. Len(sessions') = Len(sessions)
      BY <1>1, <3>1
    <3>. HIDE DEF s
    <3>3. \A j \in DOMAIN sessions : j # i => sessions'[j] = sessions[j]
      BY <1>3
    <3>4. sessions'[i] = Jumped(s, b)
      BY <1>3
    <3>. QED BY <2>2, <3>1, <3>2, <3>3, <3>4 DEF s
  <2>4. s.handler # Null => /\ s.handler \in DOMAIN threads /\ threads[s.handler].of = i
                            /\ threads[s.handler].phase # "starting" /\ threads[s.handler] \in Loopers
    BY <1>1 DEF SessionsInv, Linked
  <2>5. m \in Messages /\ m.what = "REPORT"
    BY <2>1 DEF Messages, SessionRecords
  <2>6. /\ DOMAIN threads' = DOMAIN threads
        /\ \A t \in DOMAIN threads : \/ threads'[t] = threads[t]
                                      \/ /\ t = s.handler /\ s.handler # Null
                                         /\ ~threads[t].quitting /\ threads'[t] = Given(threads[t], m)
    <3>1. CASE threads' = threads
      BY <3>1
    <3>2. CASE s.handler # Null /\ threads' = SendMessage(threads, s.handler, m)
      <4>. DEFINE h == s.handler
      <4>1. h \in DOMAIN threads
        BY <2>4, <3>2
      <4>. HIDE DEF h, m
      <4>2. threads' = IF threads[h].quitting THEN threads ELSE [threads EXCEPT ![h] = Given(threads[h], m)]
        BY <3>2 DEF SendMessage, Given, h
      <4>. QED BY <3>2, <4>1, <4>2 DEF h
    <3>. QED BY <1>3, <3>1, <3>2
  <2>. HIDE DEF m
  <2>7. \A t \in DOMAIN threads :
          \/ threads'[t] = threads[t]
          \/ /\ threads'[t].of = threads[t].of /\ threads'[t].phase = threads[t].phase
             /\ Looped(threads'[t], sessions[threads[t].of].destroyed)
    <3>. SUFFICES ASSUME NEW t \in DOMAIN threads, t = s.handler, s.handler # Null,
                         ~threads[t].quitting, threads'[t] = Given(threads[t], m)
                  PROVE  /\ threads'[t].of = threads[t].of /\ threads'[t].phase = threads[t].phase
                         /\ Looped(threads'[t], sessions[threads[t].of].destroyed)
      BY <2>6
    <3>. DEFINE gone == sessions[threads[t].of].destroyed
    <3>1. Looped(threads[t], gone) /\ threads[t].of = i /\ threads[t] \in Loopers /\ gone \in BOOLEAN
      BY <1>1, <2>1, <2>4 DEF ThreadsInv, SessionRecords
    <3>. HIDE DEF gone
    <3>2. Looped(Given(threads[t], m), gone)
      BY <2>4, <2>5, <3>1, GivenLooped
    <3>. QED BY <2>5, <3>1, <3>2, GivenFields DEF gone
  <2>8. \A j \in DOMAIN sessions :
          (sessions[j].destroyed => sessions[j].stopping) /\ (sessions[j].stopping => ~sessions[j].foreground)
    BY <1>1 DEF SessionsInv, Linked
  <2>9. SessionsInv'
    BY <1>1, <2>3, <2>6, <2>7, <2>8, LinksKept
  <2>10. ThreadsInv'
    BY <1>1, <2>3, <2>6, <2>7, ThreadsKept
  <2>11. OrderedIntents'
    <3>1. sessions # << >> => Len(sessions) \in DOMAIN sessions
      BY <1>1
    <3>. QED BY <1>1, <1>3, <2>3, <3>1, OrderSame DEF Last
  <2>12. EventsInv'
    <3>1. crashed' \in BOOLEAN
      BY <1>1, <1>3 DEF EventsInv
    <3>. QED BY <1>1, <1>3, <2>6, <3>1, EventsSame
  <2>. QED BY <2>9, <2>10, <2>11, <2>12 DEF LoopInv
<1>. QED BY <1>2, <1>3 DEF SensorChanged
\* The looper of a thread whose session is there. LooperPrepared gives its handler to the session.
LEMMA PreparedKeeps ==
  ASSUME LoopInv, FilterInv', NEW t \in DOMAIN threads, LooperPrepared(t)
  PROVE  LoopInv'
<1>1. /\ sessions \in Seq(Filtered) /\ threads \in Seq(Loopers) /\ threads' \in Seq(Loopers)
      /\ IntentsInv /\ SessionsInv /\ ThreadsInv /\ OrderedIntents /\ EventsInv
  BY DEF LoopInv, FilterInv
<1>. DEFINE n == threads[t].of
            u == [threads[t] EXCEPT !.phase = "looping"]
            m == [what |-> "OPEN", at |-> 0]
            gone == sessions[n].destroyed
<1>2. /\ threads[t].phase = "starting" /\ UNCHANGED <<appVars, intents, crashed>>
      /\ sessions' = [sessions EXCEPT ![n].handler = t]
      /\ threads' = SendMessage([threads EXCEPT ![t].phase = "looping"], t, m)
  BY DEF LooperPrepared
<1>3. /\ threads[t] \in Loopers /\ n \in DOMAIN sessions /\ sessions[n] \in SessionRecords
      /\ gone \in BOOLEAN /\ Looped(threads[t], gone) /\ t \in Nat \ {0}
  <2>1. n \in DOMAIN sessions /\ Looped(threads[t], gone)
    BY <1>1 DEF ThreadsInv
  <2>2. sessions[n] \in SessionRecords
    BY <1>1, <2>1 DEF Filtered
  <2>3. gone \in BOOLEAN
    BY <2>2 DEF SessionRecords
  <2>. HIDE DEF gone, n
  <2>. QED BY <1>1, <2>1, <2>2, <2>3
<1>4. /\ sessions'[n].handler = t /\ sessions'[n].thread = sessions[n].thread
      /\ sessions'[n].stopping = sessions[n].stopping /\ sessions'[n].destroyed = sessions[n].destroyed
      /\ sessions'[n].foreground = sessions[n].foreground
  BY <1>2, <1>3 DEF SessionRecords
<1>5. /\ DOMAIN sessions' = DOMAIN sessions
      /\ \A i \in DOMAIN sessions : i # n => sessions'[i] = sessions[i]
  BY <1>2
<1>6. /\ u \in Loopers /\ u.queue = << >> /\ u.stream = "null" /\ Looped(u, gone)
      /\ u.of = n /\ u.quitting = threads[t].quitting /\ u.phase = "looping"
  <2>1. u.of = n /\ u.quitting = threads[t].quitting /\ u.phase = "looping"
    BY <1>3 DEF Loopers
  <2>. HIDE DEF gone
  <2>. QED BY <1>2, <1>3, <2>1, PreparedLooped
<1>7. m \in Messages /\ m.what = "OPEN"
  BY DEF Messages
<1>. DEFINE ts == [threads EXCEPT ![t].phase = "looping"]
<1>8. ts = [threads EXCEPT ![t] = u] /\ ts[t] = u /\ DOMAIN ts = DOMAIN threads
      /\ \A k \in DOMAIN threads : k # t => ts[k] = threads[k]
  OBVIOUS
<1>. HIDE DEF u, m, ts, gone, n
<1>9. threads' = IF u.quitting THEN ts ELSE [ts EXCEPT ![t] = Given(u, m)]
  <2>1. threads' = SendMessage(ts, t, m)
    BY <1>2 DEF ts, m
  <2>2. SendMessage(ts, t, m) = IF ts[t].quitting THEN ts ELSE [ts EXCEPT ![t] = Given(ts[t], m)]
    BY <1>8 DEF SendMessage, Given
  <2>. QED BY <1>8, <2>1, <2>2
<1>10. /\ DOMAIN threads' = DOMAIN threads
       /\ threads'[t] = IF u.quitting THEN u ELSE Given(u, m)
       /\ \A k \in DOMAIN threads : k # t => threads'[k] = threads[k]
  BY <1>8, <1>9
<1>11. threads'[t].of = n /\ threads'[t].phase = "looping" /\ Looped(threads'[t], gone)
  <2>1. CASE u.quitting
    BY <1>6, <1>10, <2>1
  <2>2. CASE ~u.quitting
    <3>1. Looped(Given(u, m), gone)
      BY <1>3, <1>6, <1>7, <2>2, GivenLooped
    <3>2. Given(u, m).of = u.of /\ Given(u, m).phase = u.phase
      BY <1>6, <1>7, GivenFields
    <3>. QED BY <1>6, <1>10, <2>2, <3>1, <3>2
  <2>. QED BY <2>1, <2>2
<1>12. \A i \in DOMAIN sessions :
        (sessions[i].destroyed => sessions[i].stopping) /\ (sessions[i].stopping => ~sessions[i].foreground)
  BY <1>1 DEF SessionsInv, Linked
<1>13. \A k \in DOMAIN threads : /\ threads'[k].of = threads[k].of
                                 /\ threads[k].phase # "starting" => threads'[k].phase # "starting"
  BY <1>10, <1>11 DEF n
<1>14. \A i \in DOMAIN sessions :
         /\ sessions'[i].thread = sessions[i].thread
         /\ \/ sessions'[i].handler = sessions[i].handler
            \/ /\ sessions'[i].handler \in DOMAIN threads
               /\ threads[sessions'[i].handler].of = i
               /\ threads'[sessions'[i].handler].phase # "starting"
         /\ sessions'[i].destroyed = sessions[i].destroyed
         /\ sessions'[i].destroyed => sessions'[i].stopping
         /\ sessions'[i].stopping => ~sessions'[i].foreground
         /\ sessions'[i].stopping = sessions[i].stopping
         /\ sessions'[i].foreground = sessions[i].foreground
  <2>. SUFFICES ASSUME NEW i \in DOMAIN sessions, i = n
                PROVE  sessions'[i].handler \in DOMAIN threads
                       /\ threads[sessions'[i].handler].of = i
                       /\ threads'[sessions'[i].handler].phase # "starting"
    BY <1>4, <1>5, <1>12
  <2>. QED BY <1>4, <1>11 DEF n
<1>15. SessionsInv'
  BY <1>1, <1>5, <1>10, <1>13, <1>14, LinksKept
<1>16. ThreadsInv'
  <2>1. \A k \in DOMAIN threads :
          \/ threads'[k] = threads[k]
          \/ /\ threads'[k].of = threads[k].of
             /\ Looped(threads'[k], sessions[threads[k].of].destroyed)
    BY <1>10, <1>11, <1>13 DEF n, gone
  <2>. QED BY <1>1, <1>5, <1>10, <1>14, <2>1, ThreadsKept
<1>17. OrderedIntents' /\ EventsInv'
  <2>1. crashed' \in BOOLEAN
    BY <1>1, <1>2 DEF EventsInv
  <2>2. Len(sessions') = Len(sessions) /\ (sessions # << >> => Len(sessions) \in DOMAIN sessions)
    BY <1>1, <1>5 DEF FilterInv
  <2>. QED BY <1>1, <1>2, <1>10, <1>14, <2>1, <2>2, OrderSame, EventsSame DEF Last
<1>. QED BY <1>15, <1>16, <1>17 DEF LoopInv

\* A step that changes one thread that is prepared, and nothing else.
LEMMA ThreadKeeps ==
  ASSUME LoopInv, FilterInv', NEW t \in DOMAIN threads, NEW u, threads' = [threads EXCEPT ![t] = u],
         u.of = threads[t].of, u.phase # "starting",
         Looped(u, sessions[threads[t].of].destroyed), UNCHANGED <<intents, sessions, crashed>>,
         UNCHANGED appVars
  PROVE  LoopInv'
<1>1. /\ sessions \in Seq(Filtered) /\ threads \in Seq(Loopers) /\ threads' \in Seq(Loopers)
      /\ IntentsInv /\ SessionsInv /\ ThreadsInv /\ OrderedIntents /\ EventsInv
  BY DEF LoopInv, FilterInv
<1>2. DOMAIN threads' = DOMAIN threads /\ threads'[t] = u /\ \A k \in DOMAIN threads : k # t => threads'[k] = threads[k]
  OBVIOUS
<1>3. ThreadsInv'
  BY <1>1, <1>2, ThreadsKept
<1>4. SessionsInv'
  <2>1. \A i \in DOMAIN sessions :
          (sessions[i].destroyed => sessions[i].stopping) /\ (sessions[i].stopping => ~sessions[i].foreground)
    BY <1>1 DEF SessionsInv, Linked
  <2>. QED BY <1>1, <1>2, <2>1, LinksKept
<1>5. OrderedIntents' /\ EventsInv'
  <2>1. crashed' \in BOOLEAN
    BY <1>1 DEF EventsInv
  <2>. QED BY <1>1, <1>2, <2>1, OrderSame, EventsSame
<1>. QED BY <1>3, <1>4, <1>5 DEF LoopInv

LEMMA LoopKeeps ==
  ASSUME LoopInv, FilterInv', NEW t \in DOMAIN threads, HandleMessage(t) \/ LoopEnds(t)
  PROVE  LoopInv'
<1>. DEFINE th == threads[t]
            gone == sessions[th.of].destroyed
<1>1. th \in Loopers /\ gone \in BOOLEAN /\ Looped(th, gone)
  <2>1. th \in Loopers /\ th.of \in DOMAIN sessions /\ Looped(th, gone)
    BY DEF LoopInv, FilterInv, ThreadsInv
  <2>2. sessions[th.of] \in SessionRecords
    BY <2>1 DEF LoopInv, FilterInv, Filtered
  <2>. QED BY <2>1, <2>2 DEF SessionRecords
<1>2. CASE HandleMessage(t)
  <2>1. CASE Crash
    BY <1>2, <2>1, CrashKeeps DEF HandleMessage
  <2>2. ASSUME NEW u \in Handled([th EXCEPT !.queue = Tail(@)], Head(th.queue)),
               ~(Head(th.queue).what = "REPORT" /\ th.stream = "null"),
               threads' = [threads EXCEPT ![t] = u], UNCHANGED <<intents, sessions, crashed>>,
               UNCHANGED appVars
        PROVE  LoopInv'
    <3>1. th.phase = "looping" /\ th.queue # << >>
      BY <1>2 DEF HandleMessage
    <3>2. u.of = th.of /\ u.phase = th.phase /\ Looped(u, gone)
      <4>. HIDE DEF th, gone
      <4>. QED BY <1>1, <2>2, <3>1, HandledLooped
    <3>. QED BY <2>2, <3>1, <3>2, ThreadKeeps
  <2>. QED BY <1>2, <2>1, <2>2 DEF HandleMessage
<1>3. CASE LoopEnds(t)
  <2>. DEFINE u == [th EXCEPT !.phase = "ended"]
  <2>1. /\ th.quitting /\ th.queue = << >> /\ threads' = [threads EXCEPT ![t] = u]
        /\ UNCHANGED <<intents, sessions, crashed>> /\ UNCHANGED appVars
    BY <1>3 DEF LoopEnds
  <2>2. u.of = th.of /\ u.phase = "ended"
    BY <1>1 DEF Loopers
  <2>3. Looped(u, gone)
    BY <1>1, <2>1, EndedLooped
  <2>. HIDE DEF u
  <2>. QED BY <2>1, <2>2, <2>3, ThreadKeeps
<1>. QED BY <1>2, <1>3

\* The screen stops a service in the foreground and starts one only if there is none, and it
\* does so in an event of its own after it was entered.
LEMMA ScreenKeeps ==
  ASSUME LoopInv, FilterInv',
         \/ \E b \in BOOLEAN : Enter(b)
         \/ PermissionResult
         \/ \E status \in {0, 1} : ConnectivityChanged(status)
         \/ Exit
  PROVE  LoopInv'
<1>1. /\ sessions \in Seq(Filtered) /\ threads \in Seq(Loopers)
      /\ IntentsInv /\ SessionsInv /\ ThreadsInv /\ OrderedIntents /\ EventsInv
  BY DEF LoopInv, FilterInv
<1>2. intents \in Seq({"START", "STOP", "DESTROY"})
  BY <1>1 DEF IntentsInv
<1>3. /\ intents \o << >> = intents
      /\ intents \o <<"START">> = Append(intents, "START") /\ intents \o <<"STOP">> = Append(intents, "STOP")
  BY <1>2
<1>4. /\ intents \o StartIntent = IF isLocationServiceRunning THEN intents ELSE Append(intents, "START")
      /\ intents \o StopIntent = IF isLocationServiceRunning THEN Append(intents, "STOP") ELSE intents
  BY <1>3 DEF StartIntent, StopIntent
<1>5. isLocationServiceRunning => Append(intents, "STOP") \o StartIntent = Append(intents, "STOP")
  <2>1. Append(intents, "STOP") \in Seq({"START", "STOP", "DESTROY"})
    BY <1>2
  <2>2. Append(intents, "STOP") \o << >> = Append(intents, "STOP")
    BY <2>1
  <2>. QED BY <2>2 DEF StartIntent
<1>6. \A e \in {StartIntent, << >>} : Append(intents, "STOP") \o << >> = Append(intents, "STOP")
  BY <1>2
<1>7. /\ shown \in BOOLEAN /\ receiver \in BOOLEAN /\ crashed \in BOOLEAN /\ events \in Nat
      /\ events <= MaxEvents /\ (shown => events > 0) /\ MaxEvents \in Nat
  BY <1>1, SessionAssumption DEF EventsInv
<1>8. /\ UNCHANGED <<sessions, threads>>
      /\ shown' \in BOOLEAN /\ receiver' \in BOOLEAN /\ crashed' \in BOOLEAN
      /\ events' \in {events, events + 1} /\ events' <= MaxEvents /\ (shown' => events' > 0)
      /\ \/ intents' = intents
         \/ intents' = Append(intents, "STOP") /\ isLocationServiceRunning
         \/ /\ intents' = Append(intents, "START") /\ ~isLocationServiceRunning
            /\ events' = events + 1 /\ events > 0
  <2>1. ASSUME NEW b \in BOOLEAN, Enter(b) PROVE <1>8!:
    BY <1>7, <2>1 DEF Enter, MoreEvents
  <2>2. CASE PermissionResult
    BY <1>4, <1>7, <2>2 DEF PermissionResult, MoreEvents
  <2>3. ASSUME NEW status \in {0, 1}, ConnectivityChanged(status) PROVE <1>8!:
    <3>1. \/ intents' = intents
          \/ intents' = Append(intents, "STOP") /\ isLocationServiceRunning
          \/ intents' = Append(intents, "START") /\ ~isLocationServiceRunning
      BY <1>3, <1>4, <1>5, <1>6, <2>3 DEF ConnectivityChanged
    <3>2. /\ shown /\ events < MaxEvents /\ events' = events + 1
          /\ UNCHANGED <<shown, receiver, sessions, threads, crashed>>
      BY <2>3 DEF ConnectivityChanged, MoreEvents
    <3>. QED BY <1>7, <3>1, <3>2
  <2>4. CASE Exit
    <3>1. CASE receiver
      BY <1>4, <1>7, <2>4, <3>1 DEF Exit
    <3>2. CASE ~receiver
      BY <1>7, <2>4, <3>2 DEF Exit, Crash, appVars
    <3>. QED BY <3>1, <3>2
  <2>. QED BY <2>1, <2>2, <2>3, <2>4
<1>9. OrderedIntents'
  BY <1>1, <1>8, OrderSent
<1>10. EventsInv'
  BY <1>1, <1>8, EventsSent
<1>11. SessionsInv' /\ ThreadsInv'
  BY <1>1, <1>8 DEF SessionsInv, Linked, ThreadsInv
<1>. QED BY <1>9, <1>10, <1>11 DEF LoopInv
LEMMA SameReports ==
  ASSUME NEW w \in Seq(Nat), NEW r \in Seq(Nat), Len(w) = Len(r), \A k \in DOMAIN w : w[k] = r[k]
  PROVE  w = r
OBVIOUS

\* The invariant that the theorems below rest on holds for every bound.
THEOREM LoopInvariant == Spec => []LoopInv
<1>1. Init => LoopInv
  <2>. SUFFICES ASSUME Init PROVE LoopInv
    OBVIOUS
  <2>1. FilterInv
    BY DEF Init, FilterInv, IntentsInv
  <2>2. \E c \in [DOMAIN intents -> 0..MaxEvents] : Numbered(c)
    <3>1. [k \in {} |-> 0] \in [DOMAIN intents -> 0..MaxEvents] /\ Numbered([k \in {} |-> 0])
      BY DEF Init, Numbered
    <3>. QED BY <3>1
  <2>3. events \in 0..MaxEvents /\ (shown => events > 0)
    BY SessionAssumption DEF Init
  <2>4. EventsInv
    BY <2>2, <2>3 DEF Init, EventsInv
  <2>5. OrderedIntents /\ SessionsInv /\ ThreadsInv
    BY DEF Init, OrderedIntents, Queued, SessionsInv, ThreadsInv
  <2>. QED BY <2>1, <2>4, <2>5 DEF LoopInv
<1>2. LoopInv /\ [Next]_vars => LoopInv'
  <2>1. ASSUME LoopInv, Next PROVE LoopInv'
    <3>1. FilterInv'
      BY <2>1, StartStep, StopStep, DestroyStep, LocationStep, SensorStep, LoopStep, ScreenStep
      DEF Next, LoopInv
    <3>. QED BY <2>1, <3>1, StartKeeps, StopKeeps, DestroyKeeps, LocationKeeps, SensorKeeps, PreparedKeeps,
             LoopKeeps, ScreenKeeps DEF Next
  <2>2. ASSUME LoopInv, UNCHANGED vars PROVE LoopInv'
    BY <2>2 DEF LoopInv, vars, FilterInv, IntentsInv, EventsInv, Numbered, OrderedIntents, Queued,
       SessionsInv, Linked, ThreadsInv
  <2>. QED BY <2>1, <2>2
<1>. QED BY <1>1, <1>2, PTL DEF Spec

\* A session knows only threads that exist, nothing is stopped that was never started, and there
\* are fewer threads than events: each start was sent by an event after the screen was entered.
THEOREM SessionTypeCorrect == Spec => []TypeOK
<1>1. LoopInv => TypeOK
  <2>. SUFFICES ASSUME LoopInv PROVE TypeOK
    OBVIOUS
  <2>1. /\ shown \in BOOLEAN /\ receiver \in BOOLEAN /\ crashed \in BOOLEAN
        /\ events \in 0..MaxEvents /\ (threads # << >> => Len(threads) < events)
    BY DEF LoopInv, EventsInv
  <2>2. /\ \A i \in DOMAIN intents : intents[i] \in {"START", "STOP", "DESTROY"}
        /\ \A i \in DOMAIN intents : intents[i] = "STOP" => sessions # << >>
    BY DEF LoopInv, FilterInv, IntentsInv
  <2>3. \A i \in DOMAIN sessions : sessions[i].handler \in {Null} \cup DOMAIN threads
                                   /\ sessions[i].thread \in DOMAIN threads
    BY DEF LoopInv, SessionsInv, Linked
  <2>4. \A t \in DOMAIN threads : threads[t].phase \in {"starting", "looping", "ended"}
                                  /\ threads[t].stream \in {"null", "open", "closed"}
    <3>1. \A t \in DOMAIN threads : threads[t] \in Loopers
      BY DEF LoopInv, FilterInv
    <3>. QED BY <3>1 DEF Loopers
  <2>. QED BY <2>1, <2>2, <2>3, <2>4 DEF TypeOK
<1>. QED BY <1>1, LoopInvariant, PTL

\* What reaches the server of a session are its reports in their order, and no report given to
\* a thread is missing when its loop ends: CLOSE waits behind all of them, and a thread that
\* quits takes no more.
THEOREM ReportsWrittenInOrder == Spec => []WrittenInOrder
<1>1. LoopInv => WrittenInOrder
  <2>. SUFFICES ASSUME LoopInv, NEW t \in DOMAIN threads
                PROVE  /\ IsPrefix(threads[t].written, threads[t].reports)
                       /\ threads[t].phase = "ended" => threads[t].written = threads[t].reports
    BY DEF WrittenInOrder
  <2>. DEFINE th == threads[t]
              w == th.written
              r == th.reports
  <2>1. PICK gone : Looped(th, gone)
    BY DEF LoopInv, ThreadsInv
  <2>2. w \in Seq(Nat) /\ r \in Seq(Nat)
    <3>1. th \in Loopers
      BY DEF LoopInv, FilterInv
    <3>. QED BY <3>1 DEF Loopers
  <2>3. Len(w) <= Len(r) /\ \A k \in DOMAIN w : w[k] = r[k]
    BY <2>1 DEF Looped, Written
  <2>4. IsPrefix(w, r)
    <3>. HIDE DEF w, r
    <3>1. /\ SubSeq(w, 1, Len(w)) \in Seq(Nat) /\ Len(SubSeq(w, 1, Len(w))) = Len(w)
          /\ SubSeq(r, 1, Len(w)) \in Seq(Nat) /\ Len(SubSeq(r, 1, Len(w))) = Len(w)
          /\ \A k \in 1..Len(w) : SubSeq(w, 1, Len(w))[k] = w[k] /\ SubSeq(r, 1, Len(w))[k] = r[k]
      BY <2>2, <2>3
    <3>2. SubSeq(w, 1, Len(w)) = SubSeq(r, 1, Len(w))
      BY <2>2, <2>3, <3>1
    <3>. QED BY <2>3, <3>2 DEF IsPrefix
  <2>5. ASSUME th.phase = "ended" PROVE w = r
    <3>1. th.quitting /\ th.queue = << >>
      BY <2>1, <2>5 DEF Looped, Phased
    <3>2. CASE th.stream = "closed"
      <4>1. Len(w) = Len(r)
        BY <2>1, <3>1, <3>2 DEF Looped, ClosedBehind
      <4>. HIDE DEF w, r
      <4>. QED BY <2>2, <2>3, <4>1, SameReports
    <3>3. CASE th.stream # "closed"
      <4>1. PICK g \in [Unwritten(th) -> DOMAIN th.queue] : Waits(th, g)
        BY <2>1, <3>3 DEF Looped, Pending
      <4>2. Len(w) + 1..Len(r) = {}
        BY <3>1, <4>1 DEF Unwritten
      <4>3. Len(w) < Len(r) => Len(r) \in Len(w) + 1..Len(r)
        BY <2>2
      <4>. HIDE DEF w, r
      <4>4. Len(w) = Len(r)
        BY <2>2, <2>3, <4>2, <4>3
      <4>. QED BY <2>2, <2>3, <4>4, SameReports
    <3>. QED BY <3>2, <3>3
  <2>. QED BY <2>4, <2>5
<1>. QED BY <1>1, LoopInvariant, PTL
=============================================================================
