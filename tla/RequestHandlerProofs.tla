------------------------- MODULE RequestHandlerProofs -------------------------
(* TypeOK, AnswersWhole and OneReportPerMessage of RequestHandler, for any number of messages,
   any length of an answer and any room on the connection.                   *)
EXTENDS RequestHandler, TLAPS

\* Only a client that has closed is sent something too late or resets the connection.
ClosedInv == (late \/ reset # "no") => client = "closed"

\* Pieces of answers, each following the one before it.
Whole(all) ==
  \A k \in 1 .. Len(all) :
    IF k = 1 \/ all[k - 1][2] = AnswerLen THEN all[k][2] = 1
    ELSE all[k] = <<all[k - 1][1], all[k - 1][2] + 1>>

\* What a client has been sent so far ends where the send loop stands.
EndsAt(all) ==
  IF pc = "send" /\ offset > 0
  THEN Len(all) > 0 /\ all[Len(all)] = <<request, offset>>
  ELSE Len(all) > 0 => all[Len(all)][2] = AnswerLen

Reports == [report : Messages \cup {Mixed}, message : Messages \cup {Mixed}]

AnswersInv == Whole(got \o wire) /\ (client = "open" => EndsAt(got \o wire))

HandlerInv == TypeOK /\ ClosedInv /\ AnswersInv

-------------------------------------------------------------------------------
\* What SubSeq leaves of a sequence on both sides of a cut.
LEMMA Cut ==
  ASSUME NEW S, NEW s \in Seq(S), NEW n \in Nat
  PROVE  /\ n <= Len(s) => Prefix(s, n) \in Seq(S) /\ Len(Prefix(s, n)) = n
         /\ n <= Len(s) => Rest(s, n) \in Seq(S) /\ Len(Rest(s, n)) = Len(s) - n
BY DEF Prefix, Rest

\* A buffer with its first pieces overwritten is a buffer.
LEMMA Overwritten ==
  ASSUME NEW S, NEW b \in [1 .. BufferLen -> S], NEW s \in Seq(S), Len(s) <= BufferLen
  PROVE  s \o Rest(b, Len(s)) \in [1 .. BufferLen -> S]
<1>1. BufferLen \in Nat
  BY HandlerAssumption
<1>2. b \in Seq(S) /\ Len(b) = BufferLen
  BY <1>1
<1>3. Rest(b, Len(s)) \in Seq(S) /\ Len(Rest(b, Len(s))) = BufferLen - Len(s)
  BY <1>2, Cut
<1>4. s \o Rest(b, Len(s)) \in Seq(S) /\ Len(s \o Rest(b, Len(s))) = BufferLen
  BY <1>1, <1>3
<1>5. \A q \in Seq(S) : q \in [1 .. Len(q) -> S]
  OBVIOUS
<1>. QED BY <1>4, <1>5

LEMMA InitInv == Init => HandlerInv
<1>. SUFFICES ASSUME Init PROVE HandlerInv
  OBVIOUS
<1>1. TypeOK
  <2>1. buffer \in [1 .. BufferLen -> Halves \cup {Junk}]
    BY DEF Init
  <2>2. /\ sent \in Seq(Kinds) /\ transit \in Seq(Halves) /\ stream \in Seq(Halves)
        /\ wire \in Seq(Pieces) /\ got \in Seq(Pieces) /\ stored \in Seq(Reports)
    BY DEF Init
  <2>3. Len(sent) <= MaxMessages /\ Len(wire) <= Room /\ offset \in 0 .. AnswerLen
    BY HandlerAssumption DEF Init
  <2>4. held \subseteq Things \X (Messages \cup {Mixed}) /\ request \in Messages \cup {Mixed}
    BY DEF Init, Mixed
  <2>. QED BY <2>1, <2>2, <2>3, <2>4 DEF Init, TypeOK, PCs, Reports
<1>2. ClosedInv /\ AnswersInv
  BY DEF Init, ClosedInv, AnswersInv, Whole, EndsAt
<1>. QED BY <1>1, <1>2 DEF HandlerInv

-------------------------------------------------------------------------------
\* Types, one step per action.
LEMMA TypeStep ==
  ASSUME TypeOK, Next
  PROVE  TypeOK'
<1>. USE HandlerAssumption DEF TypeOK, PCs, Reports, At, clientVars, netVars, workerVars, dataVars
<1>1. ASSUME NEW kind \in Kinds, Send(kind) PROVE TypeOK'
  <2>1. Len(sent') \in Messages /\ sent' \in Seq(Kinds) /\ Len(sent') <= MaxMessages
    BY <1>1 DEF Send, Messages
  <2>2. transit' \in Seq(Halves)
    BY <1>1, <2>1 DEF Send, Halves
  <2>. QED BY <1>1, <2>1, <2>2 DEF Send
<1>2. ASSUME NEW n \in 1 .. 2 * MaxMessages, Arrive(n) PROVE TypeOK'
  <2>1. n \in Nat /\ n <= Len(transit)
    BY <1>2 DEF Arrive
  <2>2. Prefix(transit, n) \in Seq(Halves) /\ Rest(transit, n) \in Seq(Halves)
    BY <2>1, Cut
  <2>. QED BY <1>2, <2>2 DEF Arrive
<1>3. ASSUME ReadAnswer PROVE TypeOK'
  BY <1>3 DEF ReadAnswer
<1>4. ASSUME CloseClient PROVE TypeOK'
  <2>1. wire' \in Seq(Pieces) /\ Len(wire') <= Room
    BY <1>4 DEF CloseClient
  <2>2. transit' \in Seq(Halves) /\ reset' \in {"no", "established", "closing"}
    <3>1. CASE wire = <<>>
      BY <1>4, <3>1 DEF CloseClient
    <3>2. CASE wire # <<>>
      BY <1>4, <3>2 DEF CloseClient
    <3>. QED BY <3>1, <3>2
  <2>. QED BY <1>4, <2>1, <2>2 DEF CloseClient
<1>5. ASSUME ResetByPeer PROVE TypeOK'
  BY <1>5 DEF ResetByPeer
<1>6. ASSUME Dispatch \/ HangUp PROVE TypeOK'
  BY <1>6 DEF Dispatch, HangUp
<1>7. ASSUME Recv PROVE TypeOK'
  <2>. DEFINE n == Smaller(Len(stream), BufferLen)
  <2>1. n \in Nat /\ n <= Len(stream) /\ n <= BufferLen
    BY DEF Smaller
  <2>2. Prefix(stream, n) \in Seq(Halves) /\ Len(Prefix(stream, n)) = n /\ Rest(stream, n) \in Seq(Halves)
    BY <2>1, Cut
  <2>3. Prefix(stream, n) \in Seq(Halves \cup {Junk})
    BY <2>2
  <2>4. buffer' = Prefix(stream, n) \o Rest(buffer, n) /\ stream' = Rest(stream, n)
    BY <1>7 DEF Recv
  <2>. HIDE DEF n
  <2>5. buffer' \in [1 .. BufferLen -> Halves \cup {Junk}]
    BY <2>1, <2>2, <2>3, <2>4, Overwritten
  <2>. QED BY <1>7, <2>2, <2>4, <2>5 DEF Recv
<1>8. ASSUME RecvEnd \/ RecvError \/ RecvWouldBlock PROVE TypeOK'
  BY <1>8 DEF RecvEnd, RecvError, RecvWouldBlock
<1>9. ASSUME NEW m \in Messages \cup {Mixed}, NEW kind \in {"report", "query"}, pc = "parse", StartRequest(m, kind)
      PROVE  TypeOK'
  <2>1. held' \subseteq Things \X (Messages \cup {Mixed})
    BY <1>9 DEF StartRequest, Holding, Things
  <2>. QED BY <1>9, <2>1 DEF StartRequest
<1>10. ASSUME ParseRequest \/ ParseMixed PROVE TypeOK'
  <2>1. Len(sent) \in Nat /\ Len(sent) <= MaxMessages /\ MaxMessages \in Nat
    OBVIOUS
  <2>2. \A m \in 1 .. Len(sent) : m \in Messages
    BY <2>1 DEF Messages
  <2>3. \A m \in 1 .. Len(sent) : sent[m] \in Kinds
    OBVIOUS
  <2>4. \A m \in 1 .. Len(sent) : sent[m] # "wrong" => sent[m] \in {"report", "query"}
    BY <2>3
  <2>5. pc = "parse"
    BY <1>10 DEF ParseRequest, ParseMixed
  <2>6. CASE ParseRequest
    <3>1. PICK m \in 1 .. Len(sent) : sent[m] # "wrong" /\ StartRequest(m, sent[m])
      BY <2>6 DEF ParseRequest
    <3>. QED BY <1>9, <2>2, <2>4, <2>5, <3>1
  <2>7. CASE ParseMixed
    <3>1. PICK m, n \in 1 .. Len(sent) :
            \E kind \in {sent[m], sent[n]} \ {"wrong"} :
              StartRequest(Mixed, kind) \/ \E r \in {m, n} : sent[r] = kind /\ StartRequest(r, kind)
      BY <2>7 DEF ParseMixed
    <3>2. PICK kind \in {sent[m], sent[n]} \ {"wrong"}, r \in {Mixed, m, n} : StartRequest(r, kind)
      BY <3>1
    <3>3. kind \in {"report", "query"}
      BY <2>4, <3>2
    <3>4. r \in Messages \cup {Mixed}
      BY <2>2
    <3>. QED BY <1>9, <2>5, <3>2, <3>3, <3>4
  <2>. QED BY <1>10, <2>6, <2>7
<1>11. ASSUME ParseFails PROVE TypeOK'
  BY <1>11 DEF ParseFails, Things
<1>12. ASSUME StoreReport PROVE TypeOK'
  <2>1. 1 \in 1 .. BufferLen
    OBVIOUS
  <2>2. buffer[1] \in Halves \cup {Junk}
    BY <2>1
  <2>3. buffer[1][1] \in Messages \cup {Mixed}
    BY <2>2 DEF Halves, Junk, Mixed
  <2>4. [report |-> request, message |-> buffer[1][1]] \in Reports
    BY <2>3 DEF Reports
  <2>5. stored' \in Seq(Reports)
    BY <1>12, <2>4 DEF StoreReport
  <2>. QED BY <1>12, <2>5 DEF StoreReport, Things
<1>13. ASSUME ReportFails PROVE TypeOK'
  BY <1>13 DEF ReportFails, Things
<1>14. ASSUME QueryDatabase PROVE TypeOK'
  BY <1>14 DEF QueryDatabase, Things
<1>15. ASSUME QueryFails PROVE TypeOK'
  BY <1>15 DEF QueryFails, Things
<1>16. ASSUME NEW n \in 1 .. AnswerLen, SendPieces(n) PROVE TypeOK'
  <2>1. \A k \in 1 .. n : Piece(offset + k) \in Pieces
    BY <1>16 DEF SendPieces, Piece, Pieces
  <2>2. [k \in 1 .. n |-> Piece(offset + k)] \in Seq(Pieces)
    BY <2>1
  <2>3. wire' \in Seq(Pieces) /\ Len(wire') <= Room
    BY <1>16, <2>2 DEF SendPieces
  <2>. QED BY <1>16, <2>3 DEF SendPieces
<1>17. ASSUME NEW n \in 1 .. AnswerLen, SendTooLate(n) PROVE TypeOK'
  BY <1>17 DEF SendTooLate
<1>18. ASSUME SendDone \/ SendError \/ BrokenPipe PROVE TypeOK'
  BY <1>18 DEF SendDone, SendError, BrokenPipe
<1>19. ASSUME RestoreSlot \/ CloseConn PROVE TypeOK'
  BY <1>19 DEF RestoreSlot, CloseConn
<1>. QED
  BY <1>1, <1>2, <1>3, <1>4, <1>5, <1>6, <1>7, <1>8, <1>10, <1>11, <1>12, <1>13, <1>14, <1>15,
     <1>16, <1>17, <1>18, <1>19 DEF Next, ServerStep, NetworkStep, ClientStep

-------------------------------------------------------------------------------
LEMMA Associative ==
  ASSUME NEW S, NEW a \in Seq(S), NEW b \in Seq(S), NEW c \in Seq(S)
  PROVE  a \o (b \o c) = (a \o b) \o c
<1>. DEFINE l == a \o (b \o c)
            r == (a \o b) \o c
<1>1. l \in Seq(S) /\ r \in Seq(S) /\ Len(l) = Len(r)
  OBVIOUS
<1>2. \A k \in 1 .. Len(l) : l[k] = r[k]
  OBVIOUS
<1>. HIDE DEF l, r
<1>3. l = r
  BY <1>1, <1>2
<1>. QED BY <1>3 DEF l, r

Continued(all, r, o, n) ==
  LET both == all \o [k \in 1 .. n |-> <<r, o + k>>]
  IN  Whole(both) /\ Len(both) > 0 /\ both[Len(both)] = <<r, o + n>>

\* The next pieces of an answer continue the answers sent so far.
LEMMA PiecesFollow ==
  ASSUME NEW all \in Seq(Pieces), Whole(all), NEW o \in Nat, NEW n \in 1 .. AnswerLen - o,
         NEW r \in Messages \cup {Mixed},
         IF o > 0 THEN Len(all) > 0 /\ all[Len(all)] = <<r, o>> ELSE Len(all) > 0 => all[Len(all)][2] = AnswerLen
  PROVE  Continued(all, r, o, n)
<1>. DEFINE new == [k \in 1 .. n |-> <<r, o + k>>]
            both == all \o new
<1>. USE HandlerAssumption
<1>1. new \in Seq((Messages \cup {Mixed}) \X Nat) /\ Len(new) = n /\ \A k \in 1 .. n : new[k] = <<r, o + k>>
  OBVIOUS
<1>2. /\ Len(both) = Len(all) + n
      /\ \A k \in 1 .. Len(all) : both[k] = all[k]
      /\ \A k \in Len(all) + 1 .. Len(all) + n : both[k] = <<r, o + k - Len(all)>>
  BY <1>1
<1>. HIDE DEF new, both
<1>3. ASSUME NEW k \in 1 .. Len(both)
      PROVE  IF k = 1 \/ both[k - 1][2] = AnswerLen THEN both[k][2] = 1
             ELSE both[k] = <<both[k - 1][1], both[k - 1][2] + 1>>
  <2>1. CASE k <= Len(all)
    <3>1. k \in 1 .. Len(all) /\ (k # 1 => k - 1 \in 1 .. Len(all))
      BY <1>2, <2>1
    <3>2. both[k] = all[k] /\ (k # 1 => both[k - 1] = all[k - 1])
      BY <1>2, <3>1
    <3>. QED BY <3>1, <3>2 DEF Whole
  <2>2. CASE k = Len(all) + 1
    BY <1>2, <2>2
  <2>3. CASE k > Len(all) + 1
    BY <1>2, <2>3
  <2>. QED BY <2>1, <2>2, <2>3, <1>2
<1>4. Whole(both)
  BY <1>3 DEF Whole
<1>5. Len(both) > 0 /\ both[Len(both)] = <<r, o + n>>
  BY <1>2
<1>. QED BY <1>4, <1>5 DEF both, new, Continued

LEMMA AnswersStep ==
  ASSUME HandlerInv, Next
  PROVE  ClosedInv' /\ AnswersInv'
<1>. USE DEF clientVars, netVars, workerVars, dataVars, At
<1>1. got \in Seq(Pieces) /\ wire \in Seq(Pieces) /\ client \in {"open", "closed"} /\ AnswerLen \in Nat \ {0}
      /\ offset \in 0 .. AnswerLen /\ request \in Messages \cup {Mixed}
  BY HandlerAssumption DEF HandlerInv, TypeOK
\* Steps that leave the answers alone, outside the send loop before and after.
<1>2. ASSUME UNCHANGED <<got, wire, client>>, 
             client' = "open" => \/ pc # "send" /\ pc' # "send"
                                 \/ UNCHANGED <<pc, offset, request>>
                                 \/ pc # "send" /\ offset' = 0
                                 \/ pc = "send" /\ offset = AnswerLen /\ pc' # "send"
      PROVE  AnswersInv'
  BY <1>1, <1>2 DEF HandlerInv, AnswersInv, EndsAt
<1>3. ASSUME UNCHANGED <<client, reset, late>> PROVE ClosedInv'
  BY <1>3 DEF HandlerInv, ClosedInv
<1>4. ASSUME ClientStep PROVE ClosedInv' /\ AnswersInv'
  <2>1. ASSUME NEW kind \in Kinds, Send(kind) PROVE ClosedInv' /\ AnswersInv'
    BY <2>1, <1>2, <1>3 DEF Send
  <2>2. ASSUME CloseClient PROVE ClosedInv' /\ AnswersInv'
    <3>1. ClosedInv'
      BY <2>2 DEF CloseClient, ClosedInv
    <3>2. got' \o wire' = got
      BY <1>1, <2>2 DEF CloseClient
    <3>3. Whole(got)
      BY <1>1 DEF HandlerInv, AnswersInv, Whole
    <3>. QED BY <2>2, <3>1, <3>2, <3>3 DEF AnswersInv, Whole, CloseClient
  <2>. QED BY <1>4, <2>1, <2>2 DEF ClientStep
<1>5. ASSUME NetworkStep PROVE ClosedInv' /\ AnswersInv'
  BY <1>2, <1>3, <1>5 DEF NetworkStep, Arrive, ResetByPeer, HandlerInv, ClosedInv
<1>6. ASSUME ReadAnswer PROVE ClosedInv' /\ AnswersInv'
  <2>1. got' \o wire' = got \o wire
    BY <1>1, <1>6 DEF ReadAnswer
  <2>. QED BY <1>3, <1>6, <2>1 DEF ReadAnswer, HandlerInv, AnswersInv, Whole, EndsAt
<1>7. ASSUME NEW n \in 1 .. AnswerLen, SendPieces(n) PROVE ClosedInv' /\ AnswersInv'
  <2>. DEFINE all == got \o wire
              new == [k \in 1 .. n |-> <<request, offset + k>>]
  <2>1. n \in 1 .. AnswerLen - offset /\ offset \in Nat /\ all \in Seq(Pieces)
    BY <1>1, <1>7 DEF SendPieces
  <2>2. \A k \in 1 .. n : <<request, offset + k>> \in Pieces
    BY <1>1, <2>1 DEF Pieces
  <2>3. new \in Seq(Pieces)
    BY <2>1, <2>2
  <2>4. got' = got /\ wire' = wire \o new
    BY <1>7 DEF SendPieces, Piece
  <2>5. got' \o wire' = all \o new
    <3>. HIDE DEF new
    <3>. QED BY <1>1, <2>3, <2>4, Associative
  <2>6. Whole(all)
        /\ IF offset > 0 THEN Len(all) > 0 /\ all[Len(all)] = <<request, offset>>
           ELSE Len(all) > 0 => all[Len(all)][2] = AnswerLen
    BY <1>1, <1>7 DEF SendPieces, HandlerInv, AnswersInv, EndsAt
  <2>7. Continued(all, request, offset, n)
    <3>. HIDE DEF all
    <3>. QED BY <1>1, <2>1, <2>6, PiecesFollow
  <2>8. Whole(all \o new) /\ Len(all \o new) > 0 /\ (all \o new)[Len(all \o new)] = <<request, offset + n>>
    BY <2>7 DEF Continued
  <2>9. pc' = "send" /\ offset' = offset + n /\ request' = request /\ UNCHANGED <<client, reset, late>>
    BY <1>7 DEF SendPieces
  <2>. HIDE DEF all, new
  <2>10. Whole(got' \o wire')
    BY <2>5, <2>8
  <2>11. EndsAt(got \o wire)'
    BY <2>1, <2>5, <2>8, <2>9 DEF EndsAt
  <2>12. AnswersInv'
    BY <2>10, <2>11 DEF AnswersInv, Whole
  <2>. QED BY <1>3, <2>9, <2>12
<1>8. ASSUME NEW n \in 1 .. AnswerLen, SendTooLate(n) PROVE ClosedInv' /\ AnswersInv'
  BY <1>2, <1>8 DEF SendTooLate, ClosedInv
<1>9. ASSUME SendDone \/ SendError \/ BrokenPipe PROVE ClosedInv' /\ AnswersInv'
  BY <1>2, <1>3, <1>9 DEF SendDone, SendError, BrokenPipe, HandlerInv, ClosedInv
<1>10. ASSUME Dispatch \/ HangUp \/ Recv \/ RecvEnd \/ RecvError \/ RecvWouldBlock \/ ParseFails \/ StoreReport
              \/ ReportFails \/ QueryDatabase \/ QueryFails \/ RestoreSlot \/ CloseConn
       PROVE  ClosedInv' /\ AnswersInv'
  BY <1>2, <1>3, <1>10 DEF Dispatch, HangUp, Recv, RecvEnd, RecvError, RecvWouldBlock, ParseFails, StoreReport,
                           ReportFails, QueryDatabase, QueryFails, RestoreSlot, CloseConn
<1>11. ASSUME ParseRequest \/ ParseMixed PROVE ClosedInv' /\ AnswersInv'
  <2>1. \A m \in 1 .. Len(sent) : sent[m] \in {"report", "query", "wrong"}
    <3>1. sent \in Seq(Kinds) /\ Kinds \subseteq {"report", "query", "wrong"}
      BY HandlerAssumption DEF HandlerInv, TypeOK
    <3>2. \A m \in 1 .. Len(sent) : sent[m] \in Kinds
      BY <3>1
    <3>. QED BY <3>1, <3>2
  <2>. QED BY <1>2, <1>3, <1>11, <2>1 DEF ParseRequest, ParseMixed, StartRequest
<1>. QED BY <1>4, <1>5, <1>6, <1>7, <1>8, <1>9, <1>10, <1>11 DEF Next, ServerStep

-------------------------------------------------------------------------------
LEMMA HandlerInvariant == Spec => []HandlerInv
<1>1. HandlerInv /\ [Next]_vars => HandlerInv'
  <2>1. ASSUME HandlerInv, Next PROVE HandlerInv'
    BY <2>1, TypeStep, AnswersStep DEF HandlerInv
  <2>2. ASSUME HandlerInv, UNCHANGED vars PROVE HandlerInv'
    BY <2>2 DEF vars, clientVars, netVars, workerVars, dataVars, HandlerInv, TypeOK, ClosedInv,
                AnswersInv, Whole, EndsAt
  <2>. QED BY <2>1, <2>2
<1>. QED BY InitInv, <1>1, PTL DEF Spec

\* Nothing is sent past the end of an answer or into a connection that is full, and a task
\* runs exactly while its slot is parked.
THEOREM HandlerTypeCorrect == Spec => []TypeOK
BY HandlerInvariant, PTL DEF HandlerInv

\* Whatever send takes at a time, and whatever the client reads in between, it gets whole
\* answers one after the other.
THEOREM AnswersArriveWhole == Spec => []AnswersWhole
<1>1. HandlerInv => AnswersWhole
  BY DEF HandlerInv, AnswersInv, Whole, EndsAt, AnswersWhole
<1>. QED BY <1>1, HandlerInvariant, PTL

-------------------------------------------------------------------------------
(* The order of reports *)

\* Where a half is in what the client sends; Junk is before everything.
Place(half) == 2 * half[1] + half[2]

\* Halves that have not been read are in the order in which they were sent, and behind the
\* half at the start of the buffer.
HalvesInOrder ==
  /\ \A j, k \in DOMAIN stream : j < k => Place(stream[j]) < Place(stream[k])
  /\ \A j, k \in DOMAIN transit : j < k => Place(transit[j]) < Place(transit[k])
  /\ \A j \in DOMAIN stream, k \in DOMAIN transit : Place(stream[j]) < Place(transit[k])
  /\ \A j \in DOMAIN stream : Place(buffer[1]) < Place(stream[j]) /\ Place(stream[j]) <= 2 * Len(sent) + 2
  /\ \A j \in DOMAIN transit : Place(buffer[1]) < Place(transit[j]) /\ Place(transit[j]) <= 2 * Len(sent) + 2
  /\ Place(buffer[1]) <= 2 * Len(sent) + 2

\* No report was stored for a message sent after the half at the start of the buffer.
NothingAhead == \A j \in DOMAIN stored : Place(<<stored[j].message, 1>>) <= Place(buffer[1])

\* None was stored for what the buffer starts with.
Fresh == \A j \in DOMAIN stored : Place(<<stored[j].message, 1>>) < Place(buffer[1])

OrderInv ==
  /\ HalvesInOrder /\ NothingAhead /\ OneReportPerMessage
  /\ pc = "recv" => Fresh \/ stream # <<>> \/ Eof
  /\ pc = "parse" => Fresh
  /\ pc = "report" => Fresh /\ buffer[1][2] = 1

\* What is where in a sequence after another, and in what is left of one.
IsJoined(both, s, m, t, n) ==
  /\ DOMAIN both = 1 .. m + n /\ Len(both) = m + n
  /\ \A k \in 1 .. m : both[k] = s[k]
  /\ \A k \in m + 1 .. m + n : both[k] = t[k - m]

LEMMA Joined ==
  ASSUME NEW S, NEW s \in Seq(S), NEW t \in Seq(S)
  PROVE  IsJoined(s \o t, s, Len(s), t, Len(t))
BY DEF IsJoined

LEMMA CutUp ==
  ASSUME NEW S, NEW s \in Seq(S), NEW n \in Nat, n <= Len(s)
  PROVE  /\ DOMAIN Prefix(s, n) = 1 .. n /\ DOMAIN Rest(s, n) = 1 .. Len(s) - n
         /\ \A k \in 1 .. n : Prefix(s, n)[k] = s[k]
         /\ \A k \in 1 .. Len(s) - n : Rest(s, n)[k] = s[k + n]
BY DEF Prefix, Rest

LEMMA OrderInit == Init => OrderInv
BY HandlerAssumption DEF Init, OrderInv, HalvesInOrder, NothingAhead, OneReportPerMessage, Place, Junk

\* Steps that touch neither what was sent nor the buffer nor what is stored.
LEMMA OrderKept ==
  ASSUME OrderInv, UNCHANGED <<sent, transit, stream, buffer, stored, client>>,
         \/ pc' = pc
         \/ pc' \notin {"recv", "parse", "report"}
         \/ pc' = "recv" /\ (stream # <<>> \/ Eof)
         \/ pc = "recv" /\ pc' = "parse" /\ stream = <<>> /\ ~Eof
         \/ pc = "parse" /\ pc' = "report" /\ buffer[1][2] = 1
  PROVE  OrderInv'
BY DEF OrderInv, HalvesInOrder, NothingAhead, OneReportPerMessage, Fresh, Eof

LEMMA OrderStep ==
  ASSUME TypeOK, OrderInv, Next
  PROVE  OrderInv'
<1>. USE DEF clientVars, netVars, workerVars, dataVars, At
<1>1. /\ stream \in Seq(Halves) /\ transit \in Seq(Halves) /\ sent \in Seq(Kinds)
      /\ stored \in Seq(Reports) /\ buffer \in [1 .. BufferLen -> Halves \cup {Junk}]
      /\ BufferLen \in Nat /\ BufferLen >= 2 /\ request \in Messages \cup {Mixed}
  BY HandlerAssumption DEF TypeOK, Reports
<1>2. \A h \in Halves \cup {Junk} : h[1] \in Nat /\ h[2] \in Nat /\ Place(h) \in Nat
  BY DEF Halves, Junk, Messages, Place
<1>3. buffer[1] \in Halves \cup {Junk}
  BY <1>1
<1>3a. \A j \in DOMAIN stored : stored[j].message \in Nat
  <2>1. \A j \in DOMAIN stored : stored[j] \in Reports
    BY <1>1
  <2>. QED BY <2>1 DEF Reports, Messages, Mixed
<1>3b. \A m \in Nat : Place(<<m, 1>>) \in Nat
  BY DEF Place
<1>4. ASSUME NEW kind \in Kinds, Send(kind) PROVE OrderInv'
  <2>1. Len(sent') = Len(sent) + 1 /\ Len(sent) \in Nat
    BY <1>1, <1>4 DEF Send
  <2>. DEFINE new == << <<Len(sent'), 1>>, <<Len(sent'), 2>> >>
  <2>2. transit' = transit \o new
    BY <1>4 DEF Send
  <2>3. /\ \A k \in DOMAIN transit : transit'[k] = transit[k]
        /\ \A k \in DOMAIN transit' : k \notin DOMAIN transit =>
              \/ k = Len(transit) + 1 /\ Place(transit'[k]) = 2 * Len(sent') + 1
              \/ k = Len(transit) + 2 /\ Place(transit'[k]) = 2 * Len(sent') + 2
        /\ DOMAIN transit = 1 .. Len(transit) /\ Len(transit) \in Nat
    <3>1. new \in Seq(Halves) /\ Len(new) = 2 /\ new[1] = <<Len(sent'), 1>> /\ new[2] = <<Len(sent'), 2>>
      <4>1. Len(sent') \in Messages
        BY <1>4, <2>1, HandlerAssumption DEF Send, Messages
      <4>. QED BY <4>1 DEF Halves
    <3>2. Len(transit) \in Nat /\ DOMAIN transit = 1 .. Len(transit)
      BY <1>1
    <3>. HIDE DEF new
    <3>3. IsJoined(transit', transit, Len(transit), new, 2)
      BY <1>1, <2>2, <3>1, Joined
    <3>4. transit'[Len(transit) + 1] = new[1] /\ transit'[Len(transit) + 2] = new[2]
      BY <3>2, <3>3 DEF IsJoined
    <3>5. /\ Place(transit'[Len(transit) + 1]) = 2 * Len(sent') + 1
          /\ Place(transit'[Len(transit) + 2]) = 2 * Len(sent') + 2
      BY <3>1, <3>4 DEF Place
    <3>. QED BY <2>1, <3>2, <3>3, <3>5 DEF IsJoined
  <2>4. /\ \A k \in DOMAIN transit : Place(transit[k]) \in Nat
        /\ \A k \in DOMAIN stream : Place(stream[k]) \in Nat
        /\ Place(buffer[1]) \in Nat
    BY <1>1, <1>2, <1>3
  <2>5. HalvesInOrder'
    <3>. HIDE DEF new
    <3>1. UNCHANGED <<stream, buffer>>
      BY <1>4 DEF Send
    <3>2. \A j, k \in DOMAIN transit' : j < k => Place(transit'[j]) < Place(transit'[k])
      BY <2>1, <2>3, <2>4 DEF OrderInv, HalvesInOrder
    <3>3. \A j \in DOMAIN stream, k \in DOMAIN transit' : Place(stream[j]) < Place(transit'[k])
      BY <2>1, <2>3, <2>4 DEF OrderInv, HalvesInOrder
    <3>4. \A j \in DOMAIN transit' : Place(buffer[1]) < Place(transit'[j]) /\ Place(transit'[j]) <= 2 * Len(sent') + 2
      BY <2>1, <2>3, <2>4 DEF OrderInv, HalvesInOrder
    <3>5. \A j \in DOMAIN stream : Place(buffer[1]) < Place(stream[j]) /\ Place(stream[j]) <= 2 * Len(sent') + 2
      BY <2>1, <2>4 DEF OrderInv, HalvesInOrder
    <3>6. Place(buffer[1]) <= 2 * Len(sent') + 2
      BY <2>1, <2>4 DEF OrderInv, HalvesInOrder
    <3>7. \A j, k \in DOMAIN stream : j < k => Place(stream[j]) < Place(stream[k])
      BY DEF OrderInv, HalvesInOrder
    <3>. QED BY <3>1, <3>2, <3>3, <3>4, <3>5, <3>6, <3>7 DEF HalvesInOrder, Place
  <2>. QED BY <1>4, <2>5 DEF Send, OrderInv, NothingAhead, OneReportPerMessage, Fresh, Eof
<1>5. ASSUME NEW n \in 1 .. 2 * MaxMessages, Arrive(n) PROVE OrderInv'
  <2>1. /\ n \in Nat /\ n <= Len(transit)
        /\ stream' = stream \o Prefix(transit, n) /\ transit' = Rest(transit, n)
        /\ UNCHANGED <<sent, buffer, stored, pc, request, client>>
    BY <1>5, HandlerAssumption DEF Arrive
  <2>2. /\ Len(stream') = Len(stream) + n /\ Len(transit') = Len(transit) - n
        /\ \A k \in 1 .. Len(stream) : stream'[k] = stream[k]
        /\ \A k \in Len(stream) + 1 .. Len(stream) + n : stream'[k] = transit[k - Len(stream)]
        /\ \A k \in 1 .. Len(transit) - n : transit'[k] = transit[k + n]
        /\ DOMAIN stream' = 1 .. Len(stream) + n /\ DOMAIN transit' = 1 .. Len(transit) - n
    <3>1. /\ Prefix(transit, n) \in Seq(Halves) /\ Len(Prefix(transit, n)) = n
          /\ Rest(transit, n) \in Seq(Halves) /\ Len(Rest(transit, n)) = Len(transit) - n
      BY <1>1, <2>1, Cut
    <3>2. /\ \A k \in 1 .. n : Prefix(transit, n)[k] = transit[k]
          /\ \A k \in 1 .. Len(transit) - n : Rest(transit, n)[k] = transit[k + n]
          /\ DOMAIN Rest(transit, n) = 1 .. Len(transit) - n
      BY <1>1, <2>1, CutUp
    <3>3. IsJoined(stream', stream, Len(stream), Prefix(transit, n), n)
      BY <1>1, <2>1, <3>1, Joined
    <3>4. Len(stream) \in Nat
      BY <1>1
    <3>. QED BY <2>1, <3>1, <3>2, <3>3, <3>4 DEF IsJoined
  <2>3. HalvesInOrder'
    <3>1. Len(stream) \in Nat /\ Len(transit) \in Nat /\ DOMAIN stream = 1 .. Len(stream)
          /\ DOMAIN transit = 1 .. Len(transit)
      BY <1>1
    <3>. DEFINE P(k) == Place(stream[k])
                Q(k) == Place(transit[k])
                newP(k) == Place(stream'[k])
                newQ(k) == Place(transit'[k])
                m == Len(stream)
                l == Len(transit)
    <3>6. /\ \A j, k \in 1 .. m : j < k => P(j) < P(k)
          /\ \A j, k \in 1 .. l : j < k => Q(j) < Q(k)
          /\ \A j \in 1 .. m, k \in 1 .. l : P(j) < Q(k)
          /\ \A j \in 1 .. m : Place(buffer[1]) < P(j) /\ P(j) <= 2 * Len(sent) + 2
          /\ \A j \in 1 .. l : Place(buffer[1]) < Q(j) /\ Q(j) <= 2 * Len(sent) + 2
      BY <3>1 DEF OrderInv, HalvesInOrder
    <3>7. /\ \A k \in 1 .. m : newP(k) = P(k)
          /\ \A k \in m + 1 .. m + n : newP(k) = Q(k - m)
          /\ \A k \in 1 .. l - n : newQ(k) = Q(k + n)
          /\ DOMAIN stream' = 1 .. m + n /\ DOMAIN transit' = 1 .. l - n
      BY <2>1, <2>2, <3>1
    <3>8. m \in Nat /\ l \in Nat /\ n \in Nat /\ n <= l
      BY <2>1, <3>1
    <3>. HIDE DEF P, Q, newP, newQ, m, l
    <3>9. /\ \A j, k \in 1 .. m + n : j < k => newP(j) < newP(k)
          /\ \A j, k \in 1 .. l - n : j < k => newQ(j) < newQ(k)
          /\ \A j \in 1 .. m + n, k \in 1 .. l - n : newP(j) < newQ(k)
          /\ \A j \in 1 .. m + n : Place(buffer[1]) < newP(j) /\ newP(j) <= 2 * Len(sent) + 2
          /\ \A j \in 1 .. l - n : Place(buffer[1]) < newQ(j) /\ newQ(j) <= 2 * Len(sent) + 2
      BY <3>6, <3>7, <3>8
    <3>2. \A j, k \in DOMAIN stream' : j < k => Place(stream'[j]) < Place(stream'[k])
      BY <3>7, <3>9 DEF newP
    <3>3. \A j, k \in DOMAIN transit' : j < k => Place(transit'[j]) < Place(transit'[k])
      BY <3>7, <3>9 DEF newQ
    <3>4. \A j \in DOMAIN stream', k \in DOMAIN transit' : Place(stream'[j]) < Place(transit'[k])
      BY <3>7, <3>9 DEF newP, newQ
    <3>5. /\ \A j \in DOMAIN stream' : Place(buffer[1]) < Place(stream'[j]) /\ Place(stream'[j]) <= 2 * Len(sent) + 2
          /\ \A j \in DOMAIN transit' : Place(buffer[1]) < Place(transit'[j]) /\ Place(transit'[j]) <= 2 * Len(sent) + 2
      BY <3>7, <3>9 DEF newP, newQ
    <3>. QED BY <2>1, <3>2, <3>3, <3>4, <3>5 DEF OrderInv, HalvesInOrder, Place
  <2>4. stream' # <<>>
    BY <1>1, <2>1, <2>2
  <2>. QED BY <2>1, <2>3, <2>4 DEF OrderInv, NothingAhead, OneReportPerMessage, Fresh
<1>6. ASSUME CloseClient PROVE OrderInv'
  <2>1. UNCHANGED <<sent, stream, buffer, stored, pc, request>>
    BY <1>6 DEF CloseClient
  <2>2. transit' = transit \/ transit' = <<>>
    BY <1>6 DEF CloseClient
  <2>3. HalvesInOrder'
    BY <2>1, <2>2 DEF OrderInv, HalvesInOrder, Place
  <2>4. ~Eof
    BY <1>6 DEF CloseClient, Eof
  <2>. QED BY <2>1, <2>3, <2>4 DEF OrderInv, NothingAhead, OneReportPerMessage, Fresh
<1>7. ASSUME Recv PROVE OrderInv'
  <2>. DEFINE n == Smaller(Len(stream), BufferLen)
  <2>1. n \in Nat /\ 1 <= n /\ n <= Len(stream) /\ n <= BufferLen
    BY <1>1, <1>7 DEF Recv, Smaller
  <2>2. buffer' = Prefix(stream, n) \o Rest(buffer, n) /\ stream' = Rest(stream, n)
        /\ UNCHANGED <<sent, transit, stored, request, client>> /\ pc' = "recv"
    BY <1>7 DEF Recv
  <2>. HIDE DEF n
  <2>3. buffer'[1] = stream[1]
    <3>1. buffer \in Seq(Halves \cup {Junk}) /\ Len(buffer) = BufferLen
      BY <1>1
    <3>. QED BY <1>1, <2>1, <2>2, <3>1 DEF Prefix, Rest
  <2>4. /\ Len(stream') = Len(stream) - n /\ DOMAIN stream' = 1 .. Len(stream) - n
        /\ \A k \in 1 .. Len(stream) - n : stream'[k] = stream[k + n]
    BY <1>1, <2>1, <2>2 DEF Rest
  <2>5. DOMAIN stream = 1 .. Len(stream) /\ Len(stream) \in Nat
    BY <1>1
  <2>6. /\ \A j, k \in DOMAIN stream' : j < k => Place(stream'[j]) < Place(stream'[k])
        /\ \A j \in DOMAIN stream', k \in DOMAIN transit : Place(stream'[j]) < Place(transit[k])
        /\ \A j \in DOMAIN stream' : Place(stream[1]) < Place(stream'[j]) /\ Place(stream'[j]) <= 2 * Len(sent) + 2
    <3>. DEFINE P(k) == Place(stream[k])  Q(k) == Place(stream'[k])
    <3>1. /\ \A j, k \in 1 .. Len(stream) : j < k => P(j) < P(k)
          /\ \A j \in 1 .. Len(stream), k \in DOMAIN transit : P(j) < Place(transit[k])
          /\ \A j \in 1 .. Len(stream) : P(j) <= 2 * Len(sent) + 2
      BY <2>5 DEF OrderInv, HalvesInOrder
    <3>2. \A k \in DOMAIN stream' : k \in Nat /\ Q(k) = P(k + n) /\ k + n \in 1 .. Len(stream) /\ 1 < k + n
      BY <2>1, <2>4, <2>5
    <3>3. P(1) = Place(stream[1]) /\ 1 \in 1 .. Len(stream)
      BY <2>1, <2>5
    <3>. HIDE DEF P, Q
    <3>4. \A j, k \in DOMAIN stream' : j < k => Q(j) < Q(k)
      <4>. SUFFICES ASSUME NEW j \in DOMAIN stream', NEW k \in DOMAIN stream', j < k PROVE Q(j) < Q(k)
        OBVIOUS
      <4>1. j + n < k + n
        BY <2>1, <3>2
      <4>. QED BY <3>1, <3>2, <4>1
    <3>5. \A j \in DOMAIN stream', k \in DOMAIN transit : Q(j) < Place(transit[k])
      BY <3>1, <3>2
    <3>6. \A j \in DOMAIN stream' : Place(stream[1]) < Q(j) /\ Q(j) <= 2 * Len(sent) + 2
      BY <3>1, <3>2, <3>3
    <3>. QED BY <3>4, <3>5, <3>6 DEF Q
  <2>7. HalvesInOrder'
    <3>1. \A k \in DOMAIN transit : Place(stream[1]) < Place(transit[k]) /\ Place(transit[k]) <= 2 * Len(sent) + 2
      BY <2>1, <2>5 DEF OrderInv, HalvesInOrder
    <3>2. Place(stream[1]) <= 2 * Len(sent) + 2
      BY <2>1, <2>5 DEF OrderInv, HalvesInOrder
    <3>3. Place(buffer[1])' = Place(stream[1])
      BY <2>3 DEF Place
    <3>4. \A j, k \in DOMAIN transit : j < k => Place(transit[j]) < Place(transit[k])
      BY DEF OrderInv, HalvesInOrder
    <3>. QED BY <2>2, <2>6, <3>1, <3>2, <3>3, <3>4 DEF HalvesInOrder, Place
  <2>8. Fresh'
    <3>1. Place(buffer[1]) < Place(stream[1])
      BY <2>1, <2>5 DEF OrderInv, HalvesInOrder
    <3>2. Place(buffer[1]) \in Nat /\ Place(stream[1]) \in Nat
      BY <1>1, <1>2, <1>3, <2>1
    <3>3. \A j \in DOMAIN stored : Place(<<stored[j].message, 1>>) \in Nat
      BY <1>3a, <1>3b
    <3>. QED BY <2>2, <2>3, <3>1, <3>2, <3>3 DEF OrderInv, NothingAhead, Fresh, Place
  <2>9. NothingAhead'
    <3>1. \A j \in DOMAIN stored : Place(<<stored[j].message, 1>>) \in Nat
      BY <1>3a, <1>3b
    <3>2. Place(stream[1]) \in Nat
      BY <1>1, <1>2, <2>1
    <3>. QED BY <2>2, <2>3, <2>8, <3>1, <3>2 DEF Fresh, NothingAhead, Place
  <2>. QED BY <2>2, <2>7, <2>8, <2>9 DEF OrderInv, OneReportPerMessage
<1>8. ASSUME StoreReport PROVE OrderInv'
  <2>1. stored' = Append(stored, [report |-> request, message |-> buffer[1][1]]) /\ pc = "report" /\ pc' = "restore"
        /\ UNCHANGED <<sent, transit, stream, buffer, client>>
    BY <1>8 DEF StoreReport
  <2>2. /\ DOMAIN stored' = 1 .. Len(stored) + 1 /\ DOMAIN stored = 1 .. Len(stored) /\ Len(stored) \in Nat
        /\ stored'[Len(stored) + 1].message = buffer[1][1] /\ \A j \in 1 .. Len(stored) : stored'[j] = stored[j]
    BY <1>1, <2>1
  <2>3. \A j \in DOMAIN stored : stored[j].message \in Nat
    BY <1>3a
  <2>4. buffer[1][1] \in Nat /\ buffer[1][2] = 1
    BY <1>2, <1>3, <2>1 DEF OrderInv
  <2>5. \A j \in DOMAIN stored : stored[j].message < buffer[1][1]
    BY <2>1, <2>3, <2>4 DEF OrderInv, Fresh, Place
  <2>6. OneReportPerMessage'
    BY <2>2, <2>5 DEF OrderInv, OneReportPerMessage
  <2>7. NothingAhead'
    BY <2>1, <2>2, <2>3, <2>4 DEF OrderInv, NothingAhead, Place
  <2>. QED BY <2>1, <2>6, <2>7 DEF OrderInv, HalvesInOrder
<1>9. ASSUME ParseRequest \/ ParseMixed PROVE OrderInv'
  <2>1. UNCHANGED <<sent, transit, stream, buffer, stored, client>> /\ pc = "parse"
    BY <1>9 DEF ParseRequest, ParseMixed, StartRequest
  <2>2. pc' \in {"report", "query", "wrong"} /\ buffer[1][2] = 1
    <3>1. \A m \in 1 .. Len(sent) : sent[m] \in Kinds
      BY <1>1
    <3>2. \A m \in 1 .. Len(sent) : sent[m] \in {"report", "query", "wrong"}
      BY <3>1, HandlerAssumption
    <3>. QED BY <1>9, <3>2 DEF ParseRequest, ParseMixed, StartRequest, Parsed
  <2>. QED BY <2>1, <2>2, OrderKept
<1>10. ASSUME ReadAnswer \/ ResetByPeer \/ HangUp \/ SendDone \/ SendError \/ BrokenPipe \/ RestoreSlot \/ CloseConn
             \/ RecvEnd \/ RecvError \/ ParseFails \/ ReportFails \/ QueryDatabase \/ QueryFails
       PROVE  OrderInv'
  BY <1>10, OrderKept DEF ReadAnswer, ResetByPeer, HangUp, SendDone, SendError, BrokenPipe, RestoreSlot, CloseConn,
                          RecvEnd, RecvError, ParseFails, ReportFails, QueryDatabase, QueryFails
<1>11. ASSUME Dispatch \/ RecvWouldBlock PROVE OrderInv'
  BY <1>11, OrderKept DEF Dispatch, RecvWouldBlock
<1>12. ASSUME NEW n \in 1 .. AnswerLen, SendPieces(n) \/ SendTooLate(n) PROVE OrderInv'
  BY <1>12, OrderKept DEF SendPieces, SendTooLate
<1>. QED
  BY <1>4, <1>5, <1>6, <1>7, <1>8, <1>9, <1>10, <1>11, <1>12 DEF Next, ServerStep, NetworkStep, ClientStep

\* Whatever a task leaves in the buffer, and in whatever segments messages arrive, receiving a
\* message inserts at most one report, and reports are inserted in the order of the messages
\* whose receipt led to it.
THEOREM OneReportStoredPerMessage == Spec => []OneReportPerMessage
<1>1. TypeOK /\ OrderInv /\ [Next]_vars => OrderInv'
  <2>1. ASSUME TypeOK, OrderInv, UNCHANGED vars PROVE OrderInv'
    BY <2>1 DEF vars, clientVars, netVars, workerVars, dataVars, OrderInv, HalvesInOrder, NothingAhead,
                OneReportPerMessage, Fresh, Eof
  <2>. QED BY <2>1, OrderStep
<1>2. OrderInv => OneReportPerMessage
  BY DEF OrderInv
<1>. QED BY OrderInit, <1>1, <1>2, HandlerTypeCorrect, PTL DEF Spec
===============================================================================
