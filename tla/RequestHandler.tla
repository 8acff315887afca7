---------------------------- MODULE RequestHandler ----------------------------
(***************************************************************************)
(* One connection through doWork of Server/logic.c: how messages arrive,   *)
(* what recv leaves in the buffer, what the request does to the database,  *)
(* how an answer is sent piece by piece, and what a task leaves behind.    *)
(*                                                                         *)
(* The poll loop is reduced to the slot of the connection and the pool to  *)
(* one thread, whose stack keeps buffer from one task to the next;         *)
(* PollServer models what goes wrong when there are more of each.  A       *)
(* message is two halves, which is as much as can tell apart messages that *)
(* arrive whole, joined or in pieces.  The client is any program that      *)
(* speaks the protocol.                                                    *)
(***************************************************************************)
EXTENDS Naturals, Sequences

CONSTANTS
  Kinds,         (* the kinds of message clients send                      *)
  MaxMessages,   (* bound: messages a client sends on the connection       *)
  BufferLen,     (* the halves that fit in buffer                          *)
  AnswerLen,     (* the pieces of an answer, the newline included          *)
  Room,          (* the pieces the connection holds until the client reads *)
  AllowSplit,    (* whether a message may arrive in two parts              *)
  AllowClose     (* whether the client may close the connection            *)

ASSUME HandlerAssumption ==
  /\ Kinds \subseteq {"report", "query", "wrong"}
  /\ MaxMessages \in Nat
  /\ BufferLen \in Nat /\ BufferLen >= 2
  /\ AnswerLen \in Nat \ {0} /\ Room \in Nat \ {0}
  /\ AllowSplit \in BOOLEAN /\ AllowClose \in BOOLEAN

VARIABLES
  \* the client and the network
  sent,       (* the kinds of the messages sent                            *)
  transit,    (* halves that have not arrived                              *)
  stream,     (* halves in the receive queue of the server                 *)
  client,     (* "open" or "closed"                                        *)
  reset,      (* "no", or the state of the connection when it was reset    *)
  wire,       (* pieces of answers the client has not read                 *)
  got,        (* pieces it has read                                        *)
  \* the server
  slot,       (* "polled", "parked" while a task runs, "unused"            *)
  pc, buffer, request,
  offset,     (* the pieces of the answer that have been sent              *)
  late,       (* something was sent after the client had closed            *)
  \* the database and what tasks leave behind
  stored,     (* the reports in the database, each with the message whose
                 receipt led to its insertion                              *)
  held        (* what has been allocated or opened and not released        *)

clientVars == <<sent, client, got>>
netVars == <<transit, stream, reset>>
workerVars == <<pc, buffer, request, offset, late>>
dataVars == <<stored, held>>
vars == <<clientVars, netVars, wire, slot, workerVars, dataVars>>

Messages == 1 .. MaxMessages
Junk == <<0, 0>>
Mixed == 0     (* a request that none of the clients' messages is *)

Init ==
  /\ sent = <<>> /\ transit = <<>> /\ stream = <<>>
  /\ client = "open" /\ reset = "no" /\ wire = <<>> /\ got = <<>>
  /\ slot = "polled"
  /\ pc = "idle" /\ buffer = [k \in 1 .. BufferLen |-> Junk]
  /\ request = 0 /\ offset = 0 /\ late = FALSE
  /\ stored = <<>> /\ held = {}

Prefix(s, n) == SubSeq(s, 1, n)
Rest(s, n) == SubSeq(s, n + 1, Len(s))
Smaller(a, b) == IF a < b THEN a ELSE b

-------------------------------------------------------------------------------
(* The client and the network *)

(* What a client sends once the server has closed the connection is left out. *)
Send(kind) ==
  /\ client = "open" /\ slot # "unused" /\ Len(sent) < MaxMessages
  /\ sent' = Append(sent, kind)
  /\ transit' = transit \o << <<Len(sent'), 1>>, <<Len(sent'), 2>> >>
  /\ UNCHANGED <<client, got, stream, reset, wire, slot, workerVars, dataVars>>

(* TCP delivers bytes in order, in segments of any length. *)
Arrive(n) ==
  /\ reset = "no" /\ slot # "unused" /\ n <= Len(transit)
  /\ AllowSplit \/ transit[n][2] = 2
  /\ stream' = stream \o Prefix(transit, n)
  /\ transit' = Rest(transit, n)
  /\ UNCHANGED <<clientVars, reset, wire, slot, workerVars, dataVars>>

(* The end of the stream arrives behind everything that was sent. *)
Eof == client = "closed" /\ transit = <<>> /\ stream = <<>>

ReadAnswer ==
  /\ client = "open" /\ wire # <<>>
  /\ got' = got \o wire
  /\ wire' = <<>>
  /\ UNCHANGED <<sent, client, netVars, slot, workerVars, dataVars>>

(* A client that closes with something unread resets the connection. *)
CloseClient ==
  /\ AllowClose /\ client = "open"
  /\ client' = "closed"
  /\ wire' = <<>>
  /\ IF wire = <<>> THEN UNCHANGED <<transit, reset>>
                    ELSE reset' = "established" /\ transit' = <<>>
  /\ UNCHANGED <<sent, got, stream, slot, workerVars, dataVars>>

(* What is sent to a closed client is answered with a reset. *)
ResetByPeer ==
  /\ late /\ transit = <<>> /\ reset = "no"
  /\ reset' = "closing"
  /\ UNCHANGED <<clientVars, transit, stream, wire, slot, workerVars, dataVars>>

-------------------------------------------------------------------------------
(* The poll loop *)

Dispatch ==
  /\ pc = "idle" /\ slot = "polled" /\ reset = "no"
  /\ stream # <<>> \/ Eof
  /\ slot' = "parked" /\ pc' = "recv"
  /\ UNCHANGED <<clientVars, netVars, wire, buffer, request, offset, late,
                 dataVars>>

(* POLLHUP: the connection is closed without a task. *)
HangUp ==
  /\ pc = "idle" /\ slot = "polled" /\ reset # "no"
  /\ slot' = "unused"
  /\ UNCHANGED <<clientVars, netVars, wire, workerVars, dataVars>>

-------------------------------------------------------------------------------
(* doWork: the recv loop *)

At(from, to) == pc = from /\ pc' = to

(* Every recv writes from the start of buffer. *)
Recv ==
  /\ At("recv", "recv") /\ stream # <<>>
  /\ LET n == Smaller(Len(stream), BufferLen) IN
       /\ buffer' = Prefix(stream, n) \o Rest(buffer, n)
       /\ stream' = Rest(stream, n)
  /\ UNCHANGED <<clientVars, transit, reset, wire, slot, request, offset, late,
                 dataVars>>

(* Mutant of RecvEnd: what was read before the end is parsed. *)
RecvEndParses ==
  /\ At("recv", "parse") /\ Eof /\ reset = "no"
  /\ UNCHANGED <<clientVars, netVars, wire, slot, buffer, request, offset, late,
                 dataVars>>

(* recv returns 0: what was read before is dropped. *)
RecvEnd ==
  /\ At("recv", "close") /\ Eof /\ reset = "no"
  /\ UNCHANGED <<clientVars, netVars, wire, slot, buffer, request, offset, late,
                 dataVars>>

RecvError ==
  /\ At("recv", "close") /\ stream = <<>> /\ reset # "no"
  /\ UNCHANGED <<clientVars, netVars, wire, slot, buffer, request, offset, late,
                 dataVars>>

(* EWOULDBLOCK: there is nothing more to read. *)
RecvWouldBlock ==
  /\ At("recv", "parse") /\ stream = <<>> /\ ~Eof /\ reset = "no"
  /\ UNCHANGED <<clientVars, netVars, wire, slot, buffer, request, offset, late,
                 dataVars>>

-------------------------------------------------------------------------------
(* doWork: the request *)

(* The message at the start of the buffer; what follows it is not looked at. *)
Parsed(m) == buffer[1] = <<m, 1>> /\ buffer[2] = <<m, 2>>

Holding(things) == held' = held \cup {<<thing, request'>> : thing \in things}

(* The parsed JSON stays allocated: the cleanup at the end of doWork deletes a
   pointer only if it is NULL.                                                *)
StartRequest(m, kind) ==
  /\ request' = m
  /\ pc' = kind
  /\ Holding({"json"})
  /\ UNCHANGED <<clientVars, netVars, wire, slot, buffer, offset, late, stored>>

ParseRequest ==
  \E m \in 1 .. Len(sent) :
    /\ pc = "parse" /\ Parsed(m) /\ sent[m] # "wrong"
    /\ StartRequest(m, sent[m])

(* The first part of one message over what an earlier one left: not JSON
   (ParseFails), or JSON again.  If the messages start alike up to the cut it is
   the earlier message once more, if they end alike it is the new one before all
   of it has arrived, and otherwise it may be neither.                        *)
ParseMixed ==
  \E m, n \in 1 .. Len(sent) :
    /\ pc = "parse" /\ m # n /\ buffer[1] = <<m, 1>> /\ buffer[2] = <<n, 2>>
    /\ \E kind \in {sent[m], sent[n]} \ {"wrong"} :
         \/ StartRequest(Mixed, kind)
         \/ \E r \in {m, n} : sent[r] = kind /\ StartRequest(r, kind)

(* No JSON, or JSON with no action, an unknown one or a missing field. *)
ParseFails ==
  /\ At("parse", "close")
  /\ \A m \in 1 .. Len(sent) : Parsed(m) => sent[m] = "wrong"
  /\ held' \in {held, held \cup {<<"json", Mixed>>}}
  /\ UNCHANGED <<clientVars, netVars, wire, slot, buffer, request, offset, late,
                 stored>>

(* The insertion; the statement is never closed. *)
StoreReport ==
  /\ At("report", "restore")
  /\ stored' = Append(stored, [report |-> request, message |-> buffer[1][1]])
  /\ held' = held \cup {<<"statement", request>>}
  /\ UNCHANGED <<clientVars, netVars, wire, slot, buffer, request, offset, late>>

(* reportPothole returns 0, which doWork does not look at: connecting or
   preparing fails, and the connection is not closed, or executing fails.     *)
ReportFails ==
  /\ At("report", "restore")
  /\ \E things \in {{}, {"mysql"}, {"mysql", "statement"}, {"statement"}} :
       held' = held \cup {<<thing, request>> : thing \in things}
  /\ UNCHANGED <<clientVars, netVars, wire, slot, buffer, request, offset, late,
                 stored>>

QueryDatabase ==
  /\ At("query", "send")
  /\ offset' = 0
  /\ held' = held \cup {<<"answer", request>>}
  /\ UNCHANGED <<clientVars, netVars, wire, slot, buffer, request, late, stored>>

(* NULL, with the connection to the database closed or not. *)
QueryFails ==
  /\ At("query", "close")
  /\ \E things \in {{}, {"mysql", "statement"}} :
       held' = held \cup {<<thing, request>> : thing \in things}
  /\ UNCHANGED <<clientVars, netVars, wire, slot, buffer, request, offset, late,
                 stored>>

-------------------------------------------------------------------------------
(* doWork: the send loop *)

Piece(k) == <<request, k>>

(* Mutants of SendPieces: json_message is not advanced; send is called for the
   whole answer every time.                                                   *)
SendFromStart(n) ==
  /\ pc = "send" /\ reset = "no" /\ client = "open"
  /\ n <= AnswerLen - offset /\ Len(wire) + n <= Room
  /\ offset' = offset + n
  /\ wire' = wire \o [k \in 1 .. n |-> Piece(k)]
  /\ UNCHANGED <<clientVars, netVars, slot, pc, buffer, request, late, dataVars>>
SendAllAgain(n) ==
  /\ pc = "send" /\ reset = "no" /\ client = "open"
  /\ n <= AnswerLen /\ offset < AnswerLen /\ Len(wire) + n <= Room
  /\ offset' = offset + n
  /\ wire' = wire \o [k \in 1 .. n |-> Piece(offset + k)]
  /\ UNCHANGED <<clientVars, netVars, slot, pc, buffer, request, late, dataVars>>

(* send takes as many pieces as there is room for, or fewer; without room it
   returns EWOULDBLOCK and is called again at once.                           *)
SendPieces(n) ==
  /\ pc = "send" /\ reset = "no" /\ client = "open"
  /\ n <= AnswerLen - offset /\ Len(wire) + n <= Room
  /\ offset' = offset + n
  /\ wire' = wire \o [k \in 1 .. n |-> Piece(offset + k)]
  /\ UNCHANGED <<clientVars, netVars, slot, pc, buffer, request, late, dataVars>>

(* The server's kernel does not know yet that nobody will read. *)
SendTooLate(n) ==
  /\ pc = "send" /\ reset = "no" /\ client = "closed"
  /\ n <= AnswerLen - offset /\ n <= Room
  /\ offset' = offset + n
  /\ late' = TRUE
  /\ UNCHANGED <<clientVars, netVars, wire, slot, pc, buffer, request, dataVars>>

(* Mutant of SendDone: the loop runs while bytes_remaining >= 0. *)
SendPastEnd ==
  /\ At("send", "restore") /\ offset > AnswerLen
  /\ UNCHANGED <<clientVars, netVars, wire, slot, buffer, request, offset, late,
                 dataVars>>

SendDone ==
  /\ At("send", "restore") /\ offset = AnswerLen
  /\ UNCHANGED <<clientVars, netVars, wire, slot, buffer, request, offset, late,
                 dataVars>>

(* ECONNRESET. *)
SendError ==
  /\ At("send", "close") /\ offset < AnswerLen /\ reset = "established"
  /\ UNCHANGED <<clientVars, netVars, wire, slot, buffer, request, offset, late,
                 dataVars>>

(* A connection that was reset after the client's end of it was closed: send
   raises SIGPIPE, which nothing handles.                                     *)
BrokenPipe ==
  /\ At("send", "killed") /\ offset < AnswerLen /\ reset = "closing"
  /\ UNCHANGED <<clientVars, netVars, wire, slot, buffer, request, offset, late,
                 dataVars>>

-------------------------------------------------------------------------------
(* doWork: the end.  The cleanup frees nothing. *)

RestoreSlot ==
  /\ At("restore", "idle")
  /\ slot' = "polled"
  /\ UNCHANGED <<clientVars, netVars, wire, buffer, request, offset, late,
                 dataVars>>

CloseConn ==
  /\ At("close", "idle")
  /\ slot' = "unused"
  /\ UNCHANGED <<clientVars, netVars, wire, buffer, request, offset, late,
                 dataVars>>

-------------------------------------------------------------------------------

ServerStep ==
  \/ Dispatch \/ HangUp \/ Recv \/ RecvEnd \/ RecvError \/ RecvWouldBlock
  \/ ParseRequest \/ ParseMixed \/ ParseFails \/ StoreReport \/ ReportFails
  \/ QueryDatabase \/ QueryFails
  \/ \E n \in 1 .. AnswerLen : SendPieces(n) \/ SendTooLate(n)
  \/ SendDone \/ SendError \/ BrokenPipe \/ RestoreSlot \/ CloseConn

NetworkStep ==
  \/ \E n \in 1 .. 2 * MaxMessages : Arrive(n)
  \/ ResetByPeer

ClientStep == (\E kind \in Kinds : Send(kind)) \/ CloseClient

Next == ServerStep \/ NetworkStep \/ ReadAnswer \/ ClientStep

Spec == Init /\ [][Next]_vars

(* The server's threads run, TCP delivers, and a client that has not closed
   reads what it is sent, as the app does until it has a line.                *)
FairSpec ==
  Spec /\ WF_vars(ServerStep) /\ WF_vars(NetworkStep) /\ WF_vars(ReadAnswer)

-------------------------------------------------------------------------------
(* Properties *)

PCs == {"idle", "recv", "parse", "report", "query", "send", "restore", "close",
        "killed"}
Things == {"json", "answer", "mysql", "statement"}
Halves == Messages \X {1, 2}
Pieces == (Messages \cup {Mixed}) \X (1 .. AnswerLen)

(* Every variable has its type; not more than the answer is ever sent, and a
   task runs exactly while the slot is parked or the process has been killed. *)
TypeOK ==
  /\ sent \in Seq(Kinds) /\ Len(sent) <= MaxMessages
  /\ transit \in Seq(Halves) /\ stream \in Seq(Halves)
  /\ client \in {"open", "closed"} /\ reset \in {"no", "established", "closing"}
  /\ wire \in Seq(Pieces) /\ Len(wire) <= Room /\ got \in Seq(Pieces)
  /\ slot \in {"polled", "parked", "unused"}
  /\ pc \in PCs /\ (slot = "parked" <=> pc # "idle")
  /\ buffer \in [1 .. BufferLen -> Halves \cup {Junk}]
  /\ request \in Messages \cup {Mixed} /\ offset \in 0 .. AnswerLen
  /\ late \in BOOLEAN
  /\ stored \in Seq([report : Messages \cup {Mixed}, message : Messages \cup {Mixed}])
  /\ held \subseteq Things \X (Messages \cup {Mixed})

(* However messages are joined and cut, and although buffer keeps old ones from
   task to task, receiving a message inserts at most one report, and reports are
   inserted in the order of the messages that led to it.  The report need not be
   the one received: a message that is cut may let the one before it be parsed and
   inserted again, since EWOULDBLOCK does not say that a message is whole.      *)
OneReportPerMessage ==
  \A j, k \in DOMAIN stored : j < k => stored[j].message < stored[k].message

(* However an answer is cut up by send, and wherever the send loop has to start
   again, a client reads whole answers one after the other.                   *)
AnswersWhole ==
  LET all == got \o wire
      last == Len(all)
  IN  /\ \A k \in 1 .. last :
           IF k = 1 \/ all[k - 1][2] = AnswerLen THEN all[k][2] = 1
           ELSE all[k] = <<all[k - 1][1], all[k - 1][2] + 1>>
      /\ client = "open" /\ pc # "send" /\ last > 0 => all[last][2] = AnswerLen

(* A task ends: the slot is polled again, or the connection is closed, or the
   process ends.  The send loop spins until then, so this needs a client that
   reads or goes away.                                                        *)
TaskEnds == slot = "parked" ~> (slot # "parked" \/ pc = "killed")

===============================================================================
