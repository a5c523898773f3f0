---------------------------- MODULE SearchEngine ----------------------------
(***************************************************************************)
(* The HTTP server of src/SearchEngine/src/SearchEngine/SearchEngine.cpp:  *)
(* one thread runs the handlers of an io_context one after the other, and  *)
(* the whole server has one socket_, one buffer_, one request_, one        *)
(* response_ and one deadline_, whichever connection is being served.      *)
(*                                                                         *)
(* Boost.Asio is external and modelled from the calls the code makes: an   *)
(* operation is in "pending" from its async_ call until it ends, and then  *)
(* its handler waits in the queue "ready" with the result.  Closing the    *)
(* socket ends the operations on it with an error; async_accept into a     *)
(* socket that is open ends at once with already_open; cancelling a timer  *)
(* does not take back a handler that is already queued.                    *)
(*                                                                         *)
(* A request is two pieces on the wire, "head" and "tail", so that it can  *)
(* be read in part.                                                        *)
(***************************************************************************)
EXTENDS Integers, Sequences, FiniteSets

CONSTANTS
  Client,        \* the connections that are ever made
  MaxRequests,   \* bound: how many requests one connection carries
  None           \* no connection

ASSUME ClientAssumption  == None \notin Client
ASSUME RequestAssumption == MaxRequests \in Nat

VARIABLES
  acceptorOpen, ioStopped,
  socket,        \* the connection socket_ holds, or None when it is closed
  pending,       \* the operations that have begun and not ended
  ready,         \* the handlers that can run, in order
  buffer,        \* buffer_: the pieces that were received and not parsed
  request,       \* request_: the connection its bytes came from, or None
  server,        \* the thread of SearchEngine::run
  main,          \* the thread that calls stop()
  backlog,       \* connections the operating system has not handed over yet
  client,        \* the state of each connection, seen from the other end
  stream,        \* the pieces a client has sent and the server has not read
  sent,          \* how many pieces it has sent
  answers,       \* how many answers it has got
  received,      \* history: whose requests were answered on a connection
  begunFor       \* history: the connection an operation was begun for

network == <<backlog, client, stream, sent, answers>>
history == <<received, begunFor>>
vars == <<acceptorOpen, ioStopped, socket, pending, ready, buffer, request,
          server, main, network, history>>

SocketOp == {"read", "write"}
Op == SocketOp \cup {"timer"}
Result == {"ok", "error"}
Handler == [op : Op \cup {"accept"}, result : Result, conn : Client \cup {None}]

Ended(op, result) == [op |-> op, result |-> result, conn |-> begunFor[op]]
Refused(op) == [op |-> op, result |-> "error", conn |-> socket]

\* The handlers of the pending operations in ops, which end with an error.
AbortedOne(op, ops) == IF op \in ops \cap pending THEN <<Ended(op, "error")>> ELSE <<>>
Aborted(ops) == AbortedOne("read", ops) \o AbortedOne("write", ops) \o AbortedOne("timer", ops)

-----------------------------------------------------------------------------
Init ==
  /\ acceptorOpen = TRUE /\ ioStopped = FALSE
  /\ socket = None
  /\ pending = {} /\ ready = <<>>
  /\ buffer = <<>> /\ request = None
  /\ server = "starting" /\ main = "up"
  /\ backlog = <<>>
  /\ client = [c \in Client |-> "away"]
  /\ stream = [c \in Client |-> <<>>]
  /\ sent = [c \in Client |-> 0] /\ answers = [c \in Client |-> 0]
  /\ received = [c \in Client |-> {}]
  /\ begunFor = [op \in Op |-> None]

-----------------------------------------------------------------------------
(* What the handlers are made of.                                          *)

\* doAccept, with socket_ holding s: the operation it leaves pending, and the
\* handler it queues at once.
AcceptMore(s)    == IF acceptorOpen THEN {"accept"} ELSE {}    \* mutant: into any socket
AcceptPends(s)   == IF acceptorOpen /\ s = None THEN {"accept"} ELSE {}
AcceptRefused(s) == IF acceptorOpen /\ s # None
                      THEN <<[op |-> "accept", result |-> "error", conn |-> s]>>
                      ELSE <<>>

\* The first request in buffer_ is complete; what comes first can never become
\* one, because it was sent on two connections.
Whole(b)     == Len(b) >= 2 /\ b[1].part = "head" /\ b[2].part = "tail" /\ b[1].from = b[2].from
Malformed(b) == b # <<>> /\ (b[1].part = "tail" \/ (Len(b) >= 2 /\ ~Whole(b)))

\* readRequest, with socket_ holding s: what is in buffer_ already is parsed
\* before anything is read from the socket.
ReadRequest(s) ==
  IF Whole(buffer)
    THEN buffer' = SubSeq(buffer, 3, Len(buffer)) /\ request' = buffer[1].from
    ELSE request' = None /\ UNCHANGED buffer
ReadPends(s) == IF ~Whole(buffer) /\ ~Malformed(buffer) /\ s # None THEN {"read"} ELSE {}
ReadEnded(s) ==
  IF Whole(buffer) THEN <<[op |-> "read", result |-> "ok", conn |-> s]>>
  ELSE IF Malformed(buffer) \/ s = None THEN <<[op |-> "read", result |-> "error", conn |-> s]>>
  ELSE <<>>

\* socket_.close(), seen from the other end.
Drop(c) ==
  client' = IF c # None /\ client[c] = "open" THEN [client EXCEPT ![c] = "dropped"] ELSE client

-----------------------------------------------------------------------------
(* The handlers.                                                           *)

\* The reads and writes that are using socket_, buffer_, request_ and response_.
Active == Cardinality(pending \cap SocketOp)
          + Cardinality({i \in 1..Len(ready) : ready[i].op \in SocketOp /\ ready[i].result = "ok"})

\* Two of them at a time is undefined behaviour: there the model ends.
Running == server = "running" /\ ~ioStopped /\ Active <= 1
Run(op, result) ==
  /\ Running /\ ready # <<>>
  /\ Head(ready).op = op /\ Head(ready).result = result

\* SearchEngine::run calls doAccept and then runs the handlers.
StartServer ==
  /\ server = "starting"
  /\ server' = "running"
  /\ pending' = pending \cup AcceptPends(socket)
  /\ UNCHANGED <<acceptorOpen, ioStopped, socket, ready, buffer, request,
                 main, network, history>>

\* checkDeadline leaves a timer running.
NoDeadline == {}    \* mutant: it is not called
CheckDeadline == {"timer"}

\* A new connection: readRequest, checkDeadline, doAccept.
OnAccept ==
  /\ Run("accept", "ok")
  /\ LET c == Head(ready).conn
     IN  /\ socket' = c
         /\ ReadRequest(c)
         /\ begunFor' = [begunFor EXCEPT !["read"] = c, !["timer"] = c]
         /\ pending' = pending \cup ReadPends(c) \cup CheckDeadline
         /\ ready' = Tail(ready) \o ReadEnded(c) \o Aborted({"timer"}) \o AcceptRefused(c)
  /\ UNCHANGED <<acceptorOpen, ioStopped, server, main, network, received>>

\* Mutant: after an error the handler does not call doAccept.
OnAcceptErrorReturns ==
  /\ Run("accept", "error")
  /\ ready' = Tail(ready)
  /\ UNCHANGED <<acceptorOpen, ioStopped, socket, pending, buffer, request,
                 server, main, network, history>>

\* The accept was refused or aborted: the handler calls doAccept again.
OnAcceptError ==
  /\ Run("accept", "error")
  /\ pending' = pending \cup AcceptPends(socket)
  /\ ready' = Tail(ready) \o AcceptRefused(socket)
  /\ UNCHANGED <<acceptorOpen, ioStopped, socket, buffer, request, server,
                 main, network, history>>

\* Mutant: the next request is read while the response is being written.
ProcessRequestReadOn ==
  /\ begunFor' = [begunFor EXCEPT !["write"] = socket, !["read"] = socket]
  /\ IF socket = None
       THEN ready' = Append(Tail(ready), Refused("write")) /\ UNCHANGED pending
       ELSE ready' = Tail(ready) /\ pending' = pending \cup {"read", "write"}

\* processRequest ends in one writeResponse on every path, the error ones
\* included; on a closed socket the write fails at once.
ProcessRequest ==
  /\ begunFor' = [begunFor EXCEPT !["write"] = socket]
  /\ IF socket = None
       THEN ready' = Append(Tail(ready), Refused("write")) /\ UNCHANGED pending
       ELSE ready' = Tail(ready) /\ pending' = pending \cup {"write"}

OnRead ==
  /\ Run("read", "ok")
  /\ ProcessRequest
  /\ UNCHANGED <<acceptorOpen, ioStopped, socket, buffer, request, server,
                 main, network, received>>

\* An error of a read is logged and nothing else.
OnReadError ==
  /\ Run("read", "error")
  /\ ready' = Tail(ready)
  /\ UNCHANGED <<acceptorOpen, ioStopped, socket, pending, buffer, request,
                 server, main, network, history>>

\* The response is out: read the next request, cancel the deadline.
OnWrite ==
  /\ Run("write", "ok")
  /\ ReadRequest(socket)
  /\ begunFor' = [begunFor EXCEPT !["read"] = socket]
  /\ pending' = (pending \ {"timer"}) \cup ReadPends(socket)
  /\ ready' = Tail(ready) \o ReadEnded(socket) \o Aborted({"timer"})
  /\ UNCHANGED <<acceptorOpen, ioStopped, socket, server, main, network, received>>

\* What the handler of a failed write ends: the operations on socket_, which
\* it closes, and the deadline.
SocketOnly == SocketOp    \* mutant: the deadline is not cancelled
EndedByWriteError == Op

OnWriteError ==
  /\ Run("write", "error")
  /\ socket' = None /\ Drop(socket)
  /\ pending' = pending \ EndedByWriteError
  /\ ready' = Tail(ready) \o Aborted(EndedByWriteError)
  /\ UNCHANGED <<acceptorOpen, ioStopped, buffer, request, server, main,
                 backlog, stream, sent, answers, history>>

\* The deadline has passed: whatever socket_ holds is closed.
OnDeadline ==
  /\ Run("timer", "ok")
  /\ socket' = None /\ Drop(socket)
  /\ pending' = pending \ SocketOp
  /\ ready' = Tail(ready) \o Aborted(SocketOp)
  /\ UNCHANGED <<acceptorOpen, ioStopped, buffer, request, server, main,
                 backlog, stream, sent, answers, history>>

OnDeadlineCancelled ==
  /\ Run("timer", "error")
  /\ ready' = Tail(ready)
  /\ UNCHANGED <<acceptorOpen, ioStopped, socket, pending, buffer, request,
                 server, main, network, history>>

Handle ==
  \/ OnAccept \/ OnAcceptError \/ OnRead \/ OnReadError \/ OnWrite
  \/ OnWriteError \/ OnDeadline \/ OnDeadlineCancelled

\* io_context::run returns when it is stopped or has nothing left to do.
ServerReturns ==
  /\ server = "running"
  /\ ioStopped \/ (pending = {} /\ ready = <<>>)
  /\ server' = "returned"
  /\ UNCHANGED <<acceptorOpen, ioStopped, socket, pending, ready, buffer,
                 request, main, network, history>>

-----------------------------------------------------------------------------
(* SearchEngine::stop, on the main thread.                                 *)

CloseAcceptor ==
  /\ main = "up" /\ acceptorOpen
  /\ acceptorOpen' = FALSE
  /\ pending' = pending \ {"accept"}
  /\ ready' = ready \o (IF "accept" \in pending
                          THEN <<[op |-> "accept", result |-> "error", conn |-> None]>>
                          ELSE <<>>)
  /\ main' = "stopping"
  /\ UNCHANGED <<ioStopped, socket, buffer, request, server, network, history>>

\* Mutant: io_context::stop is forgotten.
StopContextForgotten ==
  /\ main = "stopping"
  /\ main' = "joining"
  /\ UNCHANGED <<acceptorOpen, ioStopped, socket, pending, ready, buffer,
                 request, server, network, history>>

StopContext ==
  /\ main = "stopping"
  /\ ioStopped' = TRUE
  /\ main' = "joining"
  /\ UNCHANGED <<acceptorOpen, socket, pending, ready, buffer, request,
                 server, network, history>>

-----------------------------------------------------------------------------
(* The operating system and the other ends.                                *)

\* While the process listens, a connection is made without its help.
Connect(c) ==
  /\ client[c] = "away" /\ acceptorOpen
  /\ client' = [client EXCEPT ![c] = "queued"]
  /\ backlog' = Append(backlog, c)
  /\ UNCHANGED <<acceptorOpen, ioStopped, socket, pending, ready, buffer,
                 request, server, main, stream, sent, answers, history>>

\* A client sends the next piece of a request, and waits for the answer before
\* it begins another request.
Send(c) ==
  /\ client[c] \in {"queued", "open"}
  /\ sent[c] < 2 * MaxRequests
  /\ sent[c] < 2 * (answers[c] + 1)
  /\ sent' = [sent EXCEPT ![c] = @ + 1]
  /\ stream' = [stream EXCEPT ![c] =
       Append(@, [from |-> c, part |-> IF sent[c] % 2 = 0 THEN "head" ELSE "tail"])]
  /\ UNCHANGED <<acceptorOpen, ioStopped, socket, pending, ready, buffer,
                 request, server, main, backlog, client, answers, history>>

Leave(c) ==
  /\ client[c] = "open"
  /\ client' = [client EXCEPT ![c] = "left"]
  /\ UNCHANGED <<acceptorOpen, ioStopped, socket, pending, ready, buffer,
                 request, server, main, backlog, stream, sent, answers, history>>

AcceptEnds ==
  /\ "accept" \in pending /\ backlog # <<>>
  /\ pending' = pending \ {"accept"}
  /\ ready' = Append(ready, [op |-> "accept", result |-> "ok", conn |-> Head(backlog)])
  /\ backlog' = Tail(backlog)
  /\ client' = [client EXCEPT ![Head(backlog)] = "open"]
  /\ UNCHANGED <<acceptorOpen, ioStopped, socket, buffer, request, server,
                 main, stream, sent, answers, history>>

\* Some of what was sent arrives; the read ends when it completes a request or
\* cannot be one.
Receive ==
  /\ "read" \in pending /\ stream[socket] # <<>>
  /\ \E n \in 1..Len(stream[socket]) :
       LET b == buffer \o SubSeq(stream[socket], 1, n)
       IN  /\ stream' = [stream EXCEPT ![socket] = SubSeq(@, n + 1, Len(@))]
           /\ IF Whole(b)
                THEN /\ buffer' = SubSeq(b, 3, Len(b)) /\ request' = b[1].from
                     /\ pending' = pending \ {"read"}
                     /\ ready' = Append(ready, Ended("read", "ok"))
                ELSE /\ UNCHANGED request
                     /\ IF Malformed(b)
                          THEN /\ buffer' \in {b, Tail(b)}
                               /\ pending' = pending \ {"read"}
                               /\ ready' = Append(ready, Ended("read", "error"))
                          ELSE buffer' = b /\ UNCHANGED <<pending, ready>>
  /\ UNCHANGED <<acceptorOpen, ioStopped, socket, server, main, backlog,
                 client, sent, answers, history>>

\* The other end has closed the connection.
EndOfStream ==
  /\ "read" \in pending /\ stream[socket] = <<>> /\ client[socket] = "left"
  /\ pending' = pending \ {"read"}
  /\ ready' = Append(ready, Ended("read", "error"))
  /\ UNCHANGED <<acceptorOpen, ioStopped, socket, buffer, request, server,
                 main, network, history>>

\* The response has been sent: it answers the request in request_.
WriteEnds ==
  /\ "write" \in pending
  /\ pending' = pending \ {"write"}
  /\ ready' = Append(ready, Ended("write", "ok"))
  /\ received' = [received EXCEPT ![socket] = @ \cup {request}]
  /\ answers' = [answers EXCEPT ![socket] = @ + 1]
  /\ UNCHANGED <<acceptorOpen, ioStopped, socket, buffer, request, server,
                 main, backlog, client, stream, sent, begunFor>>

WriteFails ==
  /\ "write" \in pending /\ client[socket] = "left"
  /\ pending' = pending \ {"write"}
  /\ ready' = Append(ready, Ended("write", "error"))
  /\ UNCHANGED <<acceptorOpen, ioStopped, socket, buffer, request, server,
                 main, network, history>>

\* Five seconds pass.
DeadlinePasses ==
  /\ "timer" \in pending
  /\ pending' = pending \ {"timer"}
  /\ ready' = Append(ready, Ended("timer", "ok"))
  /\ UNCHANGED <<acceptorOpen, ioStopped, socket, buffer, request, server,
                 main, network, history>>

-----------------------------------------------------------------------------
Kernel == AcceptEnds \/ Receive \/ EndOfStream \/ WriteFails
Stop == CloseAcceptor \/ StopContext

Next ==
  \/ StartServer \/ Handle \/ ServerReturns \/ Stop
  \/ Kernel \/ WriteEnds \/ DeadlinePasses
  \/ \E c \in Client : Connect(c) \/ Send(c) \/ Leave(c)

Spec == Init /\ [][Next]_vars

\* The io thread runs while it has something to do, time passes, connections
\* and the end of a connection are noticed, stop() goes on once it has begun.
Fairness ==
  /\ WF_vars(StartServer) /\ WF_vars(Handle) /\ WF_vars(ServerReturns)
  /\ WF_vars(StopContext)
  /\ WF_vars(AcceptEnds) /\ WF_vars(EndOfStream) /\ WF_vars(WriteFails)
  /\ WF_vars(DeadlinePasses)

FairSpec == Spec /\ Fairness

\* Besides, no client stays on a connection for ever.
LeavingSpec == FairSpec /\ \A c \in Client : WF_vars(Leave(c))

-----------------------------------------------------------------------------
Piece == [from : Client, part : {"head", "tail"}]

\* Every variable has its type; reads, writes and the deadline are only pending
\* while there is a connection.
TypeOK ==
  /\ acceptorOpen \in BOOLEAN /\ ioStopped \in BOOLEAN
  /\ socket \in Client \cup {None}
  /\ pending \subseteq Op \cup {"accept"}
  /\ ready \in Seq(Handler)
  /\ buffer \in Seq(Piece) /\ request \in Client \cup {None}
  /\ server \in {"starting", "running", "returned"}
  /\ main \in {"up", "stopping", "joining"}
  /\ backlog \in Seq(Client)
  /\ client \in [Client -> {"away", "queued", "open", "dropped", "left"}]
  /\ stream \in [Client -> Seq(Piece)]
  /\ sent \in [Client -> 0..2 * MaxRequests] /\ answers \in [Client -> Nat]
  /\ received \in [Client -> SUBSET (Client \cup {None})]
  /\ begunFor \in [Op -> Client \cup {None}]
  /\ pending \cap Op # {} => socket # None

Queued(op) == {i \in 1..Len(ready) : ready[i].op = op}

\* While the server runs and listens there is exactly one accept on its way:
\* it never accepts two connections into one socket_ and never goes deaf.
OneAccept ==
  Running /\ acceptorOpen =>
    Cardinality(Queued("accept")) + Cardinality(pending \cap {"accept"}) = 1

\* A deadline that has passed closes the connection it was set for, or none:
\* cancelling it too late never costs the next client its connection.
DeadlineOwn ==
  Running /\ ready # <<>> /\ Head(ready).op = "timer" /\ Head(ready).result = "ok"
    => socket \in {None, Head(ready).conn}

\* The one socket_, buffer_ and request_ serve one operation at a time.
OneOperation == Active <= 1

\* A failed write closes the connection it was begun for, or none.
WriteErrorOwn ==
  Running /\ ready # <<>> /\ Head(ready).op = "write" /\ Head(ready).result = "error"
    => socket \in {None, Head(ready).conn}

\* README.md:74 - a POST is answered with the results of that request: what a
\* client gets was asked for on its own connection, although request_, response_
\* and buffer_ are those of the connections before it - unless some other
\* connection was read to the middle of a request: buffer_ keeps its beginning.
Interrupted(c) == (sent[c] - Len(stream[c])) % 2 = 1

AnswersOwnRequest ==
  \A c \in Client : received[c] \subseteq {c} \/ \E d \in Client \ {c} : Interrupted(d)

\* README.md:70 - the server takes requests: a client that has connected is
\* accepted, as long as nobody stops the server.
ClientsAccepted ==
  \A c \in Client : client[c] = "queued" ~> (client[c] # "queued" \/ main # "up")

\* A connection that gets no answer does not occupy the server for ever.
SilentDropped ==
  \A c \in Client : socket = c /\ received[c] = {}
                      ~> (socket # c \/ received[c] # {} \/ main # "up")

\* stop() ends the io thread, whatever is pending or queued, so that the main
\* thread can join it.
StopReturns == main # "up" ~> server = "returned"
=============================================================================
