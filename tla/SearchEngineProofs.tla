------------------------- MODULE SearchEngineProofs -------------------------
(***************************************************************************)
(* SearchEngine, for every number of connections and requests: its accept  *)
(* and its deadline, and from the second part on what it reads and         *)
(* answers.  What makes the first two right is the order of the handlers   *)
(* in the queue, so their inductive invariant is about that order.         *)
(***************************************************************************)
EXTENDS SearchEngine, FiniteSetTheorems, TLAPS

OkTimer(h)  == h.op = "timer" /\ h.result = "ok"
OkAccept(h) == h.op = "accept" /\ h.result = "ok"

\* What may stand in queue q while the operations of p are pending and socket_
\* holds s: one accept at most, and that into a closed socket_; no deadline that
\* is set again, or meant for another connection, or behind a new connection.
InOrder(q, p, s) ==
  /\ \A i, j \in 1..Len(q) : q[i].op = "accept" /\ q[j].op = "accept" => i = j
  /\ "accept" \in p => s = None /\ \A i \in 1..Len(q) : q[i].op # "accept"
  /\ \A i \in 1..Len(q) : OkAccept(q[i]) => s = None /\ q[i].conn # None
  /\ \A i \in 1..Len(q) : OkTimer(q[i]) => "timer" \notin p /\ s \in {None, q[i].conn}
  /\ \A i, j \in 1..Len(q) : OkTimer(q[i]) /\ OkAccept(q[j]) => i < j

QueueInv ==
  /\ server = "starting" => pending = {} /\ ready = <<>> /\ socket = None
  /\ InOrder(ready, pending, socket)
  /\ "accept" \in pending => acceptorOpen
  /\ server # "starting" /\ acceptorOpen =>
       "accept" \in pending \/ \E i \in 1..Len(ready) : ready[i].op = "accept"
  /\ "timer" \in pending => begunFor["timer"] = socket

IInv == TypeOK /\ QueueInv

-----------------------------------------------------------------------------
(* Queues.                                                                 *)

\* Neither an accept nor a deadline that has passed.
Plain(h) == h.op # "accept" /\ ~OkTimer(h)
AllPlain(q) == q \in Seq(Handler) /\ \A i \in 1..Len(q) : Plain(q[i])

LEMMA Concat ==
  ASSUME NEW q \in Seq(Handler), NEW r \in Seq(Handler)
  PROVE  /\ q \o r \in Seq(Handler)
         /\ Len(q) \in Nat /\ Len(r) \in Nat /\ Len(q \o r) = Len(q) + Len(r)
         /\ \A i \in 1..Len(q) : (q \o r)[i] = q[i]
         /\ \A i \in 1..Len(r) : (q \o r)[Len(q) + i] = r[i]
         /\ \A i \in 1..Len(q \o r) :
              \/ i \in 1..Len(q) /\ (q \o r)[i] = q[i]
              \/ i - Len(q) \in 1..Len(r) /\ (q \o r)[i] = r[i - Len(q)]
  OBVIOUS

LEMMA PlainConcat ==
  ASSUME NEW q, NEW r, AllPlain(q), AllPlain(r)
  PROVE  AllPlain(q \o r)
<1>1. q \in Seq(Handler) /\ r \in Seq(Handler)
  BY DEF AllPlain
<1> HIDE DEF Plain
<1> QED
  BY <1>1, Concat DEF AllPlain

\* The first handler is taken from the queue.
LEMMA TailInOrder ==
  ASSUME NEW q \in Seq(Handler), NEW p, NEW s, q # <<>>, InOrder(q, p, s)
  PROVE  /\ Tail(q) \in Seq(Handler)
         /\ InOrder(Tail(q), p, s)
         /\ \A i \in 1..Len(Tail(q)) : i + 1 \in 1..Len(q) /\ Tail(q)[i] = q[i + 1]
<1>1. /\ Tail(q) \in Seq(Handler)
      /\ \A i \in 1..Len(Tail(q)) : i \in Int /\ i + 1 \in 1..Len(q) /\ Tail(q)[i] = q[i + 1]
  OBVIOUS
<1> DEFINE t == Tail(q)
<1> HIDE DEF t
<1>2. \A i \in 1..Len(t) : i \in Int /\ i + 1 \in 1..Len(q) /\ t[i] = q[i + 1]
  BY <1>1 DEF t
<1>3. \A i, j \in 1..Len(t) : t[i].op = "accept" /\ t[j].op = "accept" => i = j
  BY <1>2 DEF InOrder
<1>4. "accept" \in p => s = None /\ \A i \in 1..Len(t) : t[i].op # "accept"
  BY <1>2 DEF InOrder
<1>5. \A i \in 1..Len(t) : OkAccept(t[i]) => s = None /\ t[i].conn # None
  BY <1>2 DEF InOrder
<1>6. \A i \in 1..Len(t) : OkTimer(t[i]) => "timer" \notin p /\ s \in {None, t[i].conn}
  BY <1>2 DEF InOrder
<1>7. \A i, j \in 1..Len(t) : OkTimer(t[i]) /\ OkAccept(t[j]) => i < j
  BY <1>2 DEF InOrder
<1>8. InOrder(t, p, s)
  BY <1>3, <1>4, <1>5, <1>6, <1>7 DEF InOrder
<1> QED
  BY <1>1, <1>8 DEF t

\* Handlers that are neither an accept nor a deadline come to its end.
LEMMA PlainInOrder ==
  ASSUME NEW q \in Seq(Handler), NEW r, NEW p, NEW s, InOrder(q, p, s), AllPlain(r)
  PROVE  q \o r \in Seq(Handler) /\ InOrder(q \o r, p, s)
<1>1. r \in Seq(Handler)
  BY DEF AllPlain
<1> DEFINE t == q \o r
<1>2. /\ t \in Seq(Handler)
      /\ \A i \in 1..Len(t) : (i \in 1..Len(q) /\ t[i] = q[i]) \/ Plain(t[i])
  BY <1>1, Concat DEF AllPlain
<1> HIDE DEF t
<1>3. \A i \in 1..Len(t) : t[i].op = "accept" \/ OkTimer(t[i])
                              => i \in 1..Len(q) /\ t[i] = q[i]
  BY <1>2 DEF Plain
<1>4. \A i \in 1..Len(t) : OkAccept(t[i]) => i \in 1..Len(q) /\ t[i] = q[i]
  BY <1>3 DEF OkAccept
<1>5. InOrder(t, p, s)
  BY <1>3, <1>4 DEF InOrder
<1> QED
  BY <1>2, <1>5 DEF t

\* One accept comes to its end, when there is none.
LEMMA AcceptInOrder ==
  ASSUME NEW q \in Seq(Handler), NEW h \in Handler, NEW p, NEW s, InOrder(q, p, s),
         h.op = "accept", "accept" \notin p, \A i \in 1..Len(q) : q[i].op # "accept",
         h.result = "ok" => s = None /\ h.conn # None
  PROVE  /\ q \o <<h>> \in Seq(Handler) /\ InOrder(q \o <<h>>, p, s)
         /\ \E i \in 1..Len(q \o <<h>>) : (q \o <<h>>)[i].op = "accept"
<1> DEFINE t == q \o <<h>>
<1>1. /\ t \in Seq(Handler)
      /\ Len(q) \in Nat /\ Len(t) = Len(q) + 1 /\ t[Len(q) + 1] = h
      /\ \A i \in 1..Len(t) : (i \in 1..Len(q) /\ t[i] = q[i]) \/ (i = Len(q) + 1 /\ t[i] = h)
  <2>1. <<h>> \in Seq(Handler) /\ Len(<<h>>) = 1 /\ <<h>>[1] = h
    OBVIOUS
  <2> QED
    BY <2>1, Concat
<1> HIDE DEF t
<1>2. \A i \in 1..Len(t) : t[i].op = "accept" => i = Len(q) + 1 /\ t[i] = h
  BY <1>1
<1>3. \A i \in 1..Len(t) : OkTimer(t[i]) => i \in 1..Len(q) /\ t[i] = q[i] /\ i < Len(q) + 1
  BY <1>1 DEF OkTimer
<1>4. \A i \in 1..Len(t) : OkAccept(t[i]) => i = Len(q) + 1 /\ t[i] = h /\ h.result = "ok"
  BY <1>2 DEF OkAccept
<1>5. InOrder(t, p, s)
  BY <1>2, <1>3, <1>4 DEF InOrder
<1>6. \E i \in 1..Len(t) : t[i].op = "accept"
  BY <1>1
<1> QED
  BY <1>1, <1>5, <1>6 DEF t

\* Operations end, or the connection is closed.
LEMMA LessInOrder ==
  ASSUME NEW q, NEW p, NEW s, InOrder(q, p, s), NEW ops
  PROVE  InOrder(q, p \ ops, s) /\ InOrder(q, p \ ops, None)
  BY DEF InOrder

\* A read or a write begins.
LEMMA MoreInOrder ==
  ASSUME NEW q, NEW p, NEW s, InOrder(q, p, s), NEW ops, ops \subseteq SocketOp
  PROVE  InOrder(q, p \cup ops, s)
<1>1. "accept" \in p \cup ops => "accept" \in p
  BY DEF SocketOp
<1>2. "timer" \in p \cup ops => "timer" \in p
  BY DEF SocketOp
<1> QED
  BY <1>1, <1>2 DEF InOrder

-----------------------------------------------------------------------------
(* What the handlers queue.                                                *)

LEMMA EmptyPlain == AllPlain(<<>>)
  BY DEF AllPlain

LEMMA OnePlain ==
  ASSUME NEW h \in Handler, h.op # "accept", h.op = "timer" => h.result = "error"
  PROVE  AllPlain(<<h>>)
<1>1. <<h>> \in Seq(Handler) /\ \A i \in 1..Len(<<h>>) : <<h>>[i] = h
  OBVIOUS
<1> QED
  BY <1>1 DEF AllPlain, Plain, OkTimer

LEMMA EndedPlain ==
  ASSUME TypeOK, NEW op \in Op, NEW result \in Result
  PROVE  /\ Ended(op, result) \in Handler
         /\ Ended(op, result).op = op /\ Ended(op, result).result = result
         /\ Ended(op, result).conn = begunFor[op]
         /\ op # "timer" \/ result = "error" => AllPlain(<<Ended(op, result)>>)
<1>1. /\ Ended(op, result) \in Handler
      /\ Ended(op, result).op = op /\ Ended(op, result).result = result
      /\ Ended(op, result).conn = begunFor[op]
  BY DEF Ended, Handler, TypeOK, Op, SocketOp, Result
<1>2. op # "accept"
  BY DEF Op, SocketOp
<1> HIDE DEF Ended
<1> QED
  BY <1>1, <1>2, OnePlain

LEMMA AbortedPlain ==
  ASSUME TypeOK, NEW ops
  PROVE  AllPlain(Aborted(ops))
<1>1. ASSUME NEW op \in Op PROVE AllPlain(AbortedOne(op, ops))
  BY EndedPlain, EmptyPlain DEF AbortedOne, Result
<1>2. {"read", "write", "timer"} \subseteq Op
  BY DEF Op, SocketOp
<1> HIDE DEF AbortedOne
<1>3. AllPlain(AbortedOne("read", ops) \o AbortedOne("write", ops))
  BY <1>1, <1>2, PlainConcat
<1> QED
  BY <1>1, <1>2, <1>3, PlainConcat DEF Aborted

LEMMA ReadEndedPlain ==
  ASSUME NEW s \in Client \cup {None}
  PROVE  AllPlain(ReadEnded(s)) /\ ReadPends(s) \subseteq SocketOp /\ (ReadPends(s) # {} => s # None)
<1>1. ASSUME NEW result \in Result
      PROVE  AllPlain(<<[op |-> "read", result |-> result, conn |-> s]>>)
  <2>1. [op |-> "read", result |-> result, conn |-> s] \in Handler
    BY DEF Handler, Op, SocketOp, Result
  <2> QED
    BY <2>1, OnePlain
<1>2. AllPlain(ReadEnded(s))
  BY <1>1, EmptyPlain DEF ReadEnded, Result
<1>3. ReadPends(s) \subseteq SocketOp /\ (ReadPends(s) # {} => s # None)
  BY DEF ReadPends, SocketOp
<1> QED
  BY <1>2, <1>3

\* doAccept after a handler: one accept is on its way, if the server listens.
LEMMA AcceptAgain ==
  ASSUME NEW q \in Seq(Handler), NEW p, NEW s \in Client \cup {None}, InOrder(q, p, s),
         "accept" \notin p, \A i \in 1..Len(q) : q[i].op # "accept"
  PROVE  LET t == q \o AcceptRefused(s)
             o == p \cup AcceptPends(s)
         IN  /\ t \in Seq(Handler) /\ InOrder(t, o, s)
             /\ acceptorOpen => "accept" \in o \/ \E i \in 1..Len(t) : t[i].op = "accept"
             /\ "accept" \in o => acceptorOpen
<1>1. CASE ~acceptorOpen
  <2>1. q \o AcceptRefused(s) = q /\ p \cup AcceptPends(s) = p
    BY <1>1 DEF AcceptRefused, AcceptPends
  <2> QED
    BY <1>1, <2>1
<1>2. CASE acceptorOpen /\ s = None
  <2>1. q \o AcceptRefused(s) = q /\ AcceptPends(s) = {"accept"}
    BY <1>2 DEF AcceptRefused, AcceptPends
  <2>2. InOrder(q, p \cup {"accept"}, s)
    BY <1>2 DEF InOrder
  <2> QED
    BY <1>2, <2>1, <2>2
<1>3. CASE acceptorOpen /\ s # None
  <2> DEFINE h == [op |-> "accept", result |-> "error", conn |-> s]
  <2>1. h \in Handler /\ h.op = "accept" /\ h.result # "ok"
    BY DEF Handler, Result
  <2>2. AcceptRefused(s) = <<h>> /\ p \cup AcceptPends(s) = p
    BY <1>3 DEF AcceptRefused, AcceptPends
  <2> HIDE DEF h
  <2> QED
    BY <1>3, <2>1, <2>2, AcceptInOrder
<1> QED
  BY <1>1, <1>2, <1>3

-----------------------------------------------------------------------------
(* The initial states.                                                     *)

LEMMA InitIInv == Init => IInv
<1> SUFFICES ASSUME Init PROVE IInv
  OBVIOUS
<1>1. TypeOK
  <2>1. ready \in Seq(Handler) /\ buffer \in Seq(Piece) /\ backlog \in Seq(Client)
    BY DEF Init
  <2>2. /\ client \in [Client -> {"away", "queued", "open", "dropped", "left"}]
        /\ stream \in [Client -> Seq(Piece)]
        /\ sent \in [Client -> 0..2 * MaxRequests] /\ answers \in [Client -> Nat]
    BY RequestAssumption DEF Init
  <2>3. received \in [Client -> SUBSET (Client \cup {None})] /\ begunFor \in [Op -> Client \cup {None}]
    BY DEF Init
  <2> QED
    BY <2>1, <2>2, <2>3 DEF Init, TypeOK
<1>2. QueueInv
  BY DEF Init, QueueInv, InOrder
<1> QED
  BY <1>1, <1>2 DEF IInv

-----------------------------------------------------------------------------
(* Types.                                                                  *)

LEMMA PlainType == \A q : AllPlain(q) => q \in Seq(Handler)
  BY DEF AllPlain

LEMMA ReadRequestType ==
  ASSUME TypeOK, NEW s, ReadRequest(s)
  PROVE  buffer' \in Seq(Piece) /\ request' \in Client \cup {None}
<1>1. CASE Whole(buffer)
  <2>1. Len(buffer) \in Nat /\ 3 \in 1..Len(buffer) + 1 /\ buffer[1] \in Piece
    BY <1>1 DEF Whole, TypeOK
  <2>2. SubSeq(buffer, 3, Len(buffer)) \in Seq(Piece)
    BY <2>1 DEF TypeOK
  <2> QED
    BY <1>1, <2>1, <2>2 DEF ReadRequest, Piece
<1>2. CASE ~Whole(buffer)
  BY <1>2 DEF ReadRequest, TypeOK
<1> QED
  BY <1>1, <1>2


-----------------------------------------------------------------------------
(* One step.  The queue first: each handler takes itself out of it and puts *)
(* what it begins, ends or refuses behind the rest.                         *)

\* What holds of the queue behind the first handler.
LEMMA Rest ==
  ASSUME IInv, ready # <<>>
  PROVE  /\ Head(ready) \in Handler
         /\ Tail(ready) \in Seq(Handler) /\ InOrder(Tail(ready), pending, socket)
         /\ Head(ready).op = "accept" =>
              /\ "accept" \notin pending
              /\ \A i \in 1..Len(Tail(ready)) : Tail(ready)[i].op # "accept"
         /\ OkAccept(Head(ready)) =>
              /\ socket = None /\ Head(ready).conn # None
              /\ \A i \in 1..Len(Tail(ready)) : ~OkTimer(Tail(ready)[i])
         /\ OkTimer(Head(ready)) =>
              "timer" \notin pending /\ socket \in {None, Head(ready).conn}
         /\ Head(ready).op # "accept" /\ (\E i \in 1..Len(ready) : ready[i].op = "accept")
              => \E i \in 1..Len(Tail(ready)) : Tail(ready)[i].op = "accept"
<1> DEFINE t == Tail(ready)
<1>1. /\ ready \in Seq(Handler) /\ Len(ready) \in Nat /\ 1 \in 1..Len(ready)
      /\ Head(ready) = ready[1] /\ Head(ready) \in Handler
      /\ Len(t) = Len(ready) - 1
  BY DEF IInv, TypeOK
<1>2. InOrder(ready, pending, socket)
  BY DEF IInv, QueueInv
<1>3. /\ t \in Seq(Handler) /\ InOrder(t, pending, socket)
      /\ \A i \in 1..Len(t) : i + 1 \in 1..Len(ready) /\ t[i] = ready[i + 1]
  BY <1>1, <1>2, TailInOrder
<1> HIDE DEF t
<1>4. ASSUME ready[1].op = "accept"
      PROVE  "accept" \notin pending /\ \A i \in 1..Len(t) : t[i].op # "accept"
  <2>1. \A i \in 1..Len(t) : i + 1 # 1
    BY <1>1
  <2> QED
    BY <1>1, <1>2, <1>3, <1>4, <2>1 DEF InOrder
<1>5. ASSUME OkAccept(ready[1])
      PROVE  /\ socket = None /\ ready[1].conn # None
             /\ \A i \in 1..Len(t) : ~OkTimer(t[i])
  <2>1. \A i \in 1..Len(t) : ~(i + 1 < 1)
    BY <1>1
  <2> QED
    BY <1>1, <1>2, <1>3, <1>5, <2>1 DEF InOrder
<1>6. OkTimer(ready[1]) => "timer" \notin pending /\ socket \in {None, ready[1].conn}
  BY <1>1, <1>2 DEF InOrder
<1>7. ASSUME ready[1].op # "accept", NEW i \in 1..Len(ready), ready[i].op = "accept"
      PROVE  \E j \in 1..Len(t) : t[j].op = "accept"
  <2>1. i - 1 \in 1..Len(t) /\ (i - 1) + 1 = i
    BY <1>1, <1>7
  <2> QED
    BY <1>3, <1>7, <2>1
<1> QED
  BY <1>1, <1>3, <1>4, <1>5, <1>6, <1>7 DEF t

\* Plain handlers behind the rest leave the accept where it is.
LEMMA AcceptStays ==
  ASSUME NEW q \in Seq(Handler), NEW r \in Seq(Handler),
         \E i \in 1..Len(q) : q[i].op = "accept"
  PROVE  \E i \in 1..Len(q \o r) : (q \o r)[i].op = "accept"
<1> PICK i \in 1..Len(q) : q[i].op = "accept"
  OBVIOUS
<1> QED
  BY Concat

LEMMA NoAcceptConcat ==
  ASSUME NEW q \in Seq(Handler), NEW r, AllPlain(r), \A i \in 1..Len(q) : q[i].op # "accept"
  PROVE  \A i \in 1..Len(q \o r) : (q \o r)[i].op # "accept"
<1>1. r \in Seq(Handler) /\ \A i \in 1..Len(r) : r[i].op # "accept"
  BY DEF AllPlain, Plain
<1>2. \A i \in 1..Len(q \o r) :
         \/ i \in 1..Len(q) /\ (q \o r)[i] = q[i]
         \/ i - Len(q) \in 1..Len(r) /\ (q \o r)[i] = r[i - Len(q)]
  BY <1>1, Concat
<1> QED
  BY <1>1, <1>2

LEMMA AppendConcat ==
  ASSUME NEW q \in Seq(Handler), NEW h \in Handler
  PROVE  Append(q, h) = q \o <<h>>
  OBVIOUS

\* A read or a write ends, or a deadline is cancelled.
LEMMA EndsInOrder ==
  ASSUME IInv, NEW op \in SocketOp, NEW result \in Result
  PROVE  LET t == Append(ready, Ended(op, result))
         IN  /\ t \in Seq(Handler) /\ InOrder(t, pending \ {op}, socket)
             /\ (\E i \in 1..Len(ready) : ready[i].op = "accept")
                  => \E i \in 1..Len(t) : t[i].op = "accept"
<1> DEFINE h == Ended(op, result)
<1>1. h \in Handler /\ AllPlain(<<h>>)
  BY EndedPlain DEF Op, SocketOp, IInv
<1>2. ready \in Seq(Handler) /\ InOrder(ready, pending \ {op}, socket)
  BY LessInOrder DEF IInv, QueueInv, TypeOK
<1> HIDE DEF h
<1>3. Append(ready, h) = ready \o <<h>>
  BY <1>1, <1>2, AppendConcat
<1>4. ready \o <<h>> \in Seq(Handler) /\ InOrder(ready \o <<h>>, pending \ {op}, socket)
  BY <1>1, <1>2, PlainInOrder
<1>5. (\E i \in 1..Len(ready) : ready[i].op = "accept")
        => \E i \in 1..Len(ready \o <<h>>) : (ready \o <<h>>)[i].op = "accept"
  BY <1>1, <1>2, AcceptStays DEF AllPlain
<1> QED
  BY <1>3, <1>4, <1>5 DEF h

\* The deadline passes, while a connection is being served.
LEMMA TimerInOrder ==
  ASSUME NEW q \in Seq(Handler), NEW h \in Handler, NEW p, NEW s, InOrder(q, p, s),
         h.op = "timer", s # None, h.conn = s
  PROVE  q \o <<h>> \in Seq(Handler) /\ InOrder(q \o <<h>>, p \ {"timer"}, s)
<1> DEFINE t == q \o <<h>>
<1>1. /\ t \in Seq(Handler)
      /\ \A i \in 1..Len(t) : (i \in 1..Len(q) /\ t[i] = q[i]) \/ t[i] = h
  <2>1. <<h>> \in Seq(Handler) /\ Len(<<h>>) = 1 /\ <<h>>[1] = h
    OBVIOUS
  <2> QED
    BY <2>1, Concat
<1> HIDE DEF t
<1>2. \A i \in 1..Len(t) : t[i].op = "accept" => i \in 1..Len(q) /\ t[i] = q[i]
  BY <1>1
<1>3. \A i \in 1..Len(t) : ~OkAccept(t[i])
  BY <1>2 DEF OkAccept, InOrder
<1>4. \A i \in 1..Len(t) : OkTimer(t[i]) => s \in {None, t[i].conn}
  BY <1>1 DEF InOrder
<1>5. InOrder(t, p \ {"timer"}, s)
  BY <1>2, <1>3, <1>4 DEF InOrder
<1> QED
  BY <1>1, <1>5 DEF t

-----------------------------------------------------------------------------
LEMMA QueueNext == IInv /\ Next => ready' \in Seq(Handler) /\ QueueInv'
<1> SUFFICES ASSUME IInv, Next PROVE ready' \in Seq(Handler) /\ QueueInv'
  OBVIOUS
<1>0. /\ TypeOK /\ QueueInv
      /\ ready \in Seq(Handler) /\ socket \in Client \cup {None}
  BY DEF IInv, TypeOK
<1>1. CASE StartServer
  <2>1. InOrder(<<>>, pending', None)
    BY DEF InOrder
  <2> QED
    BY <1>0, <1>1, <2>1 DEF StartServer, QueueInv, AcceptPends
<1>2. CASE OnAccept
  <2> DEFINE c == Head(ready).conn
             t == Tail(ready)
             p == pending \cup ReadPends(c) \cup {"timer"}
             r == t \o ReadEnded(c)
             q == r \o Aborted({"timer"})
  <2>1. /\ ready # <<>> /\ OkAccept(Head(ready)) /\ Head(ready).op = "accept"
        /\ server = "running" /\ server' = server /\ acceptorOpen' = acceptorOpen
        /\ socket' = c /\ pending' = p /\ ready' = q \o AcceptRefused(c)
        /\ begunFor' = [begunFor EXCEPT !["read"] = c, !["timer"] = c]
    BY <1>2 DEF OnAccept, Run, Running, CheckDeadline, OkAccept
  <2>2. /\ c \in Client /\ t \in Seq(Handler) /\ "accept" \notin pending
        /\ \A i \in 1..Len(t) : t[i].op # "accept" /\ ~OkTimer(t[i])
    BY <2>1, Rest DEF Handler
  <2>3. ReadPends(c) \subseteq SocketOp /\ AllPlain(ReadEnded(c)) /\ AllPlain(Aborted({"timer"}))
    BY <1>0, <2>2, ReadEndedPlain, AbortedPlain
  <2>4. begunFor'["timer"] = c
    BY <1>0, <2>1 DEF TypeOK, Op, SocketOp
  <2> HIDE DEF c, t, p, r, q
  <2>5. "accept" \notin p
    BY <2>2, <2>3 DEF p, SocketOp
  <2>6. InOrder(t, p, c)
    BY <2>2, <2>5 DEF InOrder, OkAccept
  <2>7. r \in Seq(Handler) /\ InOrder(r, p, c) /\ \A i \in 1..Len(r) : r[i].op # "accept"
    BY <2>2, <2>3, <2>6, PlainInOrder, NoAcceptConcat DEF r
  <2>8. q \in Seq(Handler) /\ InOrder(q, p, c) /\ \A i \in 1..Len(q) : q[i].op # "accept"
    BY <2>3, <2>7, PlainInOrder, NoAcceptConcat DEF q
  <2>9. p \cup AcceptPends(c) = p
    BY <2>2, ClientAssumption DEF AcceptPends
  <2>10. /\ ready' \in Seq(Handler) /\ InOrder(ready', p, c)
         /\ acceptorOpen => "accept" \in p \/ \E i \in 1..Len(ready') : ready'[i].op = "accept"
    <3>1. /\ q \o AcceptRefused(c) \in Seq(Handler)
          /\ InOrder(q \o AcceptRefused(c), p \cup AcceptPends(c), c)
          /\ acceptorOpen => \/ "accept" \in p \cup AcceptPends(c)
                             \/ \E i \in 1..Len(q \o AcceptRefused(c)) :
                                  (q \o AcceptRefused(c))[i].op = "accept"
      BY <2>2, <2>5, <2>8, AcceptAgain
    <3> QED
      BY <2>1, <2>9, <3>1
  <2> QED
    BY <2>1, <2>4, <2>5, <2>10 DEF QueueInv
<1>3. CASE OnAcceptError
  <2>1. /\ ready # <<>> /\ Head(ready).op = "accept"
        /\ server = "running" /\ server' = server /\ acceptorOpen' = acceptorOpen
        /\ socket' = socket /\ begunFor' = begunFor
        /\ pending' = pending \cup AcceptPends(socket)
        /\ ready' = Tail(ready) \o AcceptRefused(socket)
    BY <1>3 DEF OnAcceptError, Run, Running, history
  <2>2. /\ Tail(ready) \in Seq(Handler) /\ InOrder(Tail(ready), pending, socket)
        /\ "accept" \notin pending
        /\ \A i \in 1..Len(Tail(ready)) : Tail(ready)[i].op # "accept"
    BY <2>1, Rest
  <2>3. /\ ready' \in Seq(Handler) /\ InOrder(ready', pending', socket)
        /\ acceptorOpen => "accept" \in pending' \/ \E i \in 1..Len(ready') : ready'[i].op = "accept"
        /\ "accept" \in pending' => acceptorOpen
    BY <1>0, <2>1, <2>2, AcceptAgain
  <2>4. "timer" \in pending' => "timer" \in pending
    BY <2>1 DEF AcceptPends
  <2> QED
    BY <1>0, <2>1, <2>3, <2>4 DEF QueueInv
<1>4. ASSUME NEW r, AllPlain(r), ready # <<>>, Head(ready).op # "accept",
             ready' = Tail(ready) \o r, server = "running", server' = server,
             acceptorOpen' = acceptorOpen, "accept" \in pending' <=> "accept" \in pending,
             InOrder(Tail(ready), pending', socket'), "timer" \in pending' => begunFor'["timer"] = socket'
      PROVE  ready' \in Seq(Handler) /\ QueueInv'
  <2>1. Tail(ready) \in Seq(Handler) /\ r \in Seq(Handler)
    BY <1>4, Rest DEF AllPlain
  <2>2. ready' \in Seq(Handler) /\ InOrder(ready', pending', socket')
    BY <1>4, <2>1, PlainInOrder
  <2>3. (\E i \in 1..Len(ready) : ready[i].op = "accept")
          => \E i \in 1..Len(ready') : ready'[i].op = "accept"
    BY <1>4, <2>1, Rest, AcceptStays
  <2> QED
    BY <1>0, <1>4, <2>2, <2>3 DEF QueueInv
<1>5. CASE OnRead
  <2>1. /\ ready # <<>> /\ Head(ready).op = "read" /\ server = "running" /\ server' = server
        /\ acceptorOpen' = acceptorOpen /\ socket' = socket
        /\ begunFor' = [begunFor EXCEPT !["write"] = socket]
    BY <1>5 DEF OnRead, Run, Running, ProcessRequest
  <2>2. begunFor'["timer"] = begunFor["timer"]
    BY <1>0, <2>1 DEF TypeOK, Op, SocketOp
  <2>3. InOrder(Tail(ready), pending, socket) /\ Tail(ready) \in Seq(Handler)
    BY <2>1, Rest
  <2>4. CASE socket = None
    <3>1. Refused("write") \in Handler /\ AllPlain(<<Refused("write")>>)
      <4>1. /\ Refused("write") \in Handler
            /\ Refused("write").op = "write"
        BY <1>0 DEF Refused, Handler, Op, SocketOp, Result
      <4> QED
        BY <4>1, OnePlain
    <3>2. ready' = Append(Tail(ready), Refused("write")) /\ pending' = pending
      BY <1>5, <2>4 DEF OnRead, ProcessRequest
    <3>3. ready' = Tail(ready) \o <<Refused("write")>>
      BY <2>3, <3>1, <3>2, AppendConcat
    <3> QED
      BY <1>0, <1>4, <2>1, <2>2, <2>3, <3>1, <3>2, <3>3 DEF QueueInv
  <2>5. CASE socket # None
    <3>1. ready' = Tail(ready) /\ pending' = pending \cup {"write"}
      BY <1>5, <2>5 DEF OnRead, ProcessRequest
    <3>2. ready' = Tail(ready) \o <<>>
      BY <2>3, <3>1
    <3>3. InOrder(Tail(ready), pending', socket)
      BY <2>3, <3>1, MoreInOrder DEF SocketOp
    <3> QED
      BY <1>0, <1>4, <2>1, <2>2, <3>1, <3>2, <3>3, EmptyPlain DEF QueueInv
  <2> QED
    BY <2>4, <2>5
<1>6. CASE OnReadError \/ OnDeadlineCancelled
  <2>1. /\ ready # <<>> /\ Head(ready).op # "accept" /\ server = "running" /\ server' = server
        /\ acceptorOpen' = acceptorOpen /\ socket' = socket /\ pending' = pending
        /\ begunFor' = begunFor /\ ready' = Tail(ready)
    BY <1>6 DEF OnReadError, OnDeadlineCancelled, Run, Running, history
  <2>2. InOrder(Tail(ready), pending, socket) /\ Tail(ready) \in Seq(Handler)
    BY <2>1, Rest
  <2>3. ready' = Tail(ready) \o <<>>
    BY <2>1, <2>2
  <2> QED
    BY <1>0, <1>4, <2>1, <2>2, <2>3, EmptyPlain DEF QueueInv
<1>7. CASE OnWrite
  <2> DEFINE r == ReadEnded(socket) \o Aborted({"timer"})
  <2>1. /\ ready # <<>> /\ Head(ready).op # "accept" /\ server = "running" /\ server' = server
        /\ acceptorOpen' = acceptorOpen /\ socket' = socket
        /\ pending' = (pending \ {"timer"}) \cup ReadPends(socket)
        /\ ready' = Tail(ready) \o ReadEnded(socket) \o Aborted({"timer"})
    BY <1>7 DEF OnWrite, Run, Running
  <2>2. /\ AllPlain(ReadEnded(socket)) /\ ReadPends(socket) \subseteq SocketOp
        /\ AllPlain(Aborted({"timer"}))
    BY <1>0, ReadEndedPlain, AbortedPlain
  <2>3. InOrder(Tail(ready), pending, socket) /\ Tail(ready) \in Seq(Handler)
    BY <2>1, Rest
  <2>4. AllPlain(r) /\ ready' = Tail(ready) \o r
    <3>1. AllPlain(r)
      BY <2>2, PlainConcat
    <3>2. \A x, y, z \in Seq(Handler) : (x \o y) \o z = x \o (y \o z)
      OBVIOUS
    <3> QED
      BY <2>1, <2>2, <2>3, <3>1, <3>2 DEF AllPlain
  <2>5. InOrder(Tail(ready), pending', socket)
    BY <2>1, <2>2, <2>3, LessInOrder, MoreInOrder
  <2>6. "timer" \notin pending' /\ ("accept" \in pending' <=> "accept" \in pending)
    BY <2>1, <2>2 DEF SocketOp
  <2> HIDE DEF r
  <2> QED
    BY <1>4, <2>1, <2>4, <2>5, <2>6
<1>8. CASE OnWriteError
  <2>1. /\ ready # <<>> /\ Head(ready).op # "accept" /\ server = "running" /\ server' = server
        /\ acceptorOpen' = acceptorOpen /\ socket' = None /\ begunFor' = begunFor
        /\ pending' = pending \ Op /\ ready' = Tail(ready) \o Aborted(Op)
    BY <1>8 DEF OnWriteError, Run, Running, EndedByWriteError, history
  <2>2. InOrder(Tail(ready), pending', None)
    BY <2>1, Rest, LessInOrder
  <2>3. "timer" \notin pending' /\ ("accept" \in pending' <=> "accept" \in pending)
    BY <2>1 DEF Op, SocketOp
  <2> QED
    BY <1>0, <1>4, <2>1, <2>2, <2>3, AbortedPlain
<1>9. CASE OnDeadline
  <2>1. /\ ready # <<>> /\ Head(ready).op # "accept" /\ OkTimer(Head(ready))
        /\ server = "running" /\ server' = server
        /\ acceptorOpen' = acceptorOpen /\ socket' = None /\ begunFor' = begunFor
        /\ pending' = pending \ SocketOp /\ ready' = Tail(ready) \o Aborted(SocketOp)
    BY <1>9 DEF OnDeadline, Run, Running, OkTimer, history
  <2>2. InOrder(Tail(ready), pending', None)
    BY <2>1, Rest, LessInOrder
  <2>3. "timer" \notin pending' /\ ("accept" \in pending' <=> "accept" \in pending)
    BY <2>1, Rest DEF SocketOp
  <2> QED
    BY <1>0, <1>4, <2>1, <2>2, <2>3, AbortedPlain
<1>10. CASE ServerReturns
  BY <1>0, <1>10 DEF ServerReturns, QueueInv, history
<1>11. CASE CloseAcceptor
  <2>1. /\ acceptorOpen' = FALSE /\ pending' = pending \ {"accept"}
        /\ socket' = socket /\ server' = server /\ begunFor' = begunFor
        /\ ready' = ready \o (IF "accept" \in pending
                                THEN <<[op |-> "accept", result |-> "error", conn |-> None]>> ELSE <<>>)
    BY <1>11 DEF CloseAcceptor, history
  <2>2. InOrder(ready, pending', socket)
    BY <1>0, <2>1, LessInOrder DEF QueueInv
  <2>3. CASE "accept" \in pending
    <3> DEFINE h == [op |-> "accept", result |-> "error", conn |-> None]
    <3>1. h \in Handler /\ h.op = "accept" /\ h.result # "ok"
      BY DEF Handler, Result
    <3>2. ready' = ready \o <<h>>
      BY <2>1, <2>3
    <3> HIDE DEF h
    <3>3. \A i \in 1..Len(ready) : ready[i].op # "accept"
      BY <1>0, <2>3 DEF QueueInv, InOrder
    <3>4. ready' \in Seq(Handler) /\ InOrder(ready', pending', socket)
      BY <1>0, <2>1, <2>2, <3>1, <3>2, <3>3, AcceptInOrder
    <3> QED
      BY <1>0, <2>1, <2>3, <3>4 DEF QueueInv
  <2>4. CASE "accept" \notin pending
    <3>1. ready' = ready
      BY <1>0, <2>1, <2>4
    <3> QED
      BY <1>0, <2>1, <2>2, <3>1 DEF QueueInv
  <2> QED
    BY <2>3, <2>4
<1>12. CASE AcceptEnds
  <2> DEFINE h == [op |-> "accept", result |-> "ok", conn |-> Head(backlog)]
  <2>1. /\ "accept" \in pending /\ pending' = pending \ {"accept"} /\ ready' = Append(ready, h)
        /\ socket' = socket /\ server' = server /\ acceptorOpen' = acceptorOpen /\ begunFor' = begunFor
        /\ Head(backlog) \in Client
    BY <1>0, <1>12 DEF AcceptEnds, TypeOK, history
  <2>2. h \in Handler /\ h.op = "accept" /\ h.conn # None
    BY <2>1, ClientAssumption DEF Handler, Result
  <2> HIDE DEF h
  <2>3. /\ InOrder(ready, pending', socket) /\ socket = None
        /\ \A i \in 1..Len(ready) : ready[i].op # "accept"
    BY <1>0, <2>1, LessInOrder DEF QueueInv, InOrder
  <2>4. ready' = ready \o <<h>>
    BY <1>0, <2>1, <2>2, AppendConcat
  <2>5. /\ ready' \in Seq(Handler) /\ InOrder(ready', pending', socket)
        /\ \E i \in 1..Len(ready') : ready'[i].op = "accept"
    BY <1>0, <2>1, <2>2, <2>3, <2>4, AcceptInOrder
  <2> QED
    BY <1>0, <2>1, <2>5 DEF QueueInv
<1>13. ASSUME NEW op \in SocketOp, NEW result \in Result, op \in pending,
              pending' = pending \ {op}, ready' = Append(ready, Ended(op, result)),
              UNCHANGED <<socket, server, acceptorOpen, begunFor>>
       PROVE  ready' \in Seq(Handler) /\ QueueInv'
  <2>1. /\ ready' \in Seq(Handler) /\ InOrder(ready', pending', socket)
        /\ (\E i \in 1..Len(ready) : ready[i].op = "accept")
              => \E i \in 1..Len(ready') : ready'[i].op = "accept"
    BY <1>13, EndsInOrder
  <2>2. "accept" \in pending => "accept" \in pending'
    BY <1>13 DEF SocketOp
  <2> QED
    BY <1>0, <1>13, <2>1, <2>2 DEF QueueInv
<1>14. CASE Receive
  <2>1. CASE UNCHANGED <<pending, ready>>
    BY <1>0, <1>14, <2>1 DEF Receive, QueueInv, history
  <2>2. CASE pending' = pending \ {"read"}
    <3>1. PICK result \in Result : ready' = Append(ready, Ended("read", result)) \/ UNCHANGED <<pending, ready>>
      BY <1>14 DEF Receive, Result
    <3> QED
      BY <1>13, <1>14, <2>1, <2>2, <3>1 DEF Receive, SocketOp, history
  <2> QED
    BY <1>14, <2>1, <2>2 DEF Receive
<1>15. CASE EndOfStream \/ WriteEnds \/ WriteFails
  BY <1>13, <1>15 DEF EndOfStream, WriteEnds, WriteFails, SocketOp, Result, history
<1>16. CASE DeadlinePasses
  <2> DEFINE h == Ended("timer", "ok")
  <2>1. /\ "timer" \in pending /\ pending' = pending \ {"timer"} /\ ready' = Append(ready, h)
        /\ UNCHANGED <<socket, server, acceptorOpen, begunFor>>
    BY <1>16 DEF DeadlinePasses, history
  <2>2. h \in Handler /\ h.op = "timer" /\ h.conn = socket /\ socket # None
    BY <1>0, <2>1, EndedPlain DEF QueueInv, TypeOK, Op, Result
  <2> HIDE DEF h
  <2>3. InOrder(ready, pending, socket)
    BY <1>0 DEF QueueInv
  <2>4. ready' = ready \o <<h>>
    BY <1>0, <2>1, <2>2, AppendConcat
  <2>5. ready' \in Seq(Handler) /\ InOrder(ready', pending', socket)
    BY <1>0, <2>1, <2>2, <2>3, <2>4, TimerInOrder
  <2>6. (\E i \in 1..Len(ready) : ready[i].op = "accept")
          => \E i \in 1..Len(ready') : ready'[i].op = "accept"
    <3>1. <<h>> \in Seq(Handler)
      BY <2>2
    <3> QED
      BY <1>0, <2>4, <3>1, AcceptStays
  <2> QED
    BY <1>0, <2>1, <2>5, <2>6 DEF QueueInv
<1>17. CASE UNCHANGED <<ready, pending, socket, server, acceptorOpen, begunFor>>
  BY <1>0, <1>17 DEF QueueInv
<1>18. CASE StopContext
  BY <1>17, <1>18 DEF StopContext, history
<1>19. ASSUME NEW c \in Client, Connect(c) \/ Send(c) \/ Leave(c)
       PROVE  ready' \in Seq(Handler) /\ QueueInv'
  BY <1>17, <1>19 DEF Connect, Send, Leave, history
<1> QED
  BY <1>1, <1>2, <1>3, <1>5, <1>6, <1>7, <1>8, <1>9, <1>10, <1>11, <1>12, <1>14, <1>15, <1>16, <1>18, <1>19
     DEF Next, Handle, Kernel, Stop

-----------------------------------------------------------------------------
(* Types.                                                                  *)

LEMMA TypeNext == IInv /\ Next => TypeOK'
<1> SUFFICES ASSUME IInv, Next PROVE TypeOK'
  OBVIOUS
<1>0. TypeOK /\ ready' \in Seq(Handler)
  BY QueueNext DEF IInv
<1> USE DEF TypeOK
<1>1. CASE StartServer
  <2>1. pending = {} /\ pending' \subseteq {"accept"}
    BY <1>1 DEF StartServer, IInv, QueueInv, AcceptPends
  <2> QED
    BY <1>0, <1>1, <2>1 DEF StartServer, Op, SocketOp, network, history
<1>2. CASE OnAccept
  <2> DEFINE c == Head(ready).conn
  <2>1. c \in Client /\ OkAccept(Head(ready)) /\ ready # <<>>
    BY <1>0, <1>2, Rest DEF OnAccept, Run, OkAccept, Handler
  <2>2. buffer' \in Seq(Piece) /\ request' \in Client \cup {None}
    BY <1>0, <1>2, ReadRequestType DEF OnAccept
  <2>3. pending' \subseteq Op \cup {"accept"} /\ socket' = c
    BY <1>0, <1>2, <2>1, ReadEndedPlain DEF OnAccept, Op, CheckDeadline
  <2>4. begunFor' \in [Op -> Client \cup {None}]
    BY <1>0, <1>2, <2>1 DEF OnAccept
  <2>5. UNCHANGED <<acceptorOpen, ioStopped, server, main, network, received>>
    BY <1>2 DEF OnAccept
  <2> HIDE DEF c
  <2> QED
    BY <1>0, <2>1, <2>2, <2>3, <2>4, <2>5, ClientAssumption DEF network
<1>3. CASE OnAcceptError
  <2>1. pending' \subseteq pending \cup {"accept"} /\ socket' = socket
    BY <1>3 DEF OnAcceptError, AcceptPends
  <2>2. pending' \cap Op = pending \cap Op
    BY <1>3 DEF OnAcceptError, AcceptPends, Op, SocketOp
  <2>3. UNCHANGED <<acceptorOpen, ioStopped, buffer, request, server, main, network, history>>
    BY <1>3 DEF OnAcceptError
  <2> QED
    BY <1>0, <2>1, <2>2, <2>3 DEF network, history
<1>4. CASE OnRead
  <2>1. begunFor' \in [Op -> Client \cup {None}]
    BY <1>0, <1>4 DEF OnRead, ProcessRequest
  <2>2. pending' \subseteq Op \cup {"accept"} /\ (pending' \cap Op # {} => socket # None)
    BY <1>0, <1>4 DEF OnRead, ProcessRequest, Op, SocketOp
  <2>3. UNCHANGED <<acceptorOpen, ioStopped, socket, buffer, request, server, main, network, received>>
    BY <1>4 DEF OnRead
  <2> QED
    BY <1>0, <2>1, <2>2, <2>3 DEF network
<1>5. CASE OnReadError \/ OnDeadlineCancelled
  BY <1>0, <1>5 DEF OnReadError, OnDeadlineCancelled, network, history
<1>6. CASE OnWrite
  <2>1. buffer' \in Seq(Piece) /\ request' \in Client \cup {None}
    BY <1>0, <1>6, ReadRequestType DEF OnWrite
  <2>2. begunFor' \in [Op -> Client \cup {None}]
    BY <1>0, <1>6 DEF OnWrite
  <2>3. pending' \subseteq Op \cup {"accept"} /\ (pending' \cap Op # {} => socket # None)
    BY <1>0, <1>6, ReadEndedPlain DEF OnWrite, Op, SocketOp
  <2>4. UNCHANGED <<acceptorOpen, ioStopped, socket, server, main, network, received>>
    BY <1>6 DEF OnWrite
  <2> QED
    BY <1>0, <2>1, <2>2, <2>3, <2>4 DEF network
<1>7. ASSUME Drop(socket)
      PROVE  client' \in [Client -> {"away", "queued", "open", "dropped", "left"}]
  BY <1>0, <1>7 DEF Drop
<1>8. CASE OnWriteError
  <2>1. pending' \subseteq Op \cup {"accept"} /\ pending' \cap Op = {} /\ socket' = None
    BY <1>0, <1>8 DEF OnWriteError, EndedByWriteError
  <2>2. Drop(socket) /\ UNCHANGED <<acceptorOpen, ioStopped, buffer, request, server, main,
                                    backlog, stream, sent, answers, history>>
    BY <1>8 DEF OnWriteError
  <2> QED
    BY <1>0, <1>7, <2>1, <2>2 DEF history
<1>9. CASE OnDeadline
  <2>1. pending' \subseteq Op \cup {"accept"} /\ socket' = None
    BY <1>0, <1>9 DEF OnDeadline
  <2>2. "timer" \notin pending
    BY <1>9, Rest DEF OnDeadline, Run, OkTimer
  <2>3. pending' \cap Op = {}
    BY <1>9, <2>2 DEF OnDeadline, Op
  <2>4. Drop(socket) /\ UNCHANGED <<acceptorOpen, ioStopped, buffer, request, server, main,
                                    backlog, stream, sent, answers, history>>
    BY <1>9 DEF OnDeadline
  <2> QED
    BY <1>0, <1>7, <2>1, <2>3, <2>4 DEF history
<1>10. CASE ServerReturns
  BY <1>0, <1>10 DEF ServerReturns, network, history
<1>11. CASE CloseAcceptor
  <2>1. pending' \subseteq pending /\ acceptorOpen' \in BOOLEAN /\ main' = "stopping"
    BY <1>11 DEF CloseAcceptor
  <2>2. UNCHANGED <<ioStopped, socket, buffer, request, server, network, history>>
    BY <1>11 DEF CloseAcceptor
  <2> QED
    BY <1>0, <2>1, <2>2 DEF network, history
<1>12. CASE StopContext
  BY <1>0, <1>12 DEF StopContext, network, history
<1>13. ASSUME NEW c \in Client, Connect(c) PROVE TypeOK'
  <2>1. backlog' \in Seq(Client)
        /\ client' \in [Client -> {"away", "queued", "open", "dropped", "left"}]
    BY <1>0, <1>13 DEF Connect
  <2> QED
    BY <1>0, <1>13, <2>1 DEF Connect, history
<1>14. ASSUME NEW c \in Client, Send(c) PROVE TypeOK'
  <2>1. sent[c] \in Int /\ sent[c] + 1 \in 0..2 * MaxRequests
    BY <1>0, <1>14, RequestAssumption DEF Send
  <2>2. sent' \in [Client -> 0..2 * MaxRequests]
    BY <1>0, <1>14, <2>1 DEF Send
  <2>3. stream' \in [Client -> Seq(Piece)]
    <3>1. \A b \in {"head", "tail"} : Append(stream[c], [from |-> c, part |-> b]) \in Seq(Piece)
      <4>1. \A b \in {"head", "tail"} : [from |-> c, part |-> b] \in Piece
        BY DEF Piece
      <4> QED
        BY <1>0, <4>1
    <3> QED
      BY <1>0, <1>14, <3>1 DEF Send
  <2> QED
    BY <1>0, <1>14, <2>2, <2>3 DEF Send, history
<1>15. ASSUME NEW c \in Client, Leave(c) PROVE TypeOK'
  BY <1>0, <1>15 DEF Leave, history
<1>16. CASE AcceptEnds
  <2>1. backlog' \in Seq(Client) /\ Head(backlog) \in Client
    BY <1>0, <1>16 DEF AcceptEnds
  <2>2. client' \in [Client -> {"away", "queued", "open", "dropped", "left"}]
    BY <1>0, <1>16, <2>1 DEF AcceptEnds
  <2>3. pending' \subseteq pending
    BY <1>16 DEF AcceptEnds
  <2> QED
    BY <1>0, <1>16, <2>1, <2>2, <2>3 DEF AcceptEnds, history
<1>17. CASE Receive
  <2> DEFINE st == stream[socket]
  <2>1. socket \in Client /\ st \in Seq(Piece)
    BY <1>0, <1>17 DEF Receive, Op, SocketOp
  <2> HIDE DEF st
  <2>2. PICK n \in 1..Len(st) :
          LET b == buffer \o SubSeq(st, 1, n)
          IN  /\ stream' = [stream EXCEPT ![socket] = SubSeq(@, n + 1, Len(@))]
              /\ \/ Whole(b) /\ buffer' = SubSeq(b, 3, Len(b)) /\ request' = b[1].from
                 \/ request' = request /\ buffer' \in {b, Tail(b)}
    BY <1>17 DEF Receive, st
  <2> DEFINE b == buffer \o SubSeq(st, 1, n)
  <2>3. b \in Seq(Piece) /\ b # <<>>
    <3> DEFINE a == SubSeq(st, 1, n)
    <3>1. a \in Seq(Piece) /\ Len(a) = n /\ n \in Nat /\ n # 0
      BY <2>1
    <3> HIDE DEF a
    <3>2. buffer \o a \in Seq(Piece) /\ Len(buffer \o a) = Len(buffer) + Len(a) /\ Len(buffer) \in Nat
      <4>1. \A x, y \in Seq(Piece) : x \o y \in Seq(Piece) /\ Len(x \o y) = Len(x) + Len(y) /\ Len(x) \in Nat
        OBVIOUS
      <4> QED
        BY <1>0, <3>1, <4>1
    <3>3. Len(buffer \o a) # 0
      BY <3>1, <3>2
    <3> QED
      BY <3>2, <3>3 DEF a
  <2>4. stream' \in [Client -> Seq(Piece)]
    <3>1. SubSeq(st, n + 1, Len(st)) \in Seq(Piece)
      BY <2>1
    <3> QED
      BY <1>0, <2>1, <2>2, <3>1 DEF st
  <2> HIDE DEF b
  <2>5. buffer' \in Seq(Piece) /\ request' \in Client \cup {None}
    <3>1. Whole(b) => SubSeq(b, 3, Len(b)) \in Seq(Piece) /\ b[1] \in Piece
      BY <2>3 DEF Whole
    <3>2. Tail(b) \in Seq(Piece)
      BY <2>3
    <3> QED
      BY <1>0, <2>2, <2>3, <3>1, <3>2 DEF b, Piece
  <2>6. pending' \subseteq pending
    BY <1>17 DEF Receive
  <2>7. UNCHANGED <<acceptorOpen, ioStopped, socket, server, main, backlog, client, sent, answers, history>>
    BY <1>17 DEF Receive
  <2> QED
    BY <1>0, <2>4, <2>5, <2>6, <2>7 DEF history
<1>18. CASE EndOfStream \/ WriteFails \/ DeadlinePasses
  <2>1. pending' \subseteq pending
    BY <1>18 DEF EndOfStream, WriteFails, DeadlinePasses
  <2>2. UNCHANGED <<acceptorOpen, ioStopped, socket, buffer, request, server, main, network, history>>
    BY <1>18 DEF EndOfStream, WriteFails, DeadlinePasses
  <2> QED
    BY <1>0, <2>1, <2>2 DEF network, history
<1>19. CASE WriteEnds
  <2>1. pending' \subseteq pending /\ socket \in Client
    BY <1>0, <1>19 DEF WriteEnds, Op, SocketOp
  <2>2. received' \in [Client -> SUBSET (Client \cup {None})] /\ answers' \in [Client -> Nat]
    BY <1>0, <1>19, <2>1 DEF WriteEnds
  <2>3. UNCHANGED <<acceptorOpen, ioStopped, socket, buffer, request, server, main, backlog, client,
                    stream, sent, begunFor>>
    BY <1>19 DEF WriteEnds
  <2> QED
    BY <1>0, <2>1, <2>2, <2>3
<1> QED
  BY <1>1, <1>2, <1>3, <1>4, <1>5, <1>6, <1>8, <1>9, <1>10, <1>11, <1>12, <1>13, <1>14, <1>15,
     <1>16, <1>17, <1>18, <1>19 DEF Next, Handle, Kernel, Stop

-----------------------------------------------------------------------------
(* The theorems.                                                           *)

\* The inductive invariant: the types, and the order of the handlers.
THEOREM InductiveCorrect == Spec => []IInv
<1>1. IInv /\ UNCHANGED vars => IInv'
  BY DEF IInv, TypeOK, QueueInv, vars, network, history
<1>2. IInv /\ [Next]_vars => IInv'
  BY <1>1, TypeNext, QueueNext DEF IInv
<1> QED
  BY InitIInv, <1>2, PTL DEF Spec

\* Every variable keeps its type, and nothing is read, written or timed without
\* a connection, however many connections come.
THEOREM TypeCorrect == Spec => []TypeOK
<1>1. IInv => TypeOK
  BY DEF IInv
<1> QED
  BY <1>1, InductiveCorrect, PTL

\* There is always exactly one accept on its way, pending or in the queue.
THEOREM AcceptCorrect == Spec => []OneAccept
<1>1. IInv => OneAccept
  <2> SUFFICES ASSUME IInv, Running, acceptorOpen
               PROVE  Cardinality(Queued("accept")) + Cardinality(pending \cap {"accept"}) = 1
    BY DEF OneAccept
  <2>1. /\ InOrder(ready, pending, socket)
        /\ "accept" \in pending \/ Queued("accept") # {}
    BY DEF IInv, QueueInv, Running, Queued
  <2>2. CASE "accept" \in pending
    <3>1. Queued("accept") = {} /\ pending \cap {"accept"} = {"accept"}
      BY <2>1, <2>2 DEF InOrder, Queued
    <3>2. Cardinality({}) = 0 /\ Cardinality({"accept"}) = 1
      BY FS_EmptySet, FS_Singleton
    <3> QED
      BY <3>1, <3>2
  <2>3. CASE "accept" \notin pending
    <3>1. PICK i \in Queued("accept") : TRUE
      BY <2>1, <2>3
    <3>2. Queued("accept") = {i} /\ pending \cap {"accept"} = {}
      BY <2>1, <2>3, <3>1 DEF InOrder, Queued
    <3>3. Cardinality({}) = 0 /\ Cardinality({i}) = 1
      BY FS_EmptySet, FS_Singleton
    <3> QED
      BY <3>2, <3>3
  <2> QED
    BY <2>2, <2>3
<1> QED
  BY <1>1, InductiveCorrect, PTL

\* A deadline never closes the connection of somebody else.
THEOREM DeadlineCorrect == Spec => []DeadlineOwn
<1>1. IInv => DeadlineOwn
  BY Rest DEF DeadlineOwn, OkTimer
<1> QED
  BY <1>1, InductiveCorrect, PTL
-----------------------------------------------------------------------------
(* One operation at a time, and whose request is answered.  The one        *)
(* socket_, buffer_, request_ and response_ serve one operation after the  *)
(* other, and a client gets the answer to a request of its own.  Both need *)
(* to know how far a connection has been read when an operation begins and *)
(* ends, so the inductive invariant counts pieces.                         *)


-----------------------------------------------------------------------------
(* The handlers of a queue, by their kind and order.                       *)

Kind(h) == IF h.result = "ok" THEN h.op
           ELSE IF h.op = "write" THEN "failed" ELSE "void"

Has(q, k) == \E i \in 1..Len(q) : Kind(q[i]) = k
After(q, k, l) == \E i, j \in 1..Len(q) : i < j /\ Kind(q[i]) = k /\ Kind(q[j]) = l

\* A connection that was accepted and waits to be served.
Offers(q, c) == \E i \in 1..Len(q) : OkAccept(q[i]) /\ q[i].conn = c

LEMMA HasConcat ==
  ASSUME NEW q \in Seq(Handler), NEW r \in Seq(Handler), NEW k
  PROVE  Has(q \o r, k) <=> Has(q, k) \/ Has(r, k)
<1> HIDE DEF Kind
<1>1. ASSUME NEW i \in 1..Len(r) PROVE Len(q) + i \in 1..Len(q \o r) /\ (q \o r)[Len(q) + i] = r[i]
  BY Concat
<1>2. ASSUME NEW i \in 1..Len(q) PROVE i \in 1..Len(q \o r) /\ (q \o r)[i] = q[i]
  BY Concat
<1>3. Has(q, k) => Has(q \o r, k)
  BY <1>2 DEF Has
<1>4. Has(r, k) => Has(q \o r, k)
  BY <1>1 DEF Has
<1>5. Has(q \o r, k) => Has(q, k) \/ Has(r, k)
  <2>1. \A i \in 1..Len(q \o r) : \/ i \in 1..Len(q) /\ (q \o r)[i] = q[i]
                                  \/ i - Len(q) \in 1..Len(r) /\ (q \o r)[i] = r[i - Len(q)]
    BY Concat
  <2> QED
    BY <2>1 DEF Has
<1> QED
  BY <1>3, <1>4, <1>5

LEMMA AfterConcat ==
  ASSUME NEW q \in Seq(Handler), NEW r \in Seq(Handler), NEW k, NEW l, After(q \o r, k, l)
  PROVE  After(q, k, l) \/ (Has(q, k) /\ Has(r, l)) \/ (Has(r, k) /\ Has(r, l))
<1> HIDE DEF Kind
<1>1. PICK i, j \in 1..Len(q \o r) : i < j /\ Kind((q \o r)[i]) = k /\ Kind((q \o r)[j]) = l
  BY DEF After
<1>2. \A m \in 1..Len(q \o r) : \/ m \in 1..Len(q) /\ (q \o r)[m] = q[m]
                                \/ m - Len(q) \in 1..Len(r) /\ (q \o r)[m] = r[m - Len(q)]
  BY Concat
<1>3. CASE j \in 1..Len(q) /\ (q \o r)[j] = q[j]
  <2>1. i \in 1..Len(q) /\ (q \o r)[i] = q[i]
    BY <1>1, <1>3, Concat
  <2> QED
    BY <1>1, <1>3, <2>1 DEF After
<1>4. CASE j - Len(q) \in 1..Len(r) /\ (q \o r)[j] = r[j - Len(q)]
  <2>1. Has(r, l)
    BY <1>1, <1>4 DEF Has
  <2>2. Has(q, k) \/ Has(r, k)
    BY <1>1, <1>2 DEF Has
  <2> QED
    BY <2>1, <2>2
<1> QED
  BY <1>2, <1>3, <1>4

LEMMA KindTail ==
  ASSUME NEW q \in Seq(Handler), q # <<>>, NEW k, NEW l
  PROVE  /\ Tail(q) \in Seq(Handler)
         /\ Has(q, Kind(Head(q)))
         /\ Has(Tail(q), k) => Has(q, k) /\ After(q, Kind(Head(q)), k)
         /\ After(Tail(q), k, l) => After(q, k, l)
<1> HIDE DEF Kind
<1>1. /\ Tail(q) \in Seq(Handler) /\ 1 \in 1..Len(q) /\ Head(q) = q[1]
      /\ \A i \in 1..Len(Tail(q)) : i \in Int /\ i + 1 \in 1..Len(q) /\ 1 < i + 1 /\ Tail(q)[i] = q[i + 1]
  OBVIOUS
<1> DEFINE t == Tail(q)
<1> HIDE DEF t
<1>2. \A i \in 1..Len(t) : i \in Int /\ i + 1 \in 1..Len(q) /\ 1 < i + 1 /\ t[i] = q[i + 1]
  BY <1>1 DEF t
<1>3. Has(t, k) => Has(q, k) /\ After(q, Kind(Head(q)), k)
  BY <1>1, <1>2 DEF Has, After
<1>4. After(t, k, l) => After(q, k, l)
  BY <1>2 DEF After
<1>5. Has(q, Kind(Head(q)))
  BY <1>1 DEF Has
<1> QED
  BY <1>1, <1>3, <1>4, <1>5 DEF t

LEMMA KindOne ==
  ASSUME NEW h \in Handler, NEW k
  PROVE  /\ <<h>> \in Seq(Handler) /\ (Has(<<h>>, k) <=> Kind(h) = k)
         /\ \A l : ~After(<<h>>, k, l)
<1>1. <<h>> \in Seq(Handler) /\ Len(<<h>>) = 1 /\ <<h>>[1] = h /\ 1..1 = {1}
  OBVIOUS
<1> HIDE DEF Kind
<1> QED
  BY <1>1 DEF Has, After

LEMMA KindNone == <<>> \in Seq(Handler) /\ \A k, l : ~Has(<<>>, k) /\ ~After(<<>>, k, l)
  BY DEF Has, After

LEMMA OffersConcat ==
  ASSUME NEW q \in Seq(Handler), NEW r \in Seq(Handler), NEW c, Offers(q \o r, c)
  PROVE  Offers(q, c) \/ Offers(r, c)
<1>1. \A i \in 1..Len(q \o r) : \/ i \in 1..Len(q) /\ (q \o r)[i] = q[i]
                                \/ i - Len(q) \in 1..Len(r) /\ (q \o r)[i] = r[i - Len(q)]
  BY Concat
<1> HIDE DEF OkAccept
<1> QED
  BY <1>1 DEF Offers

LEMMA OffersTail ==
  ASSUME NEW q \in Seq(Handler), q # <<>>, NEW c, Offers(Tail(q), c)
  PROVE  Offers(q, c)
<1>1. \A i \in 1..Len(Tail(q)) : i + 1 \in 1..Len(q) /\ Tail(q)[i] = q[i + 1]
  OBVIOUS
<1> HIDE DEF OkAccept
<1> QED
  BY <1>1 DEF Offers

LEMMA OffersKind ==
  ASSUME NEW q, NEW c, Offers(q, c)
  PROVE  Has(q, "accept")
<1>1. \A h : OkAccept(h) => Kind(h) = "accept"
  BY DEF OkAccept, Kind
<1> QED
  BY <1>1 DEF Offers, Has

\* The kinds that InOrder is about.
LEMMA OrderKinds ==
  ASSUME NEW q \in Seq(Handler), NEW p, NEW s, InOrder(q, p, s)
  PROVE  /\ Has(q, "accept") => s = None
         /\ Has(q, "timer") => "timer" \notin p
         /\ ~After(q, "accept", "accept") /\ ~After(q, "accept", "timer")
<1>1. \A h : h \in Handler => /\ Kind(h) = "accept" => OkAccept(h) /\ h.op = "accept"
                              /\ Kind(h) = "timer" => OkTimer(h)
  BY DEF Kind, Handler, OkAccept, OkTimer
<1>2. \A i \in 1..Len(q) : i \in Int /\ q[i] \in Handler
  OBVIOUS
<1>3. Has(q, "accept") => s = None
  BY <1>1, <1>2 DEF Has, InOrder
<1>4. Has(q, "timer") => "timer" \notin p
  BY <1>1, <1>2 DEF Has, InOrder
<1>5. ~After(q, "accept", "accept")
  BY <1>1, <1>2 DEF After, InOrder
<1>6. ~After(q, "accept", "timer")
  BY <1>1, <1>2 DEF After, InOrder
<1> QED
  BY <1>3, <1>4, <1>5, <1>6

-----------------------------------------------------------------------------
(* What the handlers queue.                                                *)

\* The kinds that tell nothing of the socket.
Mute == {"void", "timer", "accept"}

LEMMA EndedKind ==
  ASSUME TypeOK, NEW op \in Op, NEW result \in Result
  PROVE  /\ Ended(op, result) \in Handler
         /\ result = "ok" => Kind(Ended(op, result)) = op
         /\ result = "error" => Kind(Ended(op, result)) = IF op = "write" THEN "failed" ELSE "void"
<1>1. /\ Ended(op, result) \in Handler
      /\ Ended(op, result).op = op /\ Ended(op, result).result = result
  BY EndedPlain
<1> QED
  BY <1>1 DEF Kind, Result

LEMMA AbortedKinds ==
  ASSUME TypeOK, NEW ops
  PROVE  /\ Aborted(ops) \in Seq(Handler)
         /\ \A k : Has(Aborted(ops), k) => k = "void" \/ (k = "failed" /\ "write" \in ops \cap pending)
<1>1. ASSUME NEW op \in Op
      PROVE  /\ AbortedOne(op, ops) \in Seq(Handler)
             /\ \A k : Has(AbortedOne(op, ops), k) =>
                         k = "void" \/ (k = "failed" /\ op = "write" /\ "write" \in ops \cap pending)
  <2>1. CASE op \in ops \cap pending
    <3>1. /\ Ended(op, "error") \in Handler
          /\ Kind(Ended(op, "error")) = IF op = "write" THEN "failed" ELSE "void"
      BY EndedKind DEF Result
    <3> QED
      BY <2>1, <3>1, KindOne DEF AbortedOne
  <2>2. CASE op \notin ops \cap pending
    BY <2>2, KindNone DEF AbortedOne
  <2> QED
    BY <2>1, <2>2
<1>2. "read" \in Op /\ "write" \in Op /\ "timer" \in Op
  BY DEF Op, SocketOp
<1> DEFINE r == AbortedOne("read", ops)
           w == AbortedOne("write", ops)
           t == AbortedOne("timer", ops)
<1>3. r \in Seq(Handler) /\ w \in Seq(Handler) /\ t \in Seq(Handler)
  BY <1>1, <1>2
<1>4. Aborted(ops) = r \o w \o t
  BY DEF Aborted
<1>5. \A k : Has(r, k) \/ Has(w, k) \/ Has(t, k) => k = "void" \/ (k = "failed" /\ "write" \in ops \cap pending)
  BY <1>1, <1>2
<1> HIDE DEF r, w, t
<1>6. (r \o w) \in Seq(Handler) /\ (r \o w) \o t \in Seq(Handler)
  BY <1>3, Concat
<1>7. \A k : Has((r \o w) \o t, k) => Has(r, k) \/ Has(w, k) \/ Has(t, k)
  BY <1>3, <1>6, HasConcat
<1> QED
  BY <1>4, <1>5, <1>6, <1>7

LEMMA ReadKinds ==
  ASSUME NEW s \in Client \cup {None}
  PROVE  /\ ReadEnded(s) \in Seq(Handler)
         /\ \A k : Has(ReadEnded(s), k) => k = "void" \/ (k = "read" /\ Whole(buffer))
         /\ \A k : ~After(ReadEnded(s), k, k)
         /\ ReadPends(s) \subseteq {"read"}
         /\ ReadPends(s) # {} => ~Whole(buffer) /\ ~Malformed(buffer) /\ s # None
<1>1. ASSUME NEW result \in Result
      PROVE  LET h == [op |-> "read", result |-> result, conn |-> s]
             IN  h \in Handler /\ Kind(h) = (IF result = "ok" THEN "read" ELSE "void")
  BY DEF Handler, Op, SocketOp, Result, Kind
<1>2. CASE Whole(buffer)
  BY <1>1, <1>2, KindOne DEF ReadEnded, Result, ReadPends
<1>3. CASE ~Whole(buffer) /\ (Malformed(buffer) \/ s = None)
  BY <1>1, <1>3, KindOne DEF ReadEnded, Result, ReadPends
<1>4. CASE ~Whole(buffer) /\ ~Malformed(buffer) /\ s # None
  BY <1>4, KindNone DEF ReadEnded, ReadPends
<1> QED
  BY <1>2, <1>3, <1>4

LEMMA RefusedKinds ==
  ASSUME NEW s \in Client \cup {None}
  PROVE  /\ AcceptRefused(s) \in Seq(Handler)
         /\ \A k : Has(AcceptRefused(s), k) => k = "void"
<1> DEFINE h == [op |-> "accept", result |-> "error", conn |-> s]
<1>1. h \in Handler /\ Kind(h) = "void"
  BY DEF Handler, Result, Kind
<1> HIDE DEF h
<1> QED
  BY <1>1, KindOne, KindNone DEF AcceptRefused, h

-----------------------------------------------------------------------------
(* One operation at a time.                                                *)

\* What may stand in queue q while the operations of p are pending: one read or
\* write at most, pending or done; none behind a new connection; and a write
\* that failed before whatever is read now.
OneInUse(q, p) ==
  /\ ~("read" \in p /\ "write" \in p)
  /\ Has(q, "read") \/ Has(q, "write") => "read" \notin p /\ "write" \notin p
  /\ ~(Has(q, "read") /\ Has(q, "write"))
  /\ ~After(q, "read", "read") /\ ~After(q, "write", "write")
  /\ ~After(q, "accept", "read") /\ ~After(q, "accept", "write")
  /\ Has(q, "failed") => "write" \notin p /\ ~Has(q, "write")
  /\ ~After(q, "read", "failed")

LEMMA UseTail ==
  ASSUME NEW q \in Seq(Handler), NEW p, q # <<>>, OneInUse(q, p)
  PROVE  Tail(q) \in Seq(Handler) /\ OneInUse(Tail(q), p)
  BY KindTail DEF OneInUse

\* Handlers that begin nothing come to its end, while operations end.
LEMMA UseBehind ==
  ASSUME NEW q \in Seq(Handler), NEW r \in Seq(Handler), NEW p, NEW o, OneInUse(q, p),
         o \cap SocketOp \subseteq p,
         \A k : Has(r, k) => k \in Mute \cup {"failed"},
         Has(r, "failed") => "write" \notin o /\ ~Has(q, "read") /\ ~Has(q, "write")
  PROVE  q \o r \in Seq(Handler) /\ OneInUse(q \o r, o)
<1>1. ~Has(r, "read") /\ ~Has(r, "write")
  BY DEF Mute
<1>2. q \o r \in Seq(Handler)
  BY Concat
<1>3. ("read" \in o => "read" \in p) /\ ("write" \in o => "write" \in p)
  BY DEF SocketOp
<1> QED
  BY <1>1, <1>2, <1>3, HasConcat, AfterConcat DEF OneInUse

\* The operation that was in use is done: so is its handler, at the end.
LEMMA UseEnds ==
  ASSUME NEW q \in Seq(Handler), NEW r \in Seq(Handler), NEW p, NEW o, NEW op \in SocketOp,
         OneInUse(q, p), ~Has(q, "read"), ~Has(q, "write"), ~Has(q, "accept"),
         \A k : Has(r, k) => k \in {"void", op}, ~After(r, op, op),
         op = "write" => ~Has(q, "failed"),
         Has(r, op) => o \cap SocketOp = {},
         ~("read" \in o /\ "write" \in o), "write" \notin o
  PROVE  q \o r \in Seq(Handler) /\ OneInUse(q \o r, o)
<1>1. q \o r \in Seq(Handler)
  BY Concat
<1>2. op = "read" \/ op = "write"
  BY DEF SocketOp
<1>3. ~Has(r, "failed") /\ ~Has(r, "accept")
  BY <1>2
<1>4. Has(r, op) => "read" \notin o /\ "write" \notin o
  BY DEF SocketOp
<1>5. ~(Has(r, "read") /\ Has(r, "write"))
  BY <1>2
<1> DEFINE t == q \o r
<1>6. \A k : Has(t, k) => Has(q, k) \/ Has(r, k)
  BY HasConcat
<1>7. \A k, l : After(t, k, l) => After(q, k, l) \/ (Has(q, k) /\ Has(r, l)) \/ (Has(r, k) /\ Has(r, l))
  BY AfterConcat
<1>8. ASSUME After(t, op, op) PROVE FALSE
  <2>1. PICK i, j \in 1..Len(t) : i < j /\ Kind(t[i]) = op /\ Kind(t[j]) = op
    BY <1>8 DEF After
  <2>2. ASSUME NEW m \in 1..Len(t), Kind(t[m]) = op
        PROVE  m - Len(q) \in 1..Len(r) /\ t[m] = r[m - Len(q)]
    <3>1. ~Has(q, op)
      BY <1>2
    <3>2. \A n \in 1..Len(q) : Kind(q[n]) # op
      BY <3>1 DEF Has
    <3> QED
      BY <2>2, <3>2, Concat
  <2>3. i - Len(q) < j - Len(q)
    BY <2>1, Concat
  <2> HIDE DEF t
  <2> QED
    BY <2>1, <2>2, <2>3 DEF After
<1> HIDE DEF t
<1>9. CASE op = "read"
  <2>1. ~Has(t, "write") /\ ~After(t, "write", "write") /\ ~After(t, "read", "read")
    BY <1>6, <1>7, <1>8, <1>9 DEF OneInUse
  <2>2. (Has(t, "read") => "read" \notin o /\ "write" \notin o)
    BY <1>4, <1>6, <1>9
  <2>3. ~After(t, "accept", "read") /\ ~After(t, "accept", "write") /\ ~After(t, "read", "failed")
    BY <1>3, <1>7 DEF OneInUse
  <2>4. Has(t, "failed") => "write" \notin o /\ ~Has(t, "write")
    BY <1>3, <1>6, <1>9, <2>1
  <2> QED
    BY <1>1, <2>1, <2>2, <2>3, <2>4 DEF OneInUse, t
<1>10. CASE op = "write"
  <2>1. ~Has(t, "read") /\ ~After(t, "read", "read") /\ ~After(t, "write", "write")
    BY <1>6, <1>7, <1>8, <1>10 DEF OneInUse
  <2>2. (Has(t, "write") => "read" \notin o /\ "write" \notin o)
    BY <1>4, <1>6, <1>10
  <2>3. ~After(t, "accept", "read") /\ ~After(t, "accept", "write") /\ ~After(t, "read", "failed")
    BY <1>3, <1>7 DEF OneInUse
  <2>4. Has(t, "failed") => "write" \notin o /\ ~Has(t, "write")
    BY <1>3, <1>6, <1>10
  <2> QED
    BY <1>1, <2>1, <2>2, <2>3, <2>4 DEF OneInUse, t
<1> QED
  BY <1>1, <1>2, <1>9, <1>10 DEF t

-----------------------------------------------------------------------------
(* One step.                                                               *)

\* No read, write or deadline begins or is done that was not so before.
Quieter ==
  /\ pending' \cap Op \subseteq pending
  /\ Has(ready', "read") => Has(ready, "read")
  /\ Has(ready', "write") => Has(ready, "write")
  /\ Has(ready', "timer") => Has(ready, "timer")
  /\ After(ready', "read", "timer") => After(ready, "read", "timer")



\* No connection is accepted.
NoneOffered == \A c : Offers(ready', c) => Offers(ready, c)

LEMMA QuietStep ==
  ASSUME IInv, OneInUse(ready, pending), NEW q, NEW r \in Seq(Handler),
         q = ready \/ (ready # <<>> /\ q = Tail(ready)),
         ready' = q \o r, pending' \cap Op \subseteq pending,
         \A k : Has(r, k) => k \in {"void", "accept", "failed"},
         Has(r, "failed") => "write" \notin pending' /\ ~Has(q, "read") /\ ~Has(q, "write")
  PROVE  /\ OneInUse(ready', pending') /\ Quieter
         /\ ~Has(r, "accept") => NoneOffered
<1>1. ready \in Seq(Handler)
  BY DEF IInv, TypeOK
<1>2. /\ q \in Seq(Handler) /\ OneInUse(q, pending)
      /\ \A k : Has(q, k) => Has(ready, k)
      /\ \A k, l : After(q, k, l) => After(ready, k, l)
      /\ \A c : Offers(q, c) => Offers(ready, c)
  <2>1. CASE q = ready
    BY <1>1, <2>1
  <2>2. CASE ready # <<>> /\ q = Tail(ready)
    BY <1>1, <2>2, UseTail, KindTail, OffersTail
  <2> QED
    BY <2>1, <2>2
<1>3. pending' \cap SocketOp \subseteq pending
  BY DEF Op
<1>4. OneInUse(ready', pending')
  BY <1>2, <1>3, UseBehind DEF Mute
<1>5. ~Has(r, "read") /\ ~Has(r, "write") /\ ~Has(r, "timer")
  OBVIOUS
<1>6. Quieter
  BY <1>2, <1>5, HasConcat, AfterConcat DEF Quieter
<1>7. ~Has(r, "accept") => NoneOffered
  BY <1>2, OffersConcat, OffersKind DEF NoneOffered
<1> QED
  BY <1>4, <1>6, <1>7

\* The handler that runs is the first one.
LEMMA HeadKind ==
  ASSUME IInv, NEW op, NEW result, Run(op, result)
  PROVE  /\ ready # <<>> /\ Head(ready) \in Handler /\ ready \in Seq(Handler)
         /\ Kind(Head(ready)) = IF result = "ok" THEN op ELSE IF op = "write" THEN "failed" ELSE "void"
         /\ Has(ready, Kind(Head(ready)))
         /\ \A k : Has(Tail(ready), k) => Has(ready, k) /\ After(ready, Kind(Head(ready)), k)
<1>1. ready # <<>> /\ ready \in Seq(Handler) /\ Head(ready).op = op /\ Head(ready).result = result
  BY DEF Run, IInv, TypeOK
<1>2. Kind(Head(ready)) = IF result = "ok" THEN op ELSE IF op = "write" THEN "failed" ELSE "void"
  BY <1>1 DEF Kind
<1>3. Head(ready) \in Handler
  BY <1>1
<1> QED
  BY <1>1, <1>2, <1>3, KindTail

\* The handlers that begin and complete nothing.
LEMMA QuietHandler ==
  ASSUME IInv, OneInUse(ready, pending),
         OnAcceptError \/ (OnRead /\ socket = None) \/ OnReadError \/ OnWriteError
           \/ OnDeadline \/ OnDeadlineCancelled
  PROVE  OneInUse(ready', pending') /\ Quieter /\ NoneOffered
<1> DEFINE t == Tail(ready)
<1>0. TypeOK /\ ready \in Seq(Handler) /\ socket \in Client \cup {None}
  BY DEF IInv, TypeOK
<1>1. CASE OnAcceptError
  <2>1. ready # <<>> /\ ready' = t \o AcceptRefused(socket)
    BY <1>1 DEF OnAcceptError, Run
  <2>2. pending' \cap Op \subseteq pending
    BY <1>1 DEF OnAcceptError, AcceptPends, Op, SocketOp
  <2> HIDE DEF t
  <2>3. AcceptRefused(socket) \in Seq(Handler) /\ \A k : Has(AcceptRefused(socket), k) => k = "void"
    BY <1>0, RefusedKinds
  <2> QED
    BY <2>1, <2>2, <2>3, QuietStep DEF t
<1>2. CASE OnRead /\ socket = None
  <2>1. Run("read", "ok") /\ ready' = Append(t, Refused("write")) /\ pending' = pending
    BY <1>2 DEF OnRead, ProcessRequest
  <2>2. ready # <<>> /\ Kind(Head(ready)) = "read" /\ Has(ready, "read") /\ t \in Seq(Handler)
        /\ \A k : Has(t, k) => Has(ready, k) /\ After(ready, "read", k)
    BY <1>0, <2>1, HeadKind, KindTail
  <2>3. Refused("write") \in Handler /\ Kind(Refused("write")) = "failed"
    BY <1>0 DEF Refused, Handler, Op, SocketOp, Result, Kind
  <2>4. "write" \notin pending /\ ~Has(t, "read") /\ ~Has(t, "write")
    BY <2>2 DEF OneInUse
  <2>5. ready' = t \o <<Refused("write")>>
    BY <2>1, <2>2, <2>3, AppendConcat
  <2> QED
    BY <2>1, <2>2, <2>3, <2>4, <2>5, QuietStep, KindOne
<1>3. CASE OnReadError \/ OnDeadlineCancelled
  <2>1. ready # <<>> /\ ready' = t /\ pending' = pending
    BY <1>3 DEF OnReadError, OnDeadlineCancelled, Run
  <2>2. ready' = t \o <<>>
    BY <1>0, <2>1
  <2> QED
    BY <2>1, <2>2, QuietStep, KindNone
<1>4. CASE OnWriteError
  <2>1. Run("write", "error") /\ ready' = t \o Aborted(Op) /\ pending' = pending \ Op
    BY <1>4 DEF OnWriteError, EndedByWriteError
  <2>2. ready # <<>> /\ Has(ready, "failed") /\ "write" \notin pending
    BY <2>1, HeadKind DEF OneInUse
  <2>3. Aborted(Op) \in Seq(Handler) /\ \A k : Has(Aborted(Op), k) => k = "void"
    BY <1>0, <2>2, AbortedKinds
  <2> QED
    BY <2>1, <2>2, <2>3, QuietStep
<1>5. CASE OnDeadline
  <2>1. Run("timer", "ok") /\ ready' = t \o Aborted(SocketOp) /\ pending' = pending \ SocketOp
    BY <1>5 DEF OnDeadline
  <2>2. ready # <<>> /\ \A k : Has(t, k) => Has(ready, k)
    BY <2>1, HeadKind
  <2>3. /\ Aborted(SocketOp) \in Seq(Handler)
        /\ \A k : Has(Aborted(SocketOp), k) => k = "void" \/ (k = "failed" /\ "write" \in pending)
    BY <1>0, AbortedKinds
  <2>4. "write" \in pending => ~Has(t, "read") /\ ~Has(t, "write")
    BY <2>2 DEF OneInUse
  <2>5. "write" \notin pending' /\ pending' \cap Op \subseteq pending
    BY <2>1 DEF SocketOp
  <2> QED
    <3>1. ~Has(Aborted(SocketOp), "accept")
      BY <2>3
    <3>2. \A k : Has(Aborted(SocketOp), k) => k \in {"void", "accept", "failed"}
      BY <2>3
    <3>3. Has(Aborted(SocketOp), "failed") => "write" \notin pending' /\ ~Has(t, "read") /\ ~Has(t, "write")
      BY <2>3, <2>4, <2>5
    <3> HIDE DEF t
    <3> QED
      BY <2>1, <2>2, <2>3, <2>5, <3>1, <3>2, <3>3, QuietStep DEF t
<1> QED
  BY <1>1, <1>2, <1>3, <1>4, <1>5

\* The other steps that do so.
LEMMA QuietEvent ==
  ASSUME IInv, OneInUse(ready, pending),
         \/ StartServer \/ ServerReturns \/ CloseAcceptor \/ StopContext
         \/ AcceptEnds \/ EndOfStream \/ WriteFails
         \/ \E c \in Client : Connect(c) \/ Send(c) \/ Leave(c)
  PROVE  /\ OneInUse(ready', pending') /\ Quieter
         /\ AcceptEnds \/ NoneOffered
         /\ AcceptEnds => \A c : Offers(ready', c) => Offers(ready, c) \/ c = Head(backlog)
<1>0. TypeOK /\ ready \in Seq(Handler) /\ ready = ready \o <<>>
  BY DEF IInv, TypeOK
<1>1. ASSUME ready' = ready, pending' \cap Op \subseteq pending
      PROVE  OneInUse(ready', pending') /\ Quieter /\ NoneOffered
  BY <1>0, <1>1, QuietStep, KindNone
<1>2. CASE StartServer
  BY <1>1, <1>2 DEF StartServer, AcceptPends, Op, SocketOp
<1>3. CASE ServerReturns \/ StopContext
  BY <1>1, <1>3 DEF ServerReturns, StopContext
<1>4. ASSUME NEW c \in Client, Connect(c) \/ Send(c) \/ Leave(c)
      PROVE  OneInUse(ready', pending') /\ Quieter /\ NoneOffered
  BY <1>1, <1>4 DEF Connect, Send, Leave
<1>5. ASSUME NEW h \in Handler, ready' = Append(ready, h), pending' \subseteq pending,
             Kind(h) \in {"void", "accept", "failed"},
             Kind(h) = "failed" => "write" \in pending /\ "write" \notin pending'
      PROVE  OneInUse(ready', pending') /\ Quieter /\ (Kind(h) # "accept" => NoneOffered)
  <2>1. ready' = ready \o <<h>> /\ <<h>> \in Seq(Handler) /\ \A k : Has(<<h>>, k) => k = Kind(h)
    BY <1>0, <1>5, AppendConcat, KindOne
  <2>2. "write" \in pending => ~Has(ready, "read") /\ ~Has(ready, "write")
    BY DEF OneInUse
  <2> HIDE DEF Kind
  <2> QED
    BY <1>5, <2>1, <2>2, QuietStep
<1>6. CASE CloseAcceptor
  <2> DEFINE h == [op |-> "accept", result |-> "error", conn |-> None]
  <2>1. h \in Handler /\ Kind(h) = "void"
    BY DEF Handler, Result, Kind
  <2>2. /\ pending' \subseteq pending
        /\ ready' = ready \o (IF "accept" \in pending THEN <<h>> ELSE <<>>)
    BY <1>6 DEF CloseAcceptor
  <2> HIDE DEF h
  <2>3. CASE "accept" \in pending
    <3>1. ready' = Append(ready, h)
      BY <1>0, <2>1, <2>2, <2>3, AppendConcat
    <3> QED
      BY <1>5, <2>1, <2>2, <3>1 DEF NoneOffered
  <2>4. CASE "accept" \notin pending
    BY <1>0, <1>1, <2>2, <2>4 DEF NoneOffered
  <2> QED
    BY <2>3, <2>4
<1>7. CASE AcceptEnds
  <2> DEFINE h == [op |-> "accept", result |-> "ok", conn |-> Head(backlog)]
  <2>1. h \in Handler /\ Kind(h) = "accept"
    BY <1>0, <1>7 DEF Handler, Result, Kind, AcceptEnds, TypeOK
  <2>2. ready' = Append(ready, h) /\ pending' \subseteq pending
    BY <1>7 DEF AcceptEnds
  <2>3. \A c : Offers(<<h>>, c) => c = Head(backlog)
    BY DEF Offers
  <2>4. ready' = ready \o <<h>> /\ <<h>> \in Seq(Handler)
    BY <1>0, <2>1, <2>2
  <2> HIDE DEF h
  <2>5. \A c : Offers(ready', c) => Offers(ready, c) \/ c = Head(backlog)
    BY <1>0, <2>3, <2>4, OffersConcat
  <2> QED
    BY <1>5, <1>7, <2>1, <2>2, <2>5
<1>8. CASE EndOfStream \/ WriteFails
  <2>1. PICK op \in SocketOp : /\ op \in pending /\ pending' = pending \ {op}
                               /\ ready' = Append(ready, Ended(op, "error"))
    BY <1>8 DEF EndOfStream, WriteFails, SocketOp
  <2>2. /\ Ended(op, "error") \in Handler
        /\ Kind(Ended(op, "error")) = IF op = "write" THEN "failed" ELSE "void"
    BY <1>0, EndedKind DEF Op, Result
  <2>3. Kind(Ended(op, "error")) # "accept"
    BY <2>2
  <2> HIDE DEF Ended, Kind
  <2> QED
    BY <1>5, <2>1, <2>2, <2>3 DEF NoneOffered
<1> QED
  BY <1>2, <1>3, <1>4, <1>6, <1>7, <1>8 DEF NoneOffered

\* A new connection: nothing else is in use.
LEMMA UseAccept ==
  ASSUME IInv, OneInUse(ready, pending), OnAccept
  PROVE  /\ OneInUse(ready', pending')
         /\ socket' \in Client /\ socket = None
         /\ "write" \notin pending'
         /\ "read" \in pending' => ~Whole(buffer) /\ ~Malformed(buffer)
         /\ Has(ready', "read") => Whole(buffer)
         /\ ~Has(ready', "write") /\ ~Has(ready', "timer") /\ \A x : ~Offers(ready', x)
         /\ socket' = Head(ready).conn /\ Offers(ready, socket')
<1> DEFINE t == Tail(ready)
           c == Head(ready).conn
           e == ReadEnded(c)
           a == Aborted({"timer"})
           f == AcceptRefused(c)
<1>0. TypeOK /\ ready \in Seq(Handler) /\ InOrder(ready, pending, socket)
  BY DEF IInv, TypeOK, QueueInv
<1>1. /\ Run("accept", "ok") /\ socket' = c /\ pending' = pending \cup ReadPends(c) \cup {"timer"}
      /\ ready' = t \o e \o a \o f
  BY DEF OnAccept, CheckDeadline
<1>2. /\ ready # <<>> /\ Kind(Head(ready)) = "accept" /\ Has(ready, "accept") /\ t \in Seq(Handler)
      /\ \A k : Has(t, k) => Has(ready, k) /\ After(ready, "accept", k)
      /\ Head(ready).op = "accept" /\ Head(ready).result = "ok"
  BY <1>0, <1>1, HeadKind, KindTail DEF Run
<1>3. socket = None /\ ~Has(t, "accept") /\ ~Has(t, "timer") /\ ~Has(t, "read") /\ ~Has(t, "write")
  BY <1>0, <1>2, OrderKinds DEF OneInUse
<1>4. c \in Client
  BY <1>0, <1>2, Rest DEF OkAccept, Handler
<1>5. OneInUse(t, pending) /\ pending \cap Op = {}
  BY <1>0, <1>2, <1>3, UseTail DEF TypeOK
<1>6. /\ e \in Seq(Handler) /\ \A k : Has(e, k) => k = "void" \/ (k = "read" /\ Whole(buffer))
      /\ ~After(e, "read", "read") /\ ReadPends(c) \subseteq {"read"}
      /\ ReadPends(c) # {} => ~Whole(buffer) /\ ~Malformed(buffer)
  BY <1>4, ReadKinds
<1>7. a \in Seq(Handler) /\ \A k : Has(a, k) => k = "void"
  BY <1>0, AbortedKinds
<1>8. f \in Seq(Handler) /\ \A k : Has(f, k) => k = "void"
  BY <1>4, RefusedKinds
<1> HIDE DEF t, c, e, a, f
<1>9. "write" \notin pending' /\ ("read" \in pending' => ReadPends(c) # {})
      /\ pending' \cap SocketOp \subseteq {"read"}
  BY <1>1, <1>5, <1>6 DEF Op, SocketOp
<1>10. t \o e \in Seq(Handler) /\ OneInUse(t \o e, pending')
  <2>1. "read" \in SocketOp
    BY DEF SocketOp
  <2>2. Has(e, "read") => pending' \cap SocketOp = {}
    BY <1>6, <1>9
  <2> QED
    BY <1>2, <1>3, <1>5, <1>6, <1>9, <2>1, <2>2, UseEnds
<1>11. (t \o e) \o a \in Seq(Handler) /\ OneInUse((t \o e) \o a, pending')
  <2> DEFINE te == t \o e
  <2>1. te \in Seq(Handler) /\ OneInUse(te, pending')
    BY <1>10
  <2> HIDE DEF te
  <2>2. te \o a \in Seq(Handler) /\ OneInUse(te \o a, pending')
    BY <1>7, <2>1, UseBehind DEF Mute
  <2> QED
    BY <2>2 DEF te
<1>12. OneInUse(ready', pending')
  <2> DEFINE tea == (t \o e) \o a
  <2>1. tea \in Seq(Handler) /\ OneInUse(tea, pending') /\ ready' = tea \o f
    BY <1>1, <1>11
  <2> HIDE DEF tea
  <2> QED
    BY <1>8, <2>1, UseBehind DEF Mute
<1>13. \A k : Has(ready', k) => Has(t, k) \/ Has(e, k) \/ Has(a, k) \/ Has(f, k)
  BY <1>1, <1>2, <1>6, <1>7, <1>8, <1>10, <1>11, HasConcat
<1>14. \A x : ~Offers(ready', x)
  BY <1>3, <1>6, <1>7, <1>8, <1>13, OffersKind
<1>15. Offers(ready, c)
  <2>1. ready[1] = Head(ready) /\ 1 \in 1..Len(ready)
    BY <1>0, <1>2
  <2> QED
    BY <1>2, <2>1 DEF Offers, OkAccept, c
<1> QED
  BY <1>1, <1>3, <1>4, <1>6, <1>7, <1>8, <1>9, <1>12, <1>13, <1>14, <1>15 DEF c

\* The answer to a request begins.
LEMMA UseRead ==
  ASSUME IInv, OneInUse(ready, pending), OnRead, socket # None
  PROVE  /\ OneInUse(ready', pending')
         /\ Has(ready, "read") /\ pending' = pending \cup {"write"}
         /\ "read" \notin pending' /\ ~Has(ready', "read") /\ ~Has(ready', "write")
         /\ Has(ready', "timer") => After(ready, "read", "timer")
         /\ NoneOffered
<1>0. ready \in Seq(Handler)
  BY DEF IInv, TypeOK
<1>1. Run("read", "ok") /\ ready' = Tail(ready) /\ pending' = pending \cup {"write"}
  BY DEF OnRead, ProcessRequest
<1>2. /\ ready # <<>> /\ Has(ready, "read")
      /\ \A k : Has(ready', k) => Has(ready, k) /\ After(ready, "read", k)
      /\ ready' \in Seq(Handler) /\ \A k, l : After(ready', k, l) => After(ready, k, l)
  BY <1>0, <1>1, HeadKind, KindTail
<1>3. "read" \notin pending' /\ ~Has(ready', "read") /\ ~Has(ready', "write") /\ ~Has(ready', "failed")
  BY <1>1, <1>2 DEF OneInUse
<1>4. OneInUse(ready', pending')
  BY <1>2, <1>3 DEF OneInUse
<1> QED
  BY <1>0, <1>1, <1>2, <1>3, <1>4, OffersTail DEF NoneOffered

\* The next request, when the answer is out.
LEMMA UseWrite ==
  ASSUME IInv, OneInUse(ready, pending), OnWrite, socket = None => ~Whole(buffer)
  PROVE  /\ OneInUse(ready', pending')
         /\ Has(ready, "write") /\ "write" \notin pending' /\ "timer" \notin pending'
         /\ "read" \in pending' => ~Whole(buffer) /\ ~Malformed(buffer) /\ socket # None
         /\ Has(ready', "read") => Whole(buffer)
         /\ ~Has(ready', "write") /\ ~After(ready', "read", "timer")
         /\ Has(ready', "timer") => Has(ready, "timer")
         /\ NoneOffered
<1> DEFINE t == Tail(ready)
           e == ReadEnded(socket)
           a == Aborted({"timer"})
<1>0. TypeOK /\ ready \in Seq(Handler) /\ socket \in Client \cup {None} /\ InOrder(ready, pending, socket)
  BY DEF IInv, TypeOK, QueueInv
<1>1. /\ Run("write", "ok") /\ pending' = (pending \ {"timer"}) \cup ReadPends(socket)
      /\ ready' = t \o e \o a
  BY DEF OnWrite
<1>2. /\ ready # <<>> /\ Has(ready, "write") /\ t \in Seq(Handler)
      /\ \A k : Has(t, k) => Has(ready, k) /\ After(ready, "write", k)
  BY <1>0, <1>1, HeadKind, KindTail
<1>3. /\ "read" \notin pending /\ "write" \notin pending /\ ~Has(t, "read") /\ ~Has(t, "write")
      /\ ~Has(t, "failed")
  BY <1>2 DEF OneInUse
<1>4. OneInUse(t, pending)
  BY <1>0, <1>2, UseTail
<1>5. Whole(buffer) => ~Has(t, "accept")
  BY <1>0, <1>2, OrderKinds
<1>6. /\ e \in Seq(Handler) /\ \A k : Has(e, k) => k = "void" \/ (k = "read" /\ Whole(buffer))
      /\ ~After(e, "read", "read") /\ ReadPends(socket) \subseteq {"read"}
      /\ ReadPends(socket) # {} => ~Whole(buffer) /\ ~Malformed(buffer) /\ socket # None
  BY <1>0, ReadKinds
<1>7. a \in Seq(Handler) /\ \A k : Has(a, k) => k = "void"
  BY <1>0, AbortedKinds
<1> HIDE DEF t, e, a
<1>8. /\ "write" \notin pending' /\ "timer" \notin pending'
      /\ "read" \in pending' => ReadPends(socket) # {}
      /\ pending' \cap SocketOp \subseteq {"read"}
  BY <1>1, <1>3, <1>6 DEF SocketOp
<1>9. t \o e \in Seq(Handler) /\ OneInUse(t \o e, pending')
  <2>1. "read" \in SocketOp
    BY DEF SocketOp
  <2>2. CASE Whole(buffer)
    <3>1. Has(e, "read") => pending' \cap SocketOp = {}
      BY <1>6, <1>8, <2>2
    <3> QED
      BY <1>2, <1>3, <1>4, <1>5, <1>6, <1>8, <2>1, <2>2, <3>1, UseEnds
  <2>3. CASE ~Whole(buffer)
    <3>1. ~Has(t \o e, "read") /\ ~Has(t \o e, "write") /\ t \o e \in Seq(Handler)
          /\ ~Has(t \o e, "failed")
      BY <1>2, <1>3, <1>6, <2>3, HasConcat, Concat
    <3>2. \A k, l : After(t \o e, k, l) => Has(t \o e, k) /\ Has(t \o e, l)
      BY DEF After, Has
    <3> QED
      BY <1>8, <3>1, <3>2 DEF OneInUse
  <2> QED
    BY <2>2, <2>3
<1>10. OneInUse(ready', pending')
  <2> DEFINE te == t \o e
  <2>1. te \in Seq(Handler) /\ OneInUse(te, pending') /\ ready' = te \o a
    BY <1>1, <1>9
  <2> HIDE DEF te
  <2> QED
    BY <1>7, <2>1, UseBehind DEF Mute
<1>11. \A k : Has(ready', k) => Has(t, k) \/ Has(e, k) \/ Has(a, k)
  BY <1>1, <1>2, <1>6, <1>7, <1>9, HasConcat
<1>12. ~After(ready', "read", "timer")
  <2> DEFINE te == t \o e
  <2>1. te \in Seq(Handler) /\ ready' = te \o a
    BY <1>1, <1>9
  <2>2. ~After(te, "read", "timer")
    <3>1. After(t, "read", "timer") => Has(t, "read")
      BY DEF After, Has
    <3> QED
      BY <1>2, <1>3, <1>6, <3>1, AfterConcat
  <2> HIDE DEF te
  <2> QED
    BY <1>7, <2>1, <2>2, AfterConcat
<1>13. NoneOffered
  <2> DEFINE te == t \o e
  <2>1. te \in Seq(Handler) /\ ready' = te \o a /\ ~Has(e, "accept") /\ ~Has(a, "accept")
    BY <1>1, <1>6, <1>7, <1>9
  <2>2. \A c : Offers(te, c) => Offers(t, c)
    BY <1>2, <1>6, <2>1, OffersConcat, OffersKind
  <2>3. \A c : Offers(t, c) => Offers(ready, c)
    BY <1>0, <1>2, OffersTail DEF t
  <2> HIDE DEF te
  <2> QED
    BY <1>7, <2>1, <2>2, <2>3, OffersConcat, OffersKind DEF NoneOffered
<1> QED
  BY <1>2, <1>3, <1>6, <1>7, <1>8, <1>10, <1>11, <1>12, <1>13

\* A read or a write is done.
LEMMA UseDone ==
  ASSUME IInv, OneInUse(ready, pending), NEW op \in SocketOp, op \in pending,
         pending' = pending \ {op}, ready' = Append(ready, Ended(op, "ok"))
  PROVE  /\ OneInUse(ready', pending')
         /\ "read" \notin pending' /\ "write" \notin pending'
         /\ \A k : Has(ready', k) => Has(ready, k) \/ k = op
         /\ ~Has(ready, "read") /\ ~Has(ready, "write") /\ ~After(ready', "read", "timer")
         /\ NoneOffered
<1>0. TypeOK /\ ready \in Seq(Handler) /\ socket # None /\ InOrder(ready, pending, socket)
      /\ (op = "read" \/ op = "write")
  BY DEF IInv, TypeOK, QueueInv, Op, SocketOp
<1> DEFINE h == Ended(op, "ok")
<1>1. h \in Handler /\ Kind(h) = op
  BY <1>0, EndedKind DEF Op, Result
<1> HIDE DEF h
<1>2. /\ ready' = ready \o <<h>> /\ <<h>> \in Seq(Handler)
      /\ \A k : Has(<<h>>, k) => k = op
      /\ ~After(<<h>>, op, op)
  BY <1>0, <1>1, AppendConcat, KindOne DEF h
<1>3. /\ ~Has(ready, "read") /\ ~Has(ready, "write") /\ ~Has(ready, "accept")
      /\ op = "write" => ~Has(ready, "failed")
  BY <1>0, OrderKinds DEF OneInUse
<1>4. "read" \notin pending' /\ "write" \notin pending' /\ pending' \cap SocketOp = {}
  BY <1>0 DEF OneInUse, SocketOp
<1>5. OneInUse(ready', pending')
  BY <1>0, <1>2, <1>3, <1>4, UseEnds
<1>6. After(ready, "read", "timer") => Has(ready, "read")
  BY DEF After, Has
<1>7. ~After(ready', "read", "timer") /\ \A k : Has(ready', k) => Has(ready, k) \/ k = op
  <2>1. ~Has(<<h>>, "timer")
    BY <1>0, <1>2
  <2>2. ~After(ready', "read", "timer")
    BY <1>0, <1>2, <1>3, <1>6, <2>1, AfterConcat
  <2>3. \A k : Has(ready', k) => Has(ready, k) \/ Has(<<h>>, k)
    BY <1>0, <1>2, HasConcat
  <2> QED
    BY <1>2, <2>2, <2>3
<1>8. NoneOffered
  BY <1>0, <1>2, OffersConcat, OffersKind DEF NoneOffered
<1> QED
  BY <1>3, <1>4, <1>5, <1>7, <1>8

LEMMA UseExpired ==
  ASSUME IInv, OneInUse(ready, pending), DeadlinePasses
  PROVE  /\ OneInUse(ready', pending')
         /\ "timer" \in pending /\ pending' = pending \ {"timer"}
         /\ \A k : Has(ready', k) => Has(ready, k) \/ k = "timer"
         /\ After(ready', "read", "timer") => Has(ready, "read")
         /\ NoneOffered
<1>0. TypeOK /\ ready \in Seq(Handler)
  BY DEF IInv, TypeOK
<1> DEFINE h == Ended("timer", "ok")
<1>1. h \in Handler /\ Kind(h) = "timer"
  BY <1>0, EndedKind DEF Op, Result
<1>2. "timer" \in pending /\ pending' = pending \ {"timer"} /\ ready' = Append(ready, h)
  BY DEF DeadlinePasses
<1> HIDE DEF h
<1>3. /\ ready' = ready \o <<h>> /\ <<h>> \in Seq(Handler)
      /\ \A k : Has(<<h>>, k) => k = "timer"
  BY <1>0, <1>1, <1>2, AppendConcat, KindOne
<1>4. OneInUse(ready', pending')
  BY <1>0, <1>2, <1>3, UseBehind DEF Mute
<1>5. After(ready, "read", "timer") => Has(ready, "read")
  BY DEF After, Has
<1>6. After(ready', "read", "timer") => Has(ready, "read")
  BY <1>0, <1>3, <1>5, AfterConcat
<1>7. NoneOffered
  BY <1>0, <1>3, OffersConcat, OffersKind DEF NoneOffered
<1> QED
  BY <1>0, <1>2, <1>3, <1>4, <1>6, <1>7, HasConcat

-----------------------------------------------------------------------------
(* The pieces of the requests.                                             *)

Consumed(c) == sent[c] - Len(stream[c])
PieceAt(c, k) == [from |-> c, part |-> IF k % 2 = 0 THEN "head" ELSE "tail"]

\* A connection on which nothing was read or answered.
Fresh(c) == answers[c] = 0 /\ Consumed(c) = 0

\* What a client sends, heads and tails in turn, and when it waits.
Streams ==
  \A c \in Client :
    /\ Consumed(c) >= 0 /\ sent[c] <= 2 * (answers[c] + 1)
    /\ \A i \in 1..Len(stream[c]) : stream[c][i] = PieceAt(c, Consumed(c) + i - 1)
    /\ client[c] \in {"away", "queued"} => Fresh(c)

\* Until it is accepted nothing of it was read.
Waiting ==
  /\ \A i \in 1..Len(backlog) : client[backlog[i]] = "queued"
  /\ \A i, j \in 1..Len(backlog) : backlog[i] = backlog[j] => i = j
  /\ \A c \in Client : Offers(ready, c) => Fresh(c) /\ client[c] \notin {"away", "queued"}
  /\ socket # None => client[socket] \notin {"away", "queued"}

\* A deadline runs for the first request of a connection only, and then the
\* buffer holds nothing else; a response that is out while the connection was
\* closed leaves nothing in the buffer.
Timed ==
  /\ Has(ready, "write") /\ socket = None => buffer = <<>>
  /\ "timer" \in pending /\ "read" \in pending => answers[socket] = 0
  /\ "timer" \in pending /\ ("write" \in pending \/ Has(ready, "read") \/ Has(ready, "write"))
       => buffer = <<>>
  /\ Has(ready, "timer") /\ ("write" \in pending \/ Has(ready, "write")) => buffer = <<>>
  /\ After(ready, "read", "timer") => buffer = <<>>

\* Some other connection was read to the middle of a request.
Spoiled == \E d \in Client : d # socket /\ Consumed(d) % 2 = 1

\* How much of the connection was read before what is in the buffer, which is
\* the beginning of a request of its own.
Begun == Consumed(socket) - Len(buffer)
OwnBuffer ==
  /\ Len(buffer) <= 2 /\ Begun % 2 = 0 /\ Begun >= 0
  /\ \A i \in 1..Len(buffer) : buffer[i] = PieceAt(socket, i - 1)

ReadingOwn ==
  /\ OwnBuffer /\ Len(buffer) <= 1
  /\ 2 * answers[socket] <= Begun + 2
  /\ Spoiled \/ 2 * answers[socket] <= Begun

ReadingOther ==
  /\ Len(buffer) = 1 /\ buffer[1].part = "head" /\ buffer[1].from # socket
  /\ Fresh(socket)

Answering ==
  /\ OwnBuffer /\ 2 * answers[socket] <= Begun
  /\ Spoiled \/ (2 * answers[socket] <= Begun - 2 /\ request = socket /\ buffer = <<>>)

Answered ==
  /\ OwnBuffer /\ 2 * answers[socket] <= Begun + 2
  /\ Spoiled \/ (2 * answers[socket] <= Begun /\ buffer = <<>>)

\* What is left in the buffer, and by whom.
Leftover ==
  /\ Whole(buffer) => Len(buffer) = 2 /\ Spoiled
  /\ buffer # <<>> /\ ~Whole(buffer) => Consumed(buffer[1].from) % 2 = 1
  /\ \A i \in 1..Len(buffer) : Consumed(buffer[i].from) > 0

Phases ==
  socket # None =>
    /\ "read" \in pending => ReadingOwn \/ ReadingOther
    /\ "write" \in pending \/ Has(ready, "read") => Answering
    /\ Has(ready, "write") => Answered

\* An answer to somebody else comes of a connection that was interrupted.
Owned ==
  \A c \in Client :
    received[c] \subseteq {c} \/ \E d \in Client \ {c} : d # socket /\ Consumed(d) % 2 = 1

Pieces == Streams /\ Waiting /\ Timed /\ Leftover /\ Phases /\ Owned
AInv == IInv /\ OneInUse(ready, pending) /\ Pieces

-----------------------------------------------------------------------------
(* Sequences of pieces.                                                    *)

LEMMA DropSome ==
  ASSUME NEW st \in Seq(Piece), NEW n \in 1..Len(st)
  PROVE  LET r == SubSeq(st, n + 1, Len(st))
         IN  /\ r \in Seq(Piece) /\ Len(r) = Len(st) - n
             /\ \A i \in 1..Len(r) : i + n \in 1..Len(st) /\ r[i] = st[i + n]
  OBVIOUS

LEMMA Drop2 ==
  ASSUME NEW b \in Seq(Piece), Len(b) >= 2
  PROVE  /\ SubSeq(b, 3, Len(b)) \in Seq(Piece)
         /\ Len(SubSeq(b, 3, Len(b))) = Len(b) - 2
         /\ \A i \in 1..Len(b) - 2 : SubSeq(b, 3, Len(b))[i] = b[i + 2]
<1>1. PICK n \in 1..Len(b) : n = 2
  OBVIOUS
<1> DEFINE r == SubSeq(b, n + 1, Len(b))
<1>2. r = SubSeq(b, 3, Len(b))
  BY <1>1
<1>3. /\ r \in Seq(Piece) /\ Len(r) = Len(b) - n
      /\ \A i \in 1..Len(r) : r[i] = b[i + n]
  BY DropSome
<1> HIDE DEF r
<1> QED
  BY <1>1, <1>2, <1>3

LEMMA TakeSome ==
  ASSUME NEW b \in Seq(Piece), NEW st \in Seq(Piece), NEW n \in 1..Len(st)
  PROVE  LET r == b \o SubSeq(st, 1, n)
         IN  /\ r \in Seq(Piece) /\ Len(r) = Len(b) + n /\ Len(b) \in Nat
             /\ \A i \in 1..Len(b) : r[i] = b[i]
             /\ \A i \in Len(b) + 1 .. Len(b) + n : r[i] = st[i - Len(b)]
<1> DEFINE a == SubSeq(st, 1, n)
<1>1. a \in Seq(Piece) /\ Len(a) = n /\ \A i \in 1..n : a[i] = st[i]
  OBVIOUS
<1> HIDE DEF a
<1> SUFFICES LET r == b \o a
             IN  /\ r \in Seq(Piece) /\ Len(r) = Len(b) + n /\ Len(b) \in Nat
                 /\ \A i \in 1..Len(b) : r[i] = b[i]
                 /\ \A i \in Len(b) + 1 .. Len(b) + n : r[i] = st[i - Len(b)]
  BY DEF a
<1>2. /\ (b \o a) \in Seq(Piece) /\ Len(b \o a) = Len(b) + n /\ Len(b) \in Nat
      /\ \A i \in 1..Len(b) : (b \o a)[i] = b[i]
      /\ \A i \in Len(b) + 1 .. Len(b) + n : (b \o a)[i] = a[i - Len(b)]
  BY <1>1
<1>3. \A i \in Len(b) + 1 .. Len(b) + n : i - Len(b) \in 1..n
  BY <1>1, <1>2
<1> QED
  BY <1>1, <1>2, <1>3

LEMMA PieceShift ==
  ASSUME NEW c, NEW k \in Int, NEW m \in Int, m % 2 = 0
  PROVE  PieceAt(c, m + k) = PieceAt(c, k)
<1>1. (m + k) % 2 = k % 2
  OBVIOUS
<1> QED
  BY <1>1 DEF PieceAt

LEMMA PieceFields ==
  ASSUME NEW c, NEW k \in Int
  PROVE  /\ PieceAt(c, k).from = c
         /\ PieceAt(c, 0).part = "head" /\ PieceAt(c, 1).part = "tail"
  BY DEF PieceAt

\* A buffer of pieces of one connection, from the beginning of a request.
OwnPieces(b, s) == \A i \in 1..Len(b) : b[i] = PieceAt(s, i - 1)

LEMMA OwnWhole ==
  ASSUME NEW b \in Seq(Piece), NEW s, OwnPieces(b, s)
  PROVE  /\ Whole(b) <=> Len(b) >= 2
         /\ ~Malformed(b)
         /\ Whole(b) => b[1].from = s /\ OwnPieces(SubSeq(b, 3, Len(b)), s)
<1>1. Len(b) \in Nat /\ (b # <<>> => Len(b) >= 1)
  OBVIOUS
<1>2. Len(b) >= 1 => b[1].from = s /\ b[1].part = "head"
  BY <1>1, PieceFields DEF OwnPieces
<1>3. Len(b) >= 2 => b[2].from = s /\ b[2].part = "tail"
  BY <1>1, PieceFields DEF OwnPieces
<1>4. Whole(b) <=> Len(b) >= 2
  BY <1>1, <1>2, <1>3 DEF Whole
<1>5. ~Malformed(b)
  BY <1>1, <1>2, <1>4 DEF Malformed
<1>6. ASSUME Len(b) >= 2 PROVE OwnPieces(SubSeq(b, 3, Len(b)), s)
  <2> DEFINE r == SubSeq(b, 3, Len(b))
  <2>1. Len(r) = Len(b) - 2 /\ \A i \in 1..Len(b) - 2 : r[i] = b[i + 2]
    BY <1>6, Drop2
  <2>2. \A i \in 1..Len(b) - 2 : i \in Int /\ i + 2 \in 1..Len(b) /\ (i + 2) - 1 = 2 + (i - 1)
    BY <1>1
  <2>3. \A i \in 1..Len(b) - 2 : b[i + 2] = PieceAt(s, i - 1)
    <3>1. 2 % 2 = 0
      OBVIOUS
    <3>2. ASSUME NEW i \in 1..Len(b) - 2 PROVE PieceAt(s, 2 + (i - 1)) = PieceAt(s, i - 1)
      <4>1. i - 1 \in Int /\ 2 \in Int
        OBVIOUS
      <4> QED
        BY <3>1, <4>1, PieceShift
    <3> QED
      BY <2>2, <3>2 DEF OwnPieces
  <2> HIDE DEF r
  <2> QED
    BY <2>1, <2>3 DEF OwnPieces, r
<1> QED
  BY <1>1, <1>2, <1>4, <1>5, <1>6

-----------------------------------------------------------------------------
(* A read goes on.                                                         *)

LEMMA Types ==
  ASSUME IInv
  PROVE  /\ socket \in Client \cup {None} /\ ready \in Seq(Handler)
         /\ buffer \in Seq(Piece) /\ stream \in [Client -> Seq(Piece)]
         /\ sent \in [Client -> Nat] /\ answers \in [Client -> Nat]
         /\ backlog \in Seq(Client)
         /\ received \in [Client -> SUBSET (Client \cup {None})]
<1>1. \A x \in 0..2 * MaxRequests : x \in Nat
  BY RequestAssumption
<1> QED
  BY <1>1 DEF IInv, TypeOK

LEMMA OpenSocket ==
  ASSUME IInv, pending \cap Op # {} \/ "read" \in pending \/ "write" \in pending \/ "timer" \in pending
  PROVE  socket \in Client /\ socket # None
  BY ClientAssumption DEF IInv, TypeOK, Op, SocketOp

\* What a read that is pending makes of the next n pieces of its connection.
LEMMA Reads ==
  ASSUME IInv, Streams, Leftover, Phases, "read" \in pending,
         NEW n \in 1..Len(stream[socket]), NEW b, b = buffer \o SubSeq(stream[socket], 1, n)
  PROVE  /\ socket \in Client /\ b \in Seq(Piece) /\ Len(buffer) \in Nat /\ Len(b) = Len(buffer) + n
         /\ Begun \in Int /\ answers[socket] \in Nat /\ Consumed(socket) \in Nat
         /\ Consumed(socket) = Begun + Len(buffer)
         /\ Begun + Len(b) <= 2 * answers[socket] + 2
         /\ \/ ReadingOwn /\ OwnPieces(b, socket)
            \/ /\ ReadingOther /\ Len(buffer) = 1 /\ b[1] = buffer[1]
               /\ \A i \in 1..n : b[i + 1] = PieceAt(socket, i - 1)
               /\ ~Whole(b) /\ Malformed(b)
<1> DEFINE s == socket
           st == stream[s]
<1>0. /\ s \in Client /\ st \in Seq(Piece) /\ buffer \in Seq(Piece)
      /\ answers[s] \in Nat /\ sent[s] \in Nat /\ Len(st) \in Nat /\ Len(buffer) \in Nat
      /\ n \in Nat /\ n >= 1 /\ n <= Len(st)
  <2>1. s \in Client /\ stream \in [Client -> Seq(Piece)] /\ buffer \in Seq(Piece)
        /\ answers \in [Client -> Nat] /\ sent \in [Client -> Nat]
    BY Types, OpenSocket
  <2>2. st \in Seq(Piece)
    BY <2>1
  <2>3. Len(st) \in Nat /\ Len(buffer) \in Nat
    BY <2>1, <2>2
  <2> QED
    BY <2>1, <2>2, <2>3
<1>1. /\ b \in Seq(Piece) /\ Len(b) = Len(buffer) + n
      /\ \A i \in 1..Len(buffer) : b[i] = buffer[i]
      /\ \A i \in Len(buffer) + 1 .. Len(buffer) + n : b[i] = st[i - Len(buffer)]
  BY <1>0, TakeSome
<1>2. /\ Consumed(s) \in Nat /\ Consumed(s) = sent[s] - Len(st) /\ sent[s] <= 2 * (answers[s] + 1)
      /\ \A i \in 1..Len(st) : st[i] = PieceAt(s, Consumed(s) + i - 1)
  BY <1>0 DEF Streams, Consumed
<1>3. Begun \in Int /\ Consumed(s) = Begun + Len(buffer)
  BY <1>0, <1>2 DEF Begun
<1>4. Begun + Len(b) <= 2 * answers[s] + 2
  BY <1>0, <1>1, <1>2, <1>3
<1>5. \A i \in Len(buffer) + 1 .. Len(buffer) + n : b[i] = PieceAt(s, Begun + (i - 1))
  <2> SUFFICES ASSUME NEW i \in Len(buffer) + 1 .. Len(buffer) + n
               PROVE  b[i] = PieceAt(s, Begun + (i - 1))
    OBVIOUS
  <2>1. i - Len(buffer) \in 1..Len(st) /\ i \in Int
    BY <1>0
  <2>2. Consumed(s) + (i - Len(buffer)) - 1 = Begun + (i - 1)
    BY <1>0, <1>2, <1>3, <2>1
  <2>3. b[i] = PieceAt(s, Consumed(s) + (i - Len(buffer)) - 1)
    BY <1>1, <1>2, <2>1
  <2> QED
    BY <2>2, <2>3
<1>6. CASE ReadingOwn
  <2>1. OwnPieces(b, s)
    <3> SUFFICES ASSUME NEW i \in 1..Len(b) PROVE b[i] = PieceAt(s, i - 1)
      BY DEF OwnPieces
    <3>1. CASE i \in 1..Len(buffer)
      BY <1>1, <1>6, <3>1 DEF ReadingOwn, OwnBuffer
    <3>2. CASE i \in Len(buffer) + 1 .. Len(buffer) + n
      <4>1. Begun % 2 = 0 /\ i - 1 \in Int
        BY <1>6 DEF ReadingOwn, OwnBuffer
      <4> QED
        BY <1>3, <1>5, <3>2, <4>1, PieceShift
    <3> QED
      BY <1>0, <1>1, <3>1, <3>2
  <2> QED
    BY <1>0, <1>1, <1>2, <1>3, <1>4, <1>6, <2>1
<1>7. CASE ReadingOther
  <2>1. /\ Len(buffer) = 1 /\ buffer[1].part = "head" /\ buffer[1].from # s
        /\ Consumed(s) = 0 /\ Begun = 0 - 1
    BY <1>3, <1>7 DEF ReadingOther, Fresh
  <2>2. b[1] = buffer[1] /\ Len(b) = 1 + n
    BY <1>1, <2>1
  <2>3. \A i \in 1..n : b[i + 1] = PieceAt(s, i - 1)
    <3> SUFFICES ASSUME NEW i \in 1..n PROVE b[i + 1] = PieceAt(s, i - 1)
      OBVIOUS
    <3>1. i + 1 \in Len(buffer) + 1 .. Len(buffer) + n /\ Begun + ((i + 1) - 1) = i - 1
      BY <1>0, <2>1
    <3> QED
      BY <1>5, <3>1
  <2>4. b[2].from = s
    <3>1. PICK i \in 1..n : i = 1
      BY <1>0
    <3>2. b[i + 1] = PieceAt(s, i - 1) /\ i + 1 = 2 /\ i - 1 \in Int
      <4>1. b[i + 1] = PieceAt(s, i - 1)
        BY <2>3
      <4>2. i + 1 = 2 /\ i - 1 \in Int
        BY <3>1
      <4> QED
        BY <4>1, <4>2
    <3>3. b[i + 1].from = s
      BY <3>2, PieceFields
    <3> QED
      BY <3>2, <3>3
  <2>5. ~Whole(b)
    BY <2>1, <2>2, <2>4 DEF Whole
  <2>6. Malformed(b)
    BY <1>0, <1>1, <2>2, <2>5 DEF Malformed
  <2> QED
    BY <1>0, <1>1, <1>2, <1>3, <1>4, <1>7, <2>1, <2>2, <2>3, <2>5, <2>6
<1>8. ReadingOwn \/ ReadingOther
  BY <1>0, ClientAssumption DEF Phases
<1> QED
  BY <1>6, <1>7, <1>8

\* What the step leaves of the connection.
LEMMA ReadsOn ==
  ASSUME IInv, Streams, Waiting, "read" \in pending, NEW s, s = socket, NEW n \in 1..Len(stream[s]),
         stream' = [stream EXCEPT ![s] = SubSeq(@, n + 1, Len(@))],
         UNCHANGED <<sent, answers, client>>
  PROVE  /\ Streams'
         /\ Consumed(s)' = Consumed(s) + n
         /\ \A c \in Client : c # s => Consumed(c)' = Consumed(c)
<1> DEFINE st == stream[s]
<1>0. /\ s \in Client /\ s # None /\ st \in Seq(Piece) /\ stream \in [Client -> Seq(Piece)]
      /\ sent \in [Client -> Nat] /\ Len(st) \in Nat /\ n \in Nat /\ answers \in [Client -> Nat]
  <2>1. s \in Client /\ s # None /\ stream \in [Client -> Seq(Piece)] /\ sent \in [Client -> Nat]
        /\ answers \in [Client -> Nat]
    BY Types, OpenSocket
  <2>2. st \in Seq(Piece)
    BY <2>1
  <2> QED
    BY <2>1, <2>2
<1>1. /\ stream'[s] \in Seq(Piece) /\ Len(stream'[s]) = Len(st) - n
      /\ \A i \in 1..Len(stream'[s]) : i + n \in 1..Len(st) /\ stream'[s][i] = st[i + n]
  <2>1. stream'[s] = SubSeq(st, n + 1, Len(st))
    BY <1>0
  <2> QED
    BY <1>0, <2>1, DropSome
<1>2. \A c \in Client : c # s => stream'[c] = stream[c]
  BY <1>0
<1>3. \A c \in Client : c # s => Consumed(c)' = Consumed(c)
  BY <1>2 DEF Consumed
<1>4. Consumed(s)' = Consumed(s) + n /\ Consumed(s) \in Nat
  <2>1. Consumed(s) >= 0
    BY <1>0 DEF Streams
  <2>2. sent[s] \in Nat /\ sent'[s] = sent[s]
    BY <1>0
  <2>3. Consumed(s) = sent[s] - Len(st)
    BY DEF Consumed
  <2>4. Consumed(s)' = sent'[s] - Len(stream'[s])
    BY DEF Consumed
  <2> HIDE DEF st
  <2> QED
    BY <1>0, <1>1, <2>1, <2>2, <2>3, <2>4
<1>5. client[s] \notin {"away", "queued"}
  BY <1>0 DEF Waiting
<1>6. Streams'
  <2> SUFFICES ASSUME NEW c \in Client
               PROVE  /\ Consumed(c)' >= 0 /\ sent'[c] <= 2 * (answers'[c] + 1)
                      /\ \A i \in 1..Len(stream'[c]) : stream'[c][i] = PieceAt(c, Consumed(c)' + i - 1)
                      /\ client'[c] \in {"away", "queued"} => Fresh(c)'
    BY DEF Streams, PieceAt
  <2>1. CASE c = s
    <3>1. Consumed(c)' >= 0 /\ sent'[c] <= 2 * (answers'[c] + 1)
      BY <1>0, <1>4, <2>1 DEF Streams
    <3>2. ASSUME NEW i \in 1..Len(stream'[c]) PROVE stream'[c][i] = PieceAt(c, Consumed(c)' + i - 1)
      <4>1. /\ i + n \in 1..Len(st) /\ stream'[s][i] = st[i + n]
            /\ Consumed(s) + (i + n) - 1 = Consumed(s)' + i - 1
        <5>1. i \in 1..Len(stream'[s]) /\ i \in Int
          BY <2>1, <3>2
        <5>2. Consumed(s) \in Int /\ n \in Int
          BY <1>0, <1>4
        <5> QED
          BY <1>1, <1>4, <5>1, <5>2
      <4>2. st[i + n] = PieceAt(s, Consumed(s) + (i + n) - 1)
        BY <1>0, <4>1 DEF Streams
      <4> QED
        BY <2>1, <4>1, <4>2
    <3> QED
      BY <1>5, <2>1, <3>1, <3>2
  <2>2. CASE c # s
    BY <1>2, <1>3, <2>2 DEF Streams, Fresh
  <2> QED
    BY <2>1, <2>2
<1> QED
  BY <1>3, <1>4, <1>6

\* What is left of k pieces and n more when a request of two is taken off, by
\* how far the connection was read and answered.
LEMMA TakenOff ==
  ASSUME NEW g \in Int, NEW k \in Nat, NEW n \in Nat, NEW a \in Nat,
         k + n >= 2, g % 2 = 0, g >= 0, 2 * a <= g + 2, g + k + n <= 2 * a + 2
  PROVE  /\ k + n - 2 \in 0..2
         /\ 2 * a <= g => k + n - 2 = 0
         /\ a = 0 => k + n - 2 = 0
         /\ (g + 2) % 2 = 0
  OBVIOUS

\* A buffer in which less than a request is left tells that its connection was
\* interrupted.
LEMMA OwnLeftover ==
  ASSUME NEW s \in Client, NEW g \in Nat, g % 2 = 0,
         NEW b \in Seq(Piece), b = buffer', OwnPieces(b, s), Len(b) <= 2,
         Consumed(s)' = g + Len(b), Len(b) = 2 => Spoiled'
  PROVE  Leftover'
<1>1. Len(b) \in Nat /\ (b # <<>> => Len(b) >= 1)
  OBVIOUS
<1>2. \A i \in 1..Len(b) : b[i].from = s
  BY PieceFields DEF OwnPieces
<1>3. Whole(b) <=> Len(b) >= 2
  BY OwnWhole
<1>4. ASSUME b # <<>>, ~Whole(b) PROVE Consumed(b[1].from)' % 2 = 1
  <2>1. Len(b) = 1
    <3> DEFINE l == Len(b)
    <3>1. l \in Nat /\ l >= 1 /\ ~(l >= 2)
      BY <1>1, <1>3, <1>4
    <3> HIDE DEF l
    <3>2. l = 1
      BY <3>1
    <3> QED
      BY <3>2 DEF l
  <2>2. b[1].from = s
    BY <1>2, <2>1
  <2>3. (g + 1) % 2 = 1
    OBVIOUS
  <2> QED
    BY <2>1, <2>2, <2>3 DEF Consumed
<1>5. ASSUME NEW i \in 1..Len(b) PROVE Consumed(b[i].from)' > 0
  <2>1. Len(b) >= 1 /\ b[i].from = s
    BY <1>1, <1>2
  <2>2. Consumed(s)' > 0
    BY <1>1, <2>1
  <2> QED
    BY <2>1, <2>2 DEF Consumed
<1>6. Whole(b) => Len(b) = 2 /\ Spoiled'
  <2> DEFINE l == Len(b)
  <2>1. l \in Nat /\ l <= 2 /\ (Whole(b) => l >= 2)
    BY <1>1, <1>3
  <2> HIDE DEF l
  <2>2. Whole(b) => l = 2
    BY <2>1
  <2> QED
    BY <2>2 DEF l
<1> QED
  BY <1>4, <1>5, <1>6 DEF Leftover, Whole, Consumed

\* What holds while the connection s is read, at the end of a step of a read.
Stays(s) ==
  /\ s \in Client /\ s # None /\ s = socket /\ IInv /\ AInv /\ "read" \in pending
  /\ UNCHANGED <<socket, sent, answers, client>>

\* The read completes a request, and the server begins to answer it.
LEMMA ReceiveWhole ==
  ASSUME NEW s, Stays(s), ReadingOwn, NEW b \in Seq(Piece), OwnPieces(b, s), Whole(b),
         NEW n \in Nat, n >= 1, Len(b) = Len(buffer) + n, Len(buffer) \in Nat,
         Begun \in Int, Consumed(s) = Begun + Len(buffer), answers[s] \in Nat,
         Begun + Len(b) <= 2 * answers[s] + 2,
         Consumed(s)' = Consumed(s) + n, \A c \in Client : c # s => Consumed(c)' = Consumed(c),
         buffer' = SubSeq(b, 3, Len(b)), request' = b[1].from,
         pending' = pending \ {"read"}, ready' = Append(ready, Ended("read", "ok"))
  PROVE  Leftover' /\ Phases' /\ Timed'
<1>0. /\ s = socket /\ s = socket' /\ IInv /\ OneInUse(ready, pending) /\ Timed
      /\ "read" \in pending /\ answers' = answers /\ s \in Client /\ s # None
  BY DEF Stays, AInv, Pieces
<1>1. /\ OneInUse(ready', pending') /\ "read" \notin pending' /\ "write" \notin pending'
      /\ \A k : Has(ready', k) => Has(ready, k) \/ k = "read"
      /\ ~Has(ready, "read") /\ ~Has(ready, "write") /\ ~After(ready', "read", "timer")
  BY <1>0, UseDone DEF SocketOp
<1>2. /\ Len(b) >= 2 /\ b[1].from = s /\ OwnPieces(buffer', s)
      /\ buffer' \in Seq(Piece) /\ Len(buffer') = Len(b) - 2
  BY OwnWhole, Drop2
<1>3. /\ Begun % 2 = 0 /\ Begun >= 0 /\ 2 * answers[s] <= Begun + 2
      /\ Spoiled \/ 2 * answers[s] <= Begun
  BY <1>0 DEF ReadingOwn, OwnBuffer
<1>4. /\ Len(buffer) + n - 2 \in 0..2
      /\ 2 * answers[s] <= Begun => Len(buffer) + n - 2 = 0
      /\ answers[s] = 0 => Len(buffer) + n - 2 = 0
      /\ (Begun + 2) % 2 = 0
  <2> DEFINE g == Begun
             k == Len(buffer)
             a == answers[s]
  <2>1. g \in Int /\ k \in Nat /\ a \in Nat /\ k + n >= 2 /\ g % 2 = 0 /\ g >= 0
        /\ 2 * a <= g + 2 /\ g + k + n <= 2 * a + 2
    BY <1>2, <1>3
  <2> HIDE DEF g, k, a
  <2>2. /\ k + n - 2 \in 0..2
        /\ 2 * a <= g => k + n - 2 = 0
        /\ a = 0 => k + n - 2 = 0
        /\ (g + 2) % 2 = 0
    BY <2>1, TakenOff
  <2> QED
    BY <2>2 DEF g, k, a
<1>5. Len(buffer') = Len(buffer) + n - 2 /\ (Len(buffer') = 0 => buffer' = <<>>)
  BY <1>2
<1>6. Begun' = Begun + 2 /\ Consumed(s)' = Begun' + Len(buffer')
  <2> DEFINE k == Len(buffer)
             l == Len(buffer')
             g == Begun
             h == Begun'
             x == Consumed(s)'
  <2>1. h = x - l
    BY <1>0 DEF Begun, Consumed
  <2>2. x = (g + k) + n /\ g \in Int /\ k \in Nat /\ l = k + n - 2
    BY <1>5
  <2> HIDE DEF k, l, g, h, x
  <2>3. h = g + 2 /\ x = h + l
    BY <2>1, <2>2
  <2> QED
    BY <2>3 DEF l, g, h, x
<1>7. Spoiled' <=> Spoiled
  BY <1>0 DEF Spoiled, Consumed
<1>8. Len(buffer') \in 0..2 /\ (Len(buffer') = 2 => Spoiled')
  BY <1>3, <1>4, <1>5, <1>7
<1>9. Begun' \in Nat /\ Begun' % 2 = 0
  BY <1>3, <1>4, <1>6
<1>10. OwnBuffer'
  <2>1. \A i \in 1..Len(buffer') : buffer'[i] = PieceAt(s, i - 1)
    BY <1>2 DEF OwnPieces
  <2> QED
    <3>1. \A i \in 1..Len(buffer') : buffer'[i] = PieceAt(socket, i - 1)'
      BY <1>0, <2>1 DEF PieceAt
    <3>2. Len(buffer') <= 2 /\ Begun' >= 0
      BY <1>8, <1>9
    <3> QED
      BY <1>9, <3>1, <3>2 DEF OwnBuffer
<1>11. Answering'
  <2>1. 2 * answers'[s] <= Begun'
    BY <1>0, <1>3, <1>6
  <2>2. Spoiled' \/ (2 * answers'[s] <= Begun' - 2 /\ request' = s /\ buffer' = <<>>)
    BY <1>0, <1>2, <1>3, <1>4, <1>5, <1>6, <1>7
  <2> QED
    BY <1>0, <1>10, <2>1, <2>2 DEF Answering
<1>12. Phases'
  BY <1>1, <1>11 DEF Phases
<1>13. Leftover'
  <2> DEFINE g == Begun'
  <2>1. g \in Nat /\ g % 2 = 0 /\ Consumed(s)' = g + Len(buffer')
    BY <1>6, <1>9
  <2> HIDE DEF g
  <2> QED
    <3> DEFINE t == buffer'
    <3>1. /\ t \in Seq(Piece) /\ OwnPieces(t, s) /\ Len(t) <= 2
          /\ Consumed(s)' = g + Len(t) /\ (Len(t) = 2 => Spoiled') /\ t = buffer'
      BY <1>2, <1>8, <2>1
    <3> HIDE DEF t
    <3> QED
      BY <1>0, <2>1, <3>1, OwnLeftover
<1>14. Timed'
  <2>1. "timer" \in pending' => buffer' = <<>>
    <3>1. "timer" \in pending' => answers[s] = 0
      BY <1>0 DEF Timed
    <3> QED
      BY <1>4, <1>5, <3>1
  <2>2. ~Has(ready', "write")
    BY <1>1
  <2> QED
    BY <1>1, <2>1, <2>2 DEF Timed
<1> QED
  BY <1>12, <1>13, <1>14

\* The request is not complete yet: the read goes on.
LEMMA ReceivePart ==
  ASSUME NEW s, Stays(s), ReadingOwn, NEW b \in Seq(Piece), OwnPieces(b, s), ~Whole(b),
         NEW n \in Nat, n >= 1, Len(b) = Len(buffer) + n, Len(buffer) \in Nat,
         Begun \in Int, Consumed(s) = Begun + Len(buffer), answers[s] \in Nat,
         Consumed(s)' = Consumed(s) + n, \A c \in Client : c # s => Consumed(c)' = Consumed(c),
         buffer' = b, UNCHANGED <<pending, ready>>
  PROVE  Leftover' /\ Phases' /\ Timed'
<1>0. /\ s = socket /\ s = socket' /\ OneInUse(ready, pending) /\ Timed
      /\ "read" \in pending /\ answers' = answers /\ s \in Client /\ s # None
  BY DEF Stays, AInv, Pieces
<1>1. /\ Begun % 2 = 0 /\ Begun >= 0 /\ 2 * answers[s] <= Begun + 2
      /\ Spoiled \/ 2 * answers[s] <= Begun
  BY <1>0 DEF ReadingOwn, OwnBuffer
<1>2. Len(b) = 1 /\ Len(buffer) = 0 /\ n = 1
  <2> DEFINE l == Len(b)
             k == Len(buffer)
  <2>1. l = k + n /\ k \in Nat /\ ~(l >= 2)
    BY OwnWhole
  <2> HIDE DEF l, k
  <2>2. l = 1 /\ k = 0 /\ n = 1
    BY <2>1
  <2> QED
    BY <2>2 DEF l, k
<1>3. Begun' = Begun /\ Consumed(s)' = Begun + Len(b)
  <2> DEFINE g == Begun
             h == Begun'
             x == Consumed(s)'
  <2>1. h = x - 1
    BY <1>0, <1>2 DEF Begun, Consumed
  <2>2. x = (g + 0) + 1 /\ g \in Int
    BY <1>2
  <2> HIDE DEF g, h, x
  <2>3. h = g /\ x = g + 1
    BY <2>1, <2>2
  <2> QED
    BY <1>2, <2>3 DEF g, h, x
<1>4. Spoiled' <=> Spoiled
  BY <1>0 DEF Spoiled, Consumed
<1>5. ReadingOwn'
  <2>1. \A i \in 1..Len(buffer') : buffer'[i] = PieceAt(socket, i - 1)'
    BY <1>0 DEF PieceAt, OwnPieces
  <2>2. Len(buffer') = 1
    BY <1>2
  <2>3. OwnBuffer'
    <3>1. Begun' >= 0 /\ Begun' % 2 = 0
      BY <1>1, <1>3
    <3>2. Len(buffer') <= 2
      <4>1. 1 <= 2
        OBVIOUS
      <4> QED
        BY ONLY <2>2, <4>1
    <3> QED
      BY <2>1, <3>1, <3>2 DEF OwnBuffer
  <2>4. Len(buffer') <= 1
    <3>1. 1 <= 1
      OBVIOUS
    <3> QED
      BY ONLY <2>2, <3>1
  <2>6. 2 * answers'[s] <= Begun' + 2
    BY <1>0, <1>1, <1>3
  <2>5. Spoiled' \/ 2 * answers'[s] <= Begun'
    BY <1>0, <1>1, <1>3, <1>4
  <2> QED
    BY <1>0, <2>3, <2>4, <2>5, <2>6 DEF ReadingOwn
<1>6. Phases' /\ Timed'
  <2>1. "write" \notin pending /\ ~Has(ready, "read") /\ ~Has(ready, "write")
    BY <1>0 DEF OneInUse
  <2>2. ~After(ready, "read", "timer")
    BY <2>1 DEF After, Has
  <2> QED
    BY <1>0, <1>5, <2>1, <2>2 DEF Phases, Timed
<1>7. Leftover'
  <2>1. Begun \in Nat /\ Len(b) <= 2 /\ Len(b) # 2
    BY <1>1, <1>2
  <2> DEFINE g == Begun
  <2>2. g \in Nat /\ g % 2 = 0 /\ Consumed(s)' = g + Len(b)
    BY <1>1, <1>3, <2>1
  <2> HIDE DEF g
  <2> QED
    BY <1>0, <2>1, <2>2, OwnLeftover
<1> QED
  BY <1>6, <1>7

\* The pieces are of two connections and can never be one request: the read ends
\* with an error, and some of them stay.
LEMMA ReceiveMalformed ==
  ASSUME NEW s, Stays(s), ReadingOther, NEW b \in Seq(Piece), ~Whole(b), b[1] = buffer[1],
         NEW n \in Nat, n >= 1, Len(b) = 1 + n, Len(buffer) = 1,
         \A i \in 1..n : b[i + 1] = PieceAt(s, i - 1),
         answers[s] = 0 => n <= 2,
         Consumed(s)' = Consumed(s) + n, \A c \in Client : c # s => Consumed(c)' = Consumed(c),
         buffer' = b \/ buffer' = Tail(b),
         pending' = pending \ {"read"}, ready' = Append(ready, Ended("read", "error"))
  PROVE  Leftover' /\ Phases' /\ Timed'
<1> DEFINE d == b[1].from
<1>0. /\ s = socket /\ s = socket' /\ IInv /\ OneInUse(ready, pending) /\ Timed /\ Leftover
      /\ "read" \in pending /\ answers' = answers /\ s \in Client /\ s # None
      /\ buffer \in Seq(Piece)
  BY Types DEF Stays, AInv, Pieces
<1>1. Consumed(s) = 0 /\ answers[s] = 0 /\ d # s
  BY <1>0 DEF ReadingOther, Fresh
<1>2. Consumed(s)' = n /\ n <= 2
  BY <1>1
<1>3. d \in Client /\ Consumed(d) % 2 = 1 /\ Consumed(d) > 0
  <2>1. buffer[1] \in Piece /\ buffer # <<>>
    <3>1. 1 \in 1..Len(buffer) /\ buffer # <<>>
      <4>1. buffer \in Seq(Piece) /\ Len(buffer) = 1
        BY <1>0
      <4> QED
        BY ONLY <4>1
    <3> QED
      BY <1>0, <3>1
  <2>2. ~Whole(buffer)
    <3>1. ~(1 >= 2)
      OBVIOUS
    <3> QED
      BY <3>1 DEF Whole
  <2>3. 1 \in 1..Len(buffer)
    BY <1>0
  <2> QED
    BY <1>0, <2>1, <2>2, <2>3 DEF Leftover, Piece
<1>4. Consumed(d)' = Consumed(d)
  BY <1>1, <1>3
<1>5. Spoiled'
  BY <1>0, <1>1, <1>3, <1>4 DEF Spoiled, Consumed
<1>6. /\ OneInUse(ready', pending') /\ Quieter
      /\ "read" \notin pending' /\ "write" \notin pending' /\ ~Has(ready', "read") /\ ~Has(ready', "write")
  <2> DEFINE h == Ended("read", "error")
  <2>1. h \in Handler /\ Kind(h) = "void" /\ ready \in Seq(Handler)
    BY <1>0, EndedKind, Types DEF IInv, Op, SocketOp, Result
  <2> HIDE DEF h
  <2>2. ready' = ready \o <<h>> /\ <<h>> \in Seq(Handler) /\ \A k : Has(<<h>>, k) => k = "void"
    BY <2>1, AppendConcat, KindOne DEF h
  <2>3. OneInUse(ready', pending') /\ Quieter
    BY <1>0, <2>1, <2>2, QuietStep
  <2>4. "write" \notin pending /\ ~Has(ready, "read") /\ ~Has(ready, "write")
    BY <1>0 DEF OneInUse
  <2> QED
    BY <2>3, <2>4 DEF Quieter
<1>7. Phases' /\ Timed'
  <2>1. ~After(ready', "read", "timer")
    BY <1>6 DEF After, Has
  <2> QED
    BY <1>6, <2>1 DEF Phases, Timed
<1>8. CASE buffer' = b
  <2>1. \A i \in 1..Len(b) : Consumed(b[i].from)' > 0
    <3> SUFFICES ASSUME NEW i \in 1..Len(b) PROVE Consumed(b[i].from)' > 0
      OBVIOUS
    <3>1. CASE i = 1
      BY <1>3, <1>4, <3>1 DEF Consumed
    <3>2. CASE i # 1
      <4>1. i - 1 \in 1..n /\ (i - 1) + 1 = i /\ (i - 1) - 1 \in Int
        BY <3>2
      <4>2. b[(i - 1) + 1] = PieceAt(s, (i - 1) - 1)
        BY <4>1
      <4>3. b[(i - 1) + 1].from = s
        BY <4>1, <4>2, PieceFields
      <4> QED
        BY <1>2, <4>1, <4>3 DEF Consumed
    <3> QED
      BY <3>1, <3>2
  <2>2. Consumed(b[1].from)' % 2 = 1
    BY <1>3, <1>4
  <2> QED
    <3>1. ~Whole(buffer')
      BY <1>8
    <3>2. \A i \in 1..Len(buffer') : Consumed(buffer[i].from)' > 0
      BY <1>8, <2>1
    <3>3. Consumed(buffer[1].from)' % 2 = 1
      BY <1>8, <2>2
    <3>4. Leftover'
      BY <3>1, <3>2, <3>3 DEF Leftover, Whole, Consumed
    <3> QED
      BY <1>7, <3>4
<1>9. CASE buffer' = Tail(b)
  <2> DEFINE t == Tail(b)
  <2>1. t \in Seq(Piece) /\ Len(t) = n /\ \A i \in 1..n : t[i] = b[i + 1]
    <3>1. b # <<>>
      BY <1>2
    <3> QED
      BY <3>1
  <2>2. OwnPieces(t, s) /\ t = buffer'
    BY <1>9, <2>1 DEF OwnPieces
  <2> HIDE DEF t
  <2>3. Len(t) <= 2 /\ Consumed(s)' = 0 + Len(t) /\ 0 \in Nat /\ 0 % 2 = 0
    BY <1>2, <2>1
  <2> QED
    BY <1>0, <1>5, <1>7, <2>1, <2>2, <2>3, OwnLeftover
<1> QED
  BY <1>7, <1>8, <1>9

LEMMA ReceiveNext == AInv /\ Receive => OneInUse(ready', pending') /\ Pieces'
<1> SUFFICES ASSUME AInv, Receive PROVE OneInUse(ready', pending') /\ Pieces'
  OBVIOUS
<1> PICK s : s = socket
  OBVIOUS
<1>0. /\ IInv /\ OneInUse(ready, pending) /\ Streams /\ Waiting /\ Timed /\ Leftover /\ Phases /\ Owned
      /\ "read" \in pending
      /\ UNCHANGED <<socket, sent, answers, client, backlog, received>>
  BY DEF AInv, Pieces, Receive, history
<1>1. PICK n \in 1..Len(stream[s]) :
        LET b == buffer \o SubSeq(stream[s], 1, n)
        IN  /\ stream' = [stream EXCEPT ![s] = SubSeq(@, n + 1, Len(@))]
            /\ \/ /\ Whole(b)
                  /\ buffer' = SubSeq(b, 3, Len(b)) /\ request' = b[1].from
                  /\ pending' = pending \ {"read"}
                  /\ ready' = Append(ready, Ended("read", "ok"))
               \/ /\ ~Whole(b) /\ Malformed(b)
                  /\ buffer' = b \/ buffer' = Tail(b)
                  /\ pending' = pending \ {"read"}
                  /\ ready' = Append(ready, Ended("read", "error"))
               \/ ~Whole(b) /\ ~Malformed(b) /\ buffer' = b /\ UNCHANGED <<pending, ready>>
  BY DEF Receive
<1>2. /\ Streams'
      /\ Consumed(s)' = Consumed(s) + n
      /\ \A c \in Client : c # s => Consumed(c)' = Consumed(c)
  BY <1>0, <1>1, ReadsOn
<1> PICK b : b = buffer \o SubSeq(stream[s], 1, n)
  OBVIOUS
<1>3. /\ socket \in Client /\ b \in Seq(Piece) /\ Len(buffer) \in Nat /\ Len(b) = Len(buffer) + n
      /\ Begun \in Int /\ answers[socket] \in Nat /\ Consumed(socket) \in Nat
      /\ Consumed(socket) = Begun + Len(buffer)
      /\ Begun + Len(b) <= 2 * answers[socket] + 2
      /\ \/ ReadingOwn /\ OwnPieces(b, socket)
         \/ /\ ReadingOther /\ Len(buffer) = 1 /\ b[1] = buffer[1]
            /\ \A i \in 1..n : b[i + 1] = PieceAt(socket, i - 1)
            /\ ~Whole(b) /\ Malformed(b)
  BY <1>0, <1>1, Reads
<1>4. Stays(s) /\ n \in Nat /\ n >= 1
  BY <1>0, <1>3, ClientAssumption DEF Stays
<1>5. \A c : ~Offers(ready, c)
  <2>1. InOrder(ready, pending, socket) /\ ready \in Seq(Handler) /\ socket # None
    BY <1>0, <1>3, ClientAssumption DEF IInv, QueueInv, TypeOK
  <2> QED
    BY <2>1, OrderKinds, OffersKind
<1>6. Owned'
  BY <1>0, <1>2 DEF Owned, Consumed
<1>7. ASSUME NoneOffered PROVE Waiting'
  BY <1>0, <1>5, <1>7 DEF Waiting, NoneOffered
<1>8. CASE /\ Whole(b)
           /\ buffer' = SubSeq(b, 3, Len(b)) /\ request' = b[1].from
           /\ pending' = pending \ {"read"}
           /\ ready' = Append(ready, Ended("read", "ok"))
  <2>1. Leftover' /\ Phases' /\ Timed'
    BY <1>2, <1>3, <1>4, <1>8, ReceiveWhole
  <2>2. OneInUse(ready', pending') /\ NoneOffered
    BY <1>0, <1>8, UseDone DEF SocketOp
  <2> QED
    BY <1>2, <1>6, <1>7, <2>1, <2>2 DEF Pieces
<1>9. CASE /\ ~Whole(b) /\ Malformed(b)
           /\ buffer' = b \/ buffer' = Tail(b)
           /\ pending' = pending \ {"read"}
           /\ ready' = Append(ready, Ended("read", "error"))
  <2>1. /\ ReadingOther /\ Len(buffer) = 1 /\ b[1] = buffer[1]
        /\ \A i \in 1..n : b[i + 1] = PieceAt(socket, i - 1)
    BY <1>3, <1>9, OwnWhole
  <2>2. answers[s] = 0 => n <= 2
    <3>1. Consumed(s) = 0
      BY <2>1 DEF ReadingOther, Fresh
    <3> DEFINE g == Begun
               k == Len(buffer)
               l == Len(b)
               a == answers[s]
    <3>2. g \in Int /\ 0 = g + k /\ k \in Nat /\ l = k + n /\ g + l <= 2 * a + 2
      BY <1>3, <3>1
    <3> HIDE DEF g, k, l, a
    <3>3. a = 0 => n <= 2
      BY <1>4, <3>2
    <3> QED
      BY <3>3 DEF a
  <2>3. Len(b) = 1 + n
    BY <1>3, <2>1
  <2>4. Leftover' /\ Phases' /\ Timed'
    BY <1>2, <1>3, <1>4, <1>9, <2>1, <2>2, <2>3, ReceiveMalformed
  <2>5. OneInUse(ready', pending') /\ NoneOffered
    <3> DEFINE h == Ended("read", "error")
    <3>1. h \in Handler /\ Kind(h) = "void" /\ ready \in Seq(Handler)
      BY <1>0, EndedKind, Types DEF IInv, Op, SocketOp, Result
    <3> HIDE DEF h
    <3>2. ready' = ready \o <<h>> /\ <<h>> \in Seq(Handler) /\ \A k : Has(<<h>>, k) => k = "void"
      BY <1>9, <3>1, AppendConcat, KindOne DEF h
    <3>3. pending' \cap Op \subseteq pending
      BY <1>9
    <3> QED
      BY <1>0, <3>1, <3>2, <3>3, QuietStep
  <2> QED
    BY <1>2, <1>6, <1>7, <2>4, <2>5 DEF Pieces
<1>10. CASE ~Whole(b) /\ ~Malformed(b) /\ buffer' = b /\ UNCHANGED <<pending, ready>>
  <2>1. Leftover' /\ Phases' /\ Timed'
    BY <1>2, <1>3, <1>4, <1>10, ReceivePart
  <2>2. NoneOffered
    BY <1>10 DEF NoneOffered
  <2> QED
    BY <1>0, <1>2, <1>6, <1>7, <1>10, <2>1, <2>2 DEF Pieces
<1> QED
  BY <1>1, <1>8, <1>9, <1>10

-----------------------------------------------------------------------------
(* The steps that read nothing.                                            *)

\* A step that begins and completes nothing keeps what is said of the pieces.
LEMMA QuietPieces ==
  ASSUME AInv, TypeOK', Quieter, UNCHANGED <<buffer, request, answers, received>>,
         \A c \in Client : Consumed(c)' = Consumed(c),
         socket' = socket \/ (socket' = None /\ (Has(ready', "write") => buffer = <<>>))
  PROVE  Leftover' /\ Phases' /\ Timed' /\ Owned'
<1>0. /\ IInv /\ OneInUse(ready, pending) /\ Timed /\ Leftover /\ Phases /\ Owned
      /\ buffer \in Seq(Piece) /\ \A i \in 1..Len(buffer) : buffer[i] \in Piece
  BY Types DEF AInv, Pieces
<1>1. \A i \in 1..Len(buffer) : buffer[i].from \in Client
  BY <1>0 DEF Piece
<1>2. Spoiled => Spoiled'
  BY ClientAssumption DEF Spoiled
<1>3. Leftover'
  <2>1. Whole(buffer) => Len(buffer) = 2 /\ Spoiled'
    BY <1>0, <1>2 DEF Leftover
  <2>2. buffer # <<>> => 1 \in 1..Len(buffer)
    BY <1>0
  <2>3. buffer # <<>> /\ ~Whole(buffer) => Consumed(buffer[1].from)' % 2 = 1
    BY <1>0, <1>1, <2>2 DEF Leftover, Consumed
  <2>4. \A i \in 1..Len(buffer) : Consumed(buffer[i].from)' > 0
    BY <1>0, <1>1 DEF Leftover, Consumed
  <2> QED
    BY <2>1, <2>3, <2>4 DEF Leftover, Whole
<1>4. Phases'
  <2> SUFFICES ASSUME socket' # None PROVE Phases'
    BY DEF Phases
  <2>1. socket' = socket /\ socket \in Client
    BY <1>0, Types
  <2>2. Begun' = Begun /\ Fresh(socket)' = Fresh(socket)
    BY <2>1 DEF Begun, Consumed, Fresh
  <2>3. OwnBuffer => OwnBuffer'
    BY <2>1, <2>2 DEF OwnBuffer, PieceAt
  <2>4. ReadingOwn => ReadingOwn'
    BY <1>2, <2>1, <2>2, <2>3 DEF ReadingOwn
  <2>5. ReadingOther => ReadingOther'
    BY <2>1, <2>2 DEF ReadingOther, Fresh
  <2>6. Answering => Answering'
    BY <1>2, <2>1, <2>2, <2>3 DEF Answering
  <2>7. Answered => Answered'
    BY <1>2, <2>1, <2>2, <2>3 DEF Answered
  <2>8. /\ "read" \in pending' => "read" \in pending
        /\ "write" \in pending' => "write" \in pending
    BY DEF Quieter, Op, SocketOp
  <2> QED
    BY <1>0, <2>1, <2>4, <2>5, <2>6, <2>7, <2>8 DEF Phases, Quieter
<1>5. Timed'
  <2>1. \A op \in Op : op \in pending' => op \in pending /\ socket' # None
    BY DEF Quieter, TypeOK
  <2>2. {"read", "write", "timer"} \subseteq Op
    BY DEF Op, SocketOp
  <2>3. \A op \in {"read", "write", "timer"} : op \in pending' => op \in pending /\ socket' = socket
    BY <2>1, <2>2
  <2>4. /\ Has(ready', "read") => Has(ready, "read")
        /\ Has(ready', "write") => Has(ready, "write")
        /\ Has(ready', "timer") => Has(ready, "timer")
        /\ After(ready', "read", "timer") => After(ready, "read", "timer")
    BY DEF Quieter
  <2>5. Has(ready', "write") /\ socket' = None => buffer = <<>>
    BY <1>0, <2>4 DEF Timed
  <2> QED
    BY <1>0, <2>3, <2>4, <2>5 DEF Timed
<1>6. Owned'
  <2>1. \A d \in Client : d # socket => d # socket'
    BY ClientAssumption
  <2> QED
    BY <1>0, <2>1 DEF Owned
<1> QED
  BY <1>3, <1>4, <1>5, <1>6

\* Connections are closed, at one end or the other, and nothing else.
LEMMA SameStreams ==
  ASSUME AInv, NoneOffered, UNCHANGED <<stream, sent, answers, backlog>>,
         \A c \in Client : \/ client'[c] = client[c]
                           \/ client[c] = "open" /\ client'[c] \notin {"away", "queued"},
         socket' = socket \/ socket' = None
  PROVE  Streams' /\ Waiting' /\ \A c \in Client : Consumed(c)' = Consumed(c)
<1>0. IInv /\ Streams /\ Waiting /\ socket \in Client \cup {None} /\ backlog \in Seq(Client)
  BY Types DEF AInv, Pieces
<1>1. \A c \in Client : Consumed(c)' = Consumed(c) /\ Fresh(c)' = Fresh(c)
  BY DEF Consumed, Fresh
<1>2. \A c \in Client : client'[c] \in {"away", "queued"} => client'[c] = client[c]
  OBVIOUS
<1>3. Streams'
  <2> SUFFICES ASSUME NEW c \in Client
               PROVE  /\ Consumed(c)' >= 0 /\ sent'[c] <= 2 * (answers'[c] + 1)
                      /\ \A i \in 1..Len(stream'[c]) : stream'[c][i] = PieceAt(c, Consumed(c)' + i - 1)
                      /\ client'[c] \in {"away", "queued"} => Fresh(c)'
    BY DEF Streams, PieceAt
  <2> QED
    BY <1>0, <1>1, <1>2 DEF Streams
<1>4. Waiting'
  <2>1. \A i \in 1..Len(backlog) : backlog[i] \in Client /\ client[backlog[i]] = "queued"
    BY <1>0 DEF Waiting
  <2>2. \A i \in 1..Len(backlog) : client'[backlog[i]] = "queued"
    BY <2>1
  <2>3. \A c \in Client : Offers(ready', c) => Fresh(c)' /\ client'[c] \notin {"away", "queued"}
    BY <1>0, <1>1, <1>2 DEF Waiting, NoneOffered
  <2>4. socket' # None => client'[socket'] \notin {"away", "queued"}
    BY <1>0, <1>2 DEF Waiting
  <2>5. \A i, j \in 1..Len(backlog) : backlog[i] = backlog[j] => i = j
    BY <1>0 DEF Waiting
  <2> QED
    BY <2>2, <2>3, <2>4, <2>5 DEF Waiting, Fresh, Consumed
<1> QED
  BY <1>1, <1>3, <1>4

LEMMA QuietNext ==
  ASSUME AInv, TypeOK',
         \/ StartServer \/ OnAcceptError \/ (OnRead /\ socket = None) \/ OnReadError
         \/ OnWriteError \/ OnDeadline \/ OnDeadlineCancelled
         \/ ServerReturns \/ CloseAcceptor \/ StopContext \/ EndOfStream \/ WriteFails
         \/ \E c \in Client : Leave(c)
  PROVE  OneInUse(ready', pending') /\ Pieces'
<1>0. IInv /\ OneInUse(ready, pending) /\ Timed
  BY DEF AInv, Pieces
<1>1. OneInUse(ready', pending') /\ Quieter /\ NoneOffered
  BY <1>0, QuietHandler, QuietEvent DEF AcceptEnds, StartServer, ServerReturns, CloseAcceptor,
     StopContext, EndOfStream, WriteFails, Leave, NoneOffered
<1>2. UNCHANGED <<buffer, request, answers, received, stream, sent, backlog>>
  BY DEF StartServer, OnAcceptError, OnRead, OnReadError, OnWriteError, OnDeadline,
     OnDeadlineCancelled, ServerReturns, CloseAcceptor, StopContext, EndOfStream, WriteFails, Leave,
     network, history
<1>3. \A c \in Client : \/ client'[c] = client[c]
                        \/ client[c] = "open" /\ client'[c] \notin {"away", "queued"}
  <2>1. client \in [Client -> {"away", "queued", "open", "dropped", "left"}]
    BY <1>0 DEF IInv, TypeOK
  <2>2. CASE Drop(socket)
    BY <2>1, <2>2 DEF Drop
  <2>3. CASE UNCHANGED client
    BY <2>3
  <2>4. CASE \E c \in Client : Leave(c)
    BY <2>1, <2>4 DEF Leave
  <2> QED
    BY <2>2, <2>3, <2>4 DEF StartServer, OnAcceptError, OnRead, OnReadError, OnWriteError, OnDeadline,
       OnDeadlineCancelled, ServerReturns, CloseAcceptor, StopContext, EndOfStream, WriteFails, network
<1>4. socket' = socket \/ (socket' = None /\ (Has(ready', "write") => buffer = <<>>))
  <2>1. CASE OnWriteError
    <3>1. Run("write", "error") /\ socket' = None
      BY <2>1 DEF OnWriteError
    <3>2. Has(ready, "failed")
      BY <1>0, <3>1, HeadKind
    <3> QED
      BY <1>0, <1>1, <3>1, <3>2 DEF OneInUse, Quieter
  <2>2. CASE OnDeadline
    <3>1. Run("timer", "ok") /\ socket' = None
      BY <2>2 DEF OnDeadline
    <3>2. Has(ready, "timer")
      BY <1>0, <3>1, HeadKind
    <3> QED
      BY <1>0, <1>1, <3>1, <3>2 DEF Timed, Quieter
  <2>3. CASE UNCHANGED socket
    BY <2>3
  <2> QED
    BY <2>1, <2>2, <2>3 DEF StartServer, OnAcceptError, OnRead, OnReadError,
       OnDeadlineCancelled, ServerReturns, CloseAcceptor, StopContext, EndOfStream, WriteFails, Leave
<1>5. Streams' /\ Waiting' /\ \A c \in Client : Consumed(c)' = Consumed(c)
  BY <1>1, <1>2, <1>3, <1>4, SameStreams
<1>6. Leftover' /\ Phases' /\ Timed' /\ Owned'
  BY <1>1, <1>2, <1>4, <1>5, QuietPieces
<1> QED
  BY <1>1, <1>5, <1>6 DEF Pieces

\* A connection is made.
LEMMA ConnectNext ==
  ASSUME AInv, TypeOK', NEW x \in Client, Connect(x)
  PROVE  OneInUse(ready', pending') /\ Pieces'
<1>0. /\ IInv /\ OneInUse(ready, pending) /\ Streams /\ Waiting
      /\ socket \in Client \cup {None} /\ backlog \in Seq(Client)
      /\ client \in [Client -> {"away", "queued", "open", "dropped", "left"}]
  BY Types DEF AInv, Pieces, IInv, TypeOK
<1>1. /\ client[x] = "away" /\ client' = [client EXCEPT ![x] = "queued"]
      /\ backlog' = Append(backlog, x)
      /\ UNCHANGED <<socket, pending, ready, buffer, request, stream, sent, answers, received>>
  BY DEF Connect, history
<1>2. Quieter /\ NoneOffered /\ OneInUse(ready', pending')
  BY <1>0, <1>1 DEF Quieter, NoneOffered, Op
<1>3. \A c \in Client : Consumed(c)' = Consumed(c) /\ Fresh(c)' = Fresh(c)
  BY <1>1 DEF Consumed, Fresh
<1>4. /\ Fresh(x) /\ client'[x] = "queued" /\ socket # x /\ ~Offers(ready, x)
      /\ \A c \in Client : c # x => client'[c] = client[c]
  BY <1>0, <1>1, ClientAssumption DEF Streams, Waiting
<1>5. Streams'
  <2> SUFFICES ASSUME NEW c \in Client
               PROVE  /\ Consumed(c)' >= 0 /\ sent'[c] <= 2 * (answers'[c] + 1)
                      /\ \A i \in 1..Len(stream'[c]) : stream'[c][i] = PieceAt(c, Consumed(c)' + i - 1)
                      /\ client'[c] \in {"away", "queued"} => Fresh(c)'
    BY DEF Streams, PieceAt
  <2> QED
    BY <1>0, <1>1, <1>3, <1>4 DEF Streams
<1>6. Waiting'
  <2>1. /\ Len(backlog') = Len(backlog) + 1 /\ Len(backlog) \in Nat
        /\ backlog'[Len(backlog) + 1] = x
        /\ \A i \in 1..Len(backlog) : backlog'[i] = backlog[i] /\ backlog[i] \in Client
    BY <1>0, <1>1
  <2>2. \A i \in 1..Len(backlog') : i \in 1..Len(backlog) \/ i = Len(backlog) + 1
    BY <2>1
  <2>3. \A i \in 1..Len(backlog) : backlog[i] # x
    BY <1>0, <1>1 DEF Waiting
  <2>4. \A i \in 1..Len(backlog') : client'[backlog'[i]] = "queued"
    BY <1>0, <1>4, <2>1, <2>2, <2>3 DEF Waiting
  <2>5. \A i, j \in 1..Len(backlog') : backlog'[i] = backlog'[j] => i = j
    BY <1>0, <2>1, <2>2, <2>3 DEF Waiting
  <2>6. \A c \in Client : Offers(ready', c) => Fresh(c)' /\ client'[c] \notin {"away", "queued"}
    BY <1>0, <1>2, <1>3, <1>4 DEF Waiting, NoneOffered
  <2>7. socket' # None => client'[socket'] \notin {"away", "queued"}
    BY <1>0, <1>1, <1>4 DEF Waiting
  <2> QED
    BY <2>4, <2>5, <2>6, <2>7 DEF Waiting, Fresh, Consumed
<1>7. Leftover' /\ Phases' /\ Timed' /\ Owned'
  BY <1>1, <1>2, <1>3, QuietPieces
<1> QED
  BY <1>2, <1>5, <1>6, <1>7 DEF Pieces

\* A client sends the next piece.
LEMMA SendNext ==
  ASSUME AInv, TypeOK', NEW x \in Client, Send(x)
  PROVE  OneInUse(ready', pending') /\ Pieces'
<1>0. /\ IInv /\ OneInUse(ready, pending) /\ Streams /\ Waiting
      /\ stream \in [Client -> Seq(Piece)] /\ sent \in [Client -> Nat] /\ answers \in [Client -> Nat]
      /\ backlog \in Seq(Client)
  BY Types DEF AInv, Pieces
<1> DEFINE p == PieceAt(x, sent[x])
<1>1. /\ sent' = [sent EXCEPT ![x] = @ + 1] /\ stream' = [stream EXCEPT ![x] = Append(@, p)]
      /\ sent[x] < 2 * (answers[x] + 1)
      /\ UNCHANGED <<socket, pending, ready, buffer, request, backlog, client, answers, received>>
  BY DEF Send, history, PieceAt
<1>2. p \in Piece
  BY DEF PieceAt, Piece
<1>3. /\ Len(stream'[x]) = Len(stream[x]) + 1 /\ Len(stream[x]) \in Nat /\ sent'[x] = sent[x] + 1
      /\ stream'[x][Len(stream[x]) + 1] = p
      /\ \A i \in 1..Len(stream[x]) : stream'[x][i] = stream[x][i]
      /\ \A c \in Client : c # x => stream'[c] = stream[c] /\ sent'[c] = sent[c]
  <2> HIDE DEF p
  <2>1. stream[x] \in Seq(Piece) /\ stream'[x] = Append(stream[x], p)
    BY <1>0, <1>1
  <2>2. /\ Len(Append(stream[x], p)) = Len(stream[x]) + 1 /\ Len(stream[x]) \in Nat
        /\ Append(stream[x], p)[Len(stream[x]) + 1] = p
        /\ \A i \in 1..Len(stream[x]) : Append(stream[x], p)[i] = stream[x][i]
    BY <1>2, <2>1
  <2> QED
    BY <1>0, <1>1, <2>1, <2>2
<1>4. Quieter /\ NoneOffered /\ OneInUse(ready', pending')
  BY <1>0, <1>1 DEF Quieter, NoneOffered, Op
<1>5. \A c \in Client : Consumed(c)' = Consumed(c)
  <2>1. Consumed(x)' = Consumed(x)
    <3> DEFINE k == Len(stream[x])
               l == Len(stream'[x])
    <3>1. k \in Nat /\ l = k + 1 /\ sent[x] \in Nat /\ sent'[x] = sent[x] + 1
      BY <1>0, <1>3
    <3> HIDE DEF k, l
    <3>2. sent'[x] - l = sent[x] - k
      BY <3>1
    <3> QED
      BY <3>2 DEF Consumed, k, l
  <2> QED
    BY <1>3, <2>1 DEF Consumed
<1>6. \A c \in Client : Fresh(c)' = Fresh(c)
  BY <1>1, <1>5 DEF Fresh
<1>7. Streams'
  <2> SUFFICES ASSUME NEW c \in Client
               PROVE  /\ Consumed(c)' >= 0 /\ sent'[c] <= 2 * (answers'[c] + 1)
                      /\ \A i \in 1..Len(stream'[c]) : stream'[c][i] = PieceAt(c, Consumed(c)' + i - 1)
                      /\ client'[c] \in {"away", "queued"} => Fresh(c)'
    BY DEF Streams, PieceAt
  <2>1. CASE c = x
    <3>1. sent'[x] <= 2 * (answers'[x] + 1)
      <4>1. sent[x] \in Nat /\ answers[x] \in Nat
        BY <1>0
      <4> QED
        BY <1>1, <1>3, <4>1
    <3>2. ASSUME NEW i \in 1..Len(stream'[x])
          PROVE  stream'[x][i] = PieceAt(x, Consumed(x)' + i - 1)
      <4>1. CASE i \in 1..Len(stream[x])
        BY <1>0, <1>3, <1>5, <4>1 DEF Streams
      <4>2. CASE i = Len(stream[x]) + 1
        <5>1. Consumed(x) = sent[x] - Len(stream[x]) /\ sent[x] \in Nat
          BY <1>0 DEF Consumed
        <5>2. Consumed(x) + i - 1 = sent[x]
          BY <1>3, <4>2, <5>1
        <5> QED
          BY <1>3, <1>5, <4>2, <5>2
      <4> QED
        BY <1>3, <4>1, <4>2
    <3> QED
      BY <1>0, <1>1, <1>5, <1>6, <2>1, <3>1, <3>2 DEF Streams
  <2>2. CASE c # x
    BY <1>0, <1>1, <1>3, <1>5, <1>6, <2>2 DEF Streams
  <2> QED
    BY <2>1, <2>2
<1>8. Waiting'
  <2>1. \A c \in Client : Offers(ready', c) => Fresh(c)' /\ client'[c] \notin {"away", "queued"}
    BY <1>0, <1>1, <1>6 DEF Waiting
  <2> QED
    BY <1>0, <1>1, <2>1 DEF Waiting, Fresh, Consumed
<1>9. Leftover' /\ Phases' /\ Timed' /\ Owned'
  BY <1>1, <1>4, <1>5, QuietPieces
<1> QED
  BY <1>4, <1>7, <1>8, <1>9 DEF Pieces

\* The operating system hands over a connection.
LEMMA AcceptEndsNext ==
  ASSUME AInv, TypeOK', AcceptEnds
  PROVE  OneInUse(ready', pending') /\ Pieces'
<1> DEFINE x == Head(backlog)
<1>0. /\ IInv /\ OneInUse(ready, pending) /\ Streams /\ Waiting
      /\ socket \in Client \cup {None} /\ backlog \in Seq(Client)
      /\ client \in [Client -> {"away", "queued", "open", "dropped", "left"}]
  BY Types DEF AInv, Pieces, IInv, TypeOK
<1>1. /\ backlog # <<>> /\ backlog' = Tail(backlog) /\ client' = [client EXCEPT ![x] = "open"]
      /\ pending' = pending \ {"accept"}
      /\ UNCHANGED <<socket, buffer, request, stream, sent, answers, received>>
  BY DEF AcceptEnds, history
<1>2. /\ OneInUse(ready', pending') /\ Quieter
      /\ \A c : Offers(ready', c) => Offers(ready, c) \/ c = x
  BY <1>0, QuietEvent DEF AcceptEnds
<1>3. \A c \in Client : Consumed(c)' = Consumed(c) /\ Fresh(c)' = Fresh(c)
  BY <1>1 DEF Consumed, Fresh
<1>4. /\ x \in Client /\ x = backlog[1] /\ Len(backlog) \in Nat /\ Len(backlog) >= 1
      /\ Len(backlog') = Len(backlog) - 1
      /\ \A i \in 1..Len(backlog') : i + 1 \in 1..Len(backlog) /\ backlog'[i] = backlog[i + 1]
  BY <1>0, <1>1
<1> HIDE DEF x
<1>5. client[x] = "queued" /\ Fresh(x) /\ client'[x] = "open"
      /\ \A c \in Client : c # x => client'[c] = client[c]
  BY <1>0, <1>1, <1>4 DEF Waiting, Streams
<1>6. Streams'
  <2> SUFFICES ASSUME NEW c \in Client
               PROVE  /\ Consumed(c)' >= 0 /\ sent'[c] <= 2 * (answers'[c] + 1)
                      /\ \A i \in 1..Len(stream'[c]) : stream'[c][i] = PieceAt(c, Consumed(c)' + i - 1)
                      /\ client'[c] \in {"away", "queued"} => Fresh(c)'
    BY DEF Streams, PieceAt
  <2> QED
    BY <1>0, <1>1, <1>3, <1>5 DEF Streams
<1>7. Waiting'
  <2>1. \A i, j \in 1..Len(backlog') : backlog'[i] = backlog'[j] => i = j
    <3> SUFFICES ASSUME NEW i \in 1..Len(backlog'), NEW j \in 1..Len(backlog'), backlog'[i] = backlog'[j]
                 PROVE  i = j
      OBVIOUS
    <3>1. i + 1 = j + 1
      BY <1>0, <1>4 DEF Waiting
    <3> QED
      BY <3>1
  <2>2. \A i \in 1..Len(backlog') : client'[backlog'[i]] = "queued"
    <3> SUFFICES ASSUME NEW i \in 1..Len(backlog') PROVE client'[backlog'[i]] = "queued"
      OBVIOUS
    <3>1. i + 1 \in 1..Len(backlog) /\ backlog'[i] = backlog[i + 1] /\ 1 \in 1..Len(backlog) /\ i + 1 # 1
      BY <1>4
    <3>2. backlog[i + 1] # x /\ backlog[i + 1] \in Client
      BY <1>0, <1>4, <3>1 DEF Waiting
    <3> QED
      BY <1>0, <1>5, <3>1, <3>2 DEF Waiting
  <2>3. \A c \in Client : Offers(ready', c) => Fresh(c)' /\ client'[c] \notin {"away", "queued"}
    BY <1>0, <1>2, <1>3, <1>5 DEF Waiting
  <2>4. socket' # None => client'[socket'] \notin {"away", "queued"}
    BY <1>0, <1>1, <1>5 DEF Waiting
  <2> QED
    BY <2>1, <2>2, <2>3, <2>4 DEF Waiting, Fresh, Consumed
<1>8. Leftover' /\ Phases' /\ Timed' /\ Owned'
  BY <1>1, <1>2, <1>3, QuietPieces
<1> QED
  BY <1>2, <1>6, <1>7, <1>8 DEF Pieces

\* The response begins: the deadline still runs for the first request only.
LEMMA OnReadNext ==
  ASSUME AInv, TypeOK', OnRead, socket # None
  PROVE  OneInUse(ready', pending') /\ Pieces'
<1>0. /\ IInv /\ OneInUse(ready, pending) /\ Streams /\ Waiting /\ Timed /\ Leftover /\ Phases /\ Owned
      /\ socket \in Client
  BY Types DEF AInv, Pieces
<1>1. UNCHANGED <<socket, buffer, request, stream, sent, answers, received, backlog, client>>
  BY DEF OnRead, network
<1>2. /\ OneInUse(ready', pending')
      /\ Has(ready, "read") /\ pending' = pending \cup {"write"}
      /\ "read" \notin pending' /\ ~Has(ready', "read") /\ ~Has(ready', "write")
      /\ Has(ready', "timer") => After(ready, "read", "timer")
      /\ NoneOffered
  BY <1>0, UseRead
<1>3. Streams' /\ Waiting'
  BY <1>0, <1>1, <1>2, SameStreams
<1>4. Leftover' /\ Owned'
  BY <1>0, <1>1 DEF Leftover, Owned, Spoiled, Consumed, Whole
<1>5. Answering'
  BY <1>0, <1>1, <1>2 DEF Phases, Answering, OwnBuffer, Spoiled, Begun, Consumed, PieceAt
<1>6. Phases'
  BY <1>2, <1>5 DEF Phases
<1>7. ~After(ready', "read", "timer")
  BY <1>2 DEF After, Has
<1>8. Timed'
  BY <1>0, <1>1, <1>2, <1>7 DEF Timed
<1> QED
  BY <1>2, <1>3, <1>4, <1>6, <1>8 DEF Pieces

\* The deadline passes.
LEMMA DeadlineNext ==
  ASSUME AInv, TypeOK', DeadlinePasses
  PROVE  OneInUse(ready', pending') /\ Pieces'
<1>0. /\ IInv /\ OneInUse(ready, pending) /\ Streams /\ Waiting /\ Timed /\ Leftover /\ Phases /\ Owned
      /\ socket \in Client /\ socket # None
  BY OpenSocket DEF AInv, Pieces, DeadlinePasses
<1>1. UNCHANGED <<socket, buffer, request, stream, sent, answers, received, backlog, client>>
  BY DEF DeadlinePasses, network, history
<1>2. /\ OneInUse(ready', pending')
      /\ "timer" \in pending /\ pending' = pending \ {"timer"}
      /\ \A k : Has(ready', k) => Has(ready, k) \/ k = "timer"
      /\ After(ready', "read", "timer") => Has(ready, "read")
      /\ NoneOffered
  BY <1>0, UseExpired
<1>3. Streams' /\ Waiting'
  BY <1>0, <1>1, <1>2, SameStreams
<1>4. Leftover' /\ Owned'
  BY <1>0, <1>1 DEF Leftover, Owned, Spoiled, Consumed, Whole
<1>5. (Answering => Answering') /\ (Answered => Answered')
      /\ (ReadingOwn => ReadingOwn') /\ (ReadingOther => ReadingOther')
  BY <1>1 DEF Answering, Answered, ReadingOwn, ReadingOther, Fresh, OwnBuffer, Spoiled, Begun, Consumed, PieceAt
<1>6. Phases'
  BY <1>0, <1>1, <1>2, <1>5 DEF Phases
<1>7. Timed'
  BY <1>0, <1>1, <1>2 DEF Timed
<1> QED
  BY <1>2, <1>3, <1>4, <1>6, <1>7 DEF Pieces

\* The response is out.
LEMMA WriteEndsNext ==
  ASSUME AInv, TypeOK', WriteEnds
  PROVE  OneInUse(ready', pending') /\ Pieces'
<1> PICK s : s = socket
  OBVIOUS
<1>0. /\ IInv /\ OneInUse(ready, pending) /\ Streams /\ Waiting /\ Timed /\ Leftover /\ Phases /\ Owned
      /\ s \in Client /\ s # None /\ ready \in Seq(Handler)
      /\ stream \in [Client -> Seq(Piece)] /\ sent \in [Client -> Nat] /\ answers \in [Client -> Nat]
      /\ received \in [Client -> SUBSET (Client \cup {None})]
      /\ "write" \in pending /\ InOrder(ready, pending, socket)
  BY OpenSocket, Types DEF AInv, Pieces, WriteEnds, IInv, QueueInv
<1>1. /\ pending' = pending \ {"write"} /\ ready' = Append(ready, Ended("write", "ok"))
      /\ received' = [received EXCEPT ![s] = @ \cup {request}]
      /\ answers' = [answers EXCEPT ![s] = @ + 1]
      /\ UNCHANGED <<socket, buffer, request, stream, sent, backlog, client>>
  BY DEF WriteEnds
<1>2. /\ OneInUse(ready', pending')
      /\ "read" \notin pending' /\ "write" \notin pending'
      /\ \A k : Has(ready', k) => Has(ready, k) \/ k = "write"
      /\ ~Has(ready, "read") /\ ~Has(ready, "write") /\ ~After(ready', "read", "timer")
      /\ NoneOffered
  BY <1>0, <1>1, UseDone DEF SocketOp
<1>3. \A c \in Client : Consumed(c)' = Consumed(c)
  BY <1>1 DEF Consumed
<1>4. /\ answers'[s] = answers[s] + 1 /\ answers[s] \in Nat
      /\ \A c \in Client : c # s => answers'[c] = answers[c]
  BY <1>0, <1>1
<1>5. \A c : ~Offers(ready', c)
  BY <1>0, <1>2, OrderKinds, OffersKind DEF NoneOffered
<1>6. Answering
  BY <1>0 DEF Phases
<1>7. Streams'
  <2> SUFFICES ASSUME NEW c \in Client
               PROVE  /\ Consumed(c)' >= 0 /\ sent'[c] <= 2 * (answers'[c] + 1)
                      /\ \A i \in 1..Len(stream'[c]) : stream'[c][i] = PieceAt(c, Consumed(c)' + i - 1)
                      /\ client'[c] \in {"away", "queued"} => Fresh(c)'
    BY DEF Streams, PieceAt
  <2>1. sent'[c] <= 2 * (answers'[c] + 1)
    <3>1. sent'[c] = sent[c] /\ sent[c] \in Nat /\ answers[c] \in Nat /\ sent[c] <= 2 * (answers[c] + 1)
          /\ (answers'[c] = answers[c] \/ answers'[c] = answers[c] + 1)
      BY <1>0, <1>1, <1>4 DEF Streams
    <3> QED
      BY <3>1
  <2>2. client'[c] \in {"away", "queued"} => c # s /\ Fresh(c)
    BY <1>0, <1>1 DEF Streams, Waiting
  <2>3. client'[c] \in {"away", "queued"} => Fresh(c)'
    BY <1>3, <1>4, <2>2 DEF Fresh
  <2> QED
    BY <1>0, <1>1, <1>3, <2>1, <2>3 DEF Streams
<1>8. Waiting'
  BY <1>0, <1>1, <1>5 DEF Waiting
<1>9. Leftover'
  BY <1>0, <1>1 DEF Leftover, Spoiled, Consumed, Whole
<1>10. Answered'
  <2>1. Begun' = Begun /\ (Spoiled => Spoiled') /\ OwnBuffer'
    BY <1>1, <1>6 DEF Answering, OwnBuffer, Begun, Spoiled, Consumed, PieceAt
  <2>2. /\ 2 * answers[s] <= Begun
        /\ Spoiled \/ (2 * answers[s] <= Begun - 2 /\ buffer = <<>>)
    BY <1>6 DEF Answering
  <2>3. Begun \in Int
    <3>1. sent[s] \in Nat /\ Len(stream[s]) \in Nat /\ Len(buffer) \in Nat
      BY <1>0, Types
    <3> DEFINE k == Len(stream[s])
               l == Len(buffer)
               m == sent[s]
    <3>2. k \in Nat /\ l \in Nat /\ m \in Nat
      BY <3>1
    <3> HIDE DEF k, l, m
    <3>3. m - k - l \in Int
      BY <3>2
    <3> QED
      BY <3>3 DEF Begun, Consumed, k, l, m
  <2> DEFINE g == Begun
             a == answers[s]
  <2>4. g \in Int /\ a \in Nat /\ 2 * a <= g /\ (Spoiled \/ 2 * a <= g - 2)
    BY <1>4, <2>2, <2>3
  <2> HIDE DEF g, a
  <2>5. 2 * (a + 1) <= g + 2 /\ (Spoiled \/ 2 * (a + 1) <= g)
    BY <2>4
  <2>6. 2 * answers'[s] <= Begun' + 2 /\ (Spoiled' \/ (2 * answers'[s] <= Begun' /\ buffer' = <<>>))
    <3>1. CASE Spoiled
      BY <1>4, <2>1, <2>5, <3>1 DEF g, a
    <3>2. CASE ~Spoiled
      BY <1>1, <1>4, <2>1, <2>2, <2>5, <3>2 DEF g, a
    <3> QED
      BY <3>1, <3>2
  <2> QED
    BY <1>1, <2>1, <2>6 DEF Answered
<1>11. Phases'
  BY <1>2, <1>10 DEF Phases
<1>12. Timed'
  <2>1. Has(ready', "timer") => Has(ready, "timer")
    BY <1>2
  <2> QED
    BY <1>0, <1>1, <1>2, <2>1 DEF Timed
<1>13. Owned'
  <2>1. Spoiled \/ request = s
    BY <1>6 DEF Answering
  <2> SUFFICES ASSUME NEW c \in Client
               PROVE  \/ received'[c] \subseteq {c}
                      \/ \E d \in Client \ {c} : d # socket' /\ Consumed(d)' % 2 = 1
    BY DEF Owned
  <2>2. CASE c = s /\ Spoiled
    <3>1. PICK d \in Client : d # socket /\ Consumed(d) % 2 = 1
      BY <2>2 DEF Spoiled
    <3> QED
      BY <1>1, <1>3, <2>2, <3>1
  <2>3. CASE received'[c] \subseteq received[c] \cup {c}
    BY <1>0, <1>1, <1>3, <2>3 DEF Owned
  <2> QED
    BY <1>0, <1>1, <2>1, <2>2, <2>3
<1> QED
  BY <1>2, <1>7, <1>8, <1>9, <1>11, <1>12, <1>13 DEF Pieces

\* The next request: it is in the buffer already, or it is read.
LEMMA OnWriteNext ==
  ASSUME AInv, TypeOK', OnWrite
  PROVE  OneInUse(ready', pending') /\ Pieces'
<1> PICK s : s = socket
  OBVIOUS
<1>0. /\ IInv /\ OneInUse(ready, pending) /\ Streams /\ Waiting /\ Timed /\ Leftover /\ Phases /\ Owned
      /\ s \in Client \cup {None} /\ buffer \in Seq(Piece)
  BY Types DEF AInv, Pieces
<1>1. /\ Run("write", "ok")
      /\ IF Whole(buffer) THEN buffer' = SubSeq(buffer, 3, Len(buffer)) ELSE buffer' = buffer
      /\ UNCHANGED <<socket, stream, sent, answers, received, backlog, client>>
  BY DEF OnWrite, network, ReadRequest
<1>2. Has(ready, "write")
  BY <1>0, <1>1, HeadKind
<1>3. ~Whole(<<>>)
  BY DEF Whole
<1>4. /\ OneInUse(ready', pending')
      /\ "write" \notin pending' /\ "timer" \notin pending'
      /\ "read" \in pending' => ~Whole(buffer) /\ ~Malformed(buffer) /\ s # None
      /\ Has(ready', "read") => Whole(buffer)
      /\ ~Has(ready', "write") /\ ~After(ready', "read", "timer")
      /\ NoneOffered
  <2>1. socket = None => ~Whole(buffer)
    BY <1>0, <1>2, <1>3 DEF Timed
  <2> QED
    BY <1>0, <2>1, UseWrite
<1>5. Streams' /\ Waiting'
  BY <1>0, <1>1, <1>4, SameStreams
<1>6. Timed'
  BY <1>4 DEF Timed
<1>7. Owned' /\ (Spoiled => Spoiled')
  BY <1>0, <1>1 DEF Owned, Spoiled, Consumed
<1>8. CASE s = None
  <2>1. buffer = <<>> /\ buffer' = buffer
    BY <1>0, <1>1, <1>2, <1>3, <1>8 DEF Timed
  <2>2. Leftover'
    BY <1>0, <1>1, <2>1 DEF Leftover, Spoiled, Consumed, Whole
  <2>3. Phases'
    BY <1>1, <1>8 DEF Phases
  <2> QED
    BY <1>4, <1>5, <1>6, <1>7, <2>2, <2>3 DEF Pieces
<1>9. CASE s # None
  <2>1. /\ Answered /\ s \in Client /\ OwnPieces(buffer, s)
        /\ Len(buffer) \in Nat /\ Len(buffer) <= 2
    BY <1>0, <1>2, <1>9 DEF Phases, Answered, OwnBuffer, OwnPieces
  <2>2. Whole(buffer) <=> Len(buffer) >= 2
    BY <1>0, <2>1, OwnWhole
  <2>3. CASE Whole(buffer)
    <3>1. Len(buffer) = 2 /\ Spoiled
      BY <1>0, <2>3 DEF Leftover
    <3>2. buffer' = <<>>
      BY <1>1, <2>3, <3>1
    <3>3. Len(buffer') = 0
      BY <3>2
    <3>4. Leftover'
      BY <1>3, <3>2 DEF Leftover, Whole
    <3>5. Begun' = Begun + 2 /\ Begun' \in Int
      <4> DEFINE k == Len(stream[s])
                 m == sent[s]
      <4>1. k \in Nat /\ m \in Nat
        BY <2>1, <1>0, Types
      <4>2. Begun = m - k - 2 /\ Begun' = m - k - 0
        BY <1>1, <3>1, <3>3 DEF Begun, Consumed
      <4> HIDE DEF k, m
      <4> QED
        BY <4>1, <4>2
    <3>6. Answering'
      <4>1. Begun % 2 = 0 /\ Begun >= 0 /\ 2 * answers[s] <= Begun + 2 /\ answers[s] \in Nat
            /\ Begun \in Int
        <5>1. answers[s] \in Nat
          BY <1>0, <2>1, Types
        <5>2. Begun \in Int
          <6> DEFINE k == Len(stream[s])
                     m == sent[s]
          <6>1. k \in Nat /\ m \in Nat
            BY <2>1, <1>0, Types
          <6>2. Begun = m - k - 2
            BY <3>1 DEF Begun, Consumed
          <6> HIDE DEF k, m
          <6> QED
            BY <6>1, <6>2
        <5> QED
          BY <2>1, <5>1, <5>2 DEF Answered, OwnBuffer
      <4> DEFINE g == Begun
                 h == Begun'
                 a == answers[s]
      <4>2. g \in Int /\ g % 2 = 0 /\ g >= 0 /\ 2 * a <= g + 2 /\ a \in Nat /\ h = g + 2
        BY <3>5, <4>1
      <4> HIDE DEF g, h, a
      <4>3. h % 2 = 0 /\ h >= 0 /\ 2 * a <= h
        BY <4>2
      <4>4. OwnBuffer'
        BY <3>3, <4>3 DEF OwnBuffer, h
      <4> QED
        BY <1>1, <1>7, <3>1, <4>3, <4>4 DEF Answering, h, a
    <3>7. Phases'
      BY <1>1, <1>4, <2>3, <3>6 DEF Phases
    <3> QED
      BY <1>4, <1>5, <1>6, <1>7, <3>4, <3>7 DEF Pieces
  <2>4. CASE ~Whole(buffer)
    <3>1. buffer' = buffer
      BY <1>1, <2>4
    <3>2. Leftover'
      BY <1>0, <1>1, <3>1 DEF Leftover, Spoiled, Consumed, Whole
    <3>3. Len(buffer) <= 1
      <4> DEFINE l == Len(buffer)
      <4>1. l \in Nat /\ ~(l >= 2)
        BY <2>1, <2>2, <2>4
      <4> HIDE DEF l
      <4> QED
        <5>1. l <= 1
          BY <4>1
        <5> QED
          BY <5>1 DEF l
    <3>4. Begun' = Begun /\ OwnBuffer'
      BY <1>1, <2>1, <3>1 DEF Answered, OwnBuffer, Begun, Consumed, PieceAt
    <3>5. ReadingOwn'
      BY <1>1, <1>7, <2>1, <3>1, <3>3, <3>4 DEF Answered, ReadingOwn
    <3>6. Phases'
      BY <1>4, <2>4, <3>5 DEF Phases
    <3> QED
      BY <1>4, <1>5, <1>6, <1>7, <3>2, <3>6 DEF Pieces
  <2> QED
    BY <2>3, <2>4
<1> QED
  BY <1>8, <1>9

\* A connection is accepted into socket_: what the others left in the buffer
\* is parsed first.
LEMMA OnAcceptNext ==
  ASSUME AInv, TypeOK', OnAccept
  PROVE  OneInUse(ready', pending') /\ Pieces'
<1> PICK c : c = socket'
  OBVIOUS
<1>0. /\ IInv /\ OneInUse(ready, pending) /\ Streams /\ Waiting /\ Leftover /\ Owned
      /\ buffer \in Seq(Piece)
  BY Types DEF AInv, Pieces
<1>1. /\ OneInUse(ready', pending')
      /\ c \in Client /\ socket = None
      /\ "write" \notin pending'
      /\ "read" \in pending' => ~Whole(buffer) /\ ~Malformed(buffer)
      /\ Has(ready', "read") => Whole(buffer)
      /\ ~Has(ready', "write") /\ ~Has(ready', "timer") /\ \A x : ~Offers(ready', x)
      /\ Offers(ready, c)
  BY <1>0, UseAccept
<1>2. /\ IF Whole(buffer) THEN buffer' = SubSeq(buffer, 3, Len(buffer)) ELSE buffer' = buffer
      /\ UNCHANGED <<stream, sent, answers, received, backlog, client>>
  BY DEF OnAccept, network, ReadRequest
<1>3. /\ Fresh(c) /\ Fresh(c)' /\ Consumed(c) = 0 /\ answers[c] = 0 /\ Consumed(c) % 2 # 1
      /\ client[c] \notin {"away", "queued"}
  BY <1>0, <1>1, <1>2 DEF Waiting, Fresh, Consumed
<1>4. Streams'
  BY <1>0, <1>2 DEF Streams, Fresh, Consumed, PieceAt
<1>5. Waiting'
  BY <1>0, <1>1, <1>2, <1>3 DEF Waiting
<1>6. Spoiled => Spoiled'
  BY <1>2, <1>3 DEF Spoiled, Consumed
<1>7. Owned'
  <2>1. \A d \in Client : Consumed(d) % 2 = 1 => d # c
    BY <1>3
  <2> QED
    BY <1>0, <1>2, <2>1 DEF Owned, Consumed
<1>8. CASE Whole(buffer)
  <2>1. Len(buffer) = 2 /\ Spoiled
    BY <1>0, <1>8 DEF Leftover
  <2>2. buffer' = <<>> /\ Len(buffer') = 0
    BY <1>2, <1>8, <2>1
  <2>3. Leftover'
    BY <2>2 DEF Leftover, Whole
  <2>4. Begun' = 0
    BY <1>2, <1>3, <2>2 DEF Begun, Consumed
  <2>5. Answering'
    BY <1>2, <1>3, <1>6, <2>1, <2>2, <2>4 DEF Answering, OwnBuffer
  <2>6. Phases'
    BY <1>1, <1>8, <2>5 DEF Phases
  <2>7. Timed'
    BY <1>1, <1>2, <1>3, <1>8, <2>2 DEF Timed, After, Has
  <2> QED
    BY <1>1, <1>4, <1>5, <1>7, <2>3, <2>6, <2>7 DEF Pieces
<1>9. CASE ~Whole(buffer)
  <2>1. buffer' = buffer
    BY <1>2, <1>9
  <2>2. Leftover'
    BY <1>0, <1>2, <1>9, <2>1 DEF Leftover, Consumed, Whole
  <2>3. ASSUME ~Malformed(buffer) PROVE ReadingOwn' \/ ReadingOther'
    <3>1. CASE buffer = <<>>
      <4>1. Len(buffer') = 0 /\ Begun' = 0
        BY <1>2, <1>3, <2>1, <3>1 DEF Begun, Consumed
      <4> QED
        BY <1>2, <1>3, <4>1 DEF ReadingOwn, OwnBuffer
    <3>2. CASE buffer # <<>>
      <4>1. buffer[1].part # "tail" /\ ~(Len(buffer) >= 2)
        BY <1>9, <2>3, <3>2 DEF Malformed
      <4>2. Len(buffer) = 1
        <5> DEFINE l == Len(buffer)
        <5>1. l \in Nat /\ l # 0 /\ ~(l >= 2)
          BY <1>0, <3>2, <4>1
        <5> HIDE DEF l
        <5>2. l = 1
          BY <5>1
        <5> QED
          BY <5>2 DEF l
      <4>3. buffer[1] \in Piece
        BY <1>0, <4>2
      <4>4. buffer[1].part = "head"
        BY <4>1, <4>3 DEF Piece
      <4>5. buffer[1].from # c
        BY <1>0, <1>3, <1>9, <3>2 DEF Leftover
      <4> QED
        BY <1>3, <2>1, <4>2, <4>4, <4>5 DEF ReadingOther
    <3> QED
      BY <3>1, <3>2
  <2>4. Phases'
    BY <1>1, <1>9, <2>3 DEF Phases
  <2>5. Timed'
    BY <1>1, <1>2, <1>3, <1>9 DEF Timed, After, Has
  <2> QED
    BY <1>1, <1>4, <1>5, <1>7, <2>2, <2>4, <2>5 DEF Pieces
<1> QED
  BY <1>8, <1>9

-----------------------------------------------------------------------------
(* The invariant, and what follows of it.                                  *)

LEMMA InitAInv == Init => AInv
<1> SUFFICES ASSUME Init PROVE AInv
  OBVIOUS
<1>1. IInv
  BY InitIInv
<1>2. ready = <<>> /\ pending = {} /\ socket = None /\ buffer = <<>> /\ backlog = <<>> /\ Len(<<>>) = 0
  BY DEF Init
<1>3. \A k, l : ~Has(ready, k) /\ ~After(ready, k, l)
  BY <1>2, KindNone
<1>4. \A c : ~Offers(ready, c)
  BY <1>2 DEF Offers
<1>5. OneInUse(ready, pending)
  BY <1>2, <1>3 DEF OneInUse
<1>6. \A c \in Client : Consumed(c) = 0 /\ Fresh(c) /\ sent[c] = 0 /\ stream[c] = <<>> /\ received[c] = {}
                        /\ answers[c] = 0
  BY DEF Init, Consumed, Fresh
<1>7. Streams
  BY <1>2, <1>6 DEF Streams
<1>8. Waiting /\ Timed /\ Leftover /\ Phases
  BY <1>2, <1>3, <1>4 DEF Waiting, Timed, Leftover, Phases, Whole
<1>9. Owned
  BY <1>6 DEF Owned
<1> QED
  BY <1>1, <1>5, <1>7, <1>8, <1>9 DEF AInv, Pieces

LEMMA AnswerNext == AInv /\ Next => AInv'
<1> SUFFICES ASSUME AInv, Next PROVE AInv'
  OBVIOUS
<1>1. IInv'
  BY TypeNext, QueueNext DEF AInv, IInv
<1>2. TypeOK'
  BY <1>1 DEF IInv
<1>3. OneInUse(ready', pending') /\ Pieces'
  <2>1. CASE StartServer \/ OnAcceptError \/ OnReadError \/ OnWriteError \/ OnDeadline
             \/ OnDeadlineCancelled \/ ServerReturns \/ Stop \/ EndOfStream \/ WriteFails
    BY <1>2, <2>1, QuietNext DEF Stop
  <2>2. CASE OnAccept
    BY <1>2, <2>2, OnAcceptNext
  <2>3. CASE OnRead
    BY <1>2, <2>3, OnReadNext, QuietNext
  <2>4. CASE OnWrite
    BY <1>2, <2>4, OnWriteNext
  <2>5. CASE AcceptEnds
    BY <1>2, <2>5, AcceptEndsNext
  <2>6. CASE Receive
    BY <2>6, ReceiveNext
  <2>7. CASE WriteEnds
    BY <1>2, <2>7, WriteEndsNext
  <2>8. CASE DeadlinePasses
    BY <1>2, <2>8, DeadlineNext
  <2>9. CASE \E c \in Client : Connect(c) \/ Send(c) \/ Leave(c)
    BY <1>2, <2>9, ConnectNext, SendNext, QuietNext
  <2> QED
    BY <2>1, <2>2, <2>3, <2>4, <2>5, <2>6, <2>7, <2>8, <2>9 DEF Next, Handle, Kernel, Stop
<1> QED
  BY <1>1, <1>3 DEF AInv

\* The inductive invariant: one operation is in use, how far each connection
\* was read and answered when an operation on it begins and ends, and whose
\* pieces are in the one buffer_.
THEOREM AnswerInductive == Spec => []AInv
<1>1. AInv /\ UNCHANGED vars => AInv'
  <2> SUFFICES ASSUME AInv, UNCHANGED vars PROVE AInv'
    OBVIOUS
  <2>1. IInv'
    BY DEF AInv, IInv, TypeOK, QueueInv, vars, network, history
  <2>2. UNCHANGED <<socket, pending, ready, buffer, request, backlog, client, stream, sent,
                    answers, received>>
    BY DEF vars, network, history
  <2>3. OneInUse(ready', pending')
    BY <2>2 DEF AInv
  <2>4. Pieces'
    BY <2>2 DEF AInv, Pieces, Streams, Waiting, Timed, Leftover, Phases, Owned, Spoiled, Begun,
       OwnBuffer, ReadingOwn, ReadingOther, Answering, Answered, Fresh, Consumed, PieceAt, Whole
  <2> QED
    BY <2>1, <2>3, <2>4 DEF AInv
<1>2. AInv /\ [Next]_vars => AInv'
  BY <1>1, AnswerNext
<1> QED
  BY InitAInv, <1>2, PTL DEF Spec

\* The one socket_, buffer_, request_ and response_ serve one read or write at a
\* time, whatever the deadline, the clients and stop() do meanwhile.
THEOREM UseCorrect == Spec => []OneOperation
<1>1. AInv => OneOperation
  <2> SUFFICES ASSUME AInv PROVE Active <= 1
    BY DEF OneOperation
  <2> DEFINE A == pending \cap SocketOp
             D == {i \in 1..Len(ready) : ready[i].op \in SocketOp /\ ready[i].result = "ok"}
  <2>1. OneInUse(ready, pending) /\ ready \in Seq(Handler) /\ Len(ready) \in Nat
    BY Types DEF AInv
  <2>2. \A i \in 1..Len(ready) : ready[i].op \in SocketOp /\ ready[i].result = "ok"
          => Kind(ready[i]) = "read" \/ Kind(ready[i]) = "write"
    BY DEF Kind, SocketOp
  <2>3. D # {} => Has(ready, "read") \/ Has(ready, "write")
    BY <2>2 DEF Has
  <2>4. \A i, j \in D : i = j
    <3> SUFFICES ASSUME NEW i \in D, NEW j \in D, i < j PROVE FALSE
      BY <2>1
    <3>1. i \in 1..Len(ready) /\ j \in 1..Len(ready)
      OBVIOUS
    <3>2. CASE Kind(ready[i]) = Kind(ready[j])
      BY <2>1, <2>2, <3>1, <3>2 DEF OneInUse, After
    <3>3. CASE Kind(ready[i]) # Kind(ready[j])
      BY <2>1, <2>2, <3>1, <3>3 DEF OneInUse, Has
    <3> QED
      BY <3>2, <3>3
  <2>5. \A a, b \in A : a = b
    BY <2>1 DEF OneInUse, SocketOp
  <2>6. A = {} \/ D = {}
    BY <2>1, <2>3 DEF OneInUse, SocketOp
  <2>7. Active = Cardinality(A) + Cardinality(D)
    BY DEF Active
  <2> HIDE DEF A, D
  <2>8. A = {} \/ \E a : A = {a}
    BY <2>5
  <2>9. D = {} \/ \E a : D = {a}
    BY <2>4
  <2>10. Cardinality({}) = 0 /\ \A a : Cardinality({a}) = 1
    BY FS_EmptySet, FS_Singleton
  <2>11. Cardinality(A) \in {0, 1} /\ Cardinality(D) \in {0, 1}
         /\ (A = {} => Cardinality(A) = 0) /\ (D = {} => Cardinality(D) = 0)
    BY <2>8, <2>9, <2>10
  <2> QED
    BY <2>6, <2>7, <2>11
<1> QED
  BY <1>1, AnswerInductive, PTL

\* README.md:74, for every number of connections: a client is answered with
\* what was asked on its own connection, as long as no other connection was read
\* to the middle of a request.
THEOREM AnswersCorrect == Spec => []AnswersOwnRequest
<1>1. AInv => AnswersOwnRequest
  BY DEF AInv, Pieces, Owned, Consumed, AnswersOwnRequest, Interrupted
<1> QED
  BY <1>1, AnswerInductive, PTL
=============================================================================
