---------------------------- MODULE Connection ----------------------------
(***************************************************************************)
(* What hangs on a pqxx::connection besides its transaction: receivers of  *)
(* notifications and error handlers.  The server's LISTEN and UNLISTEN     *)
(* take effect when the transaction they are in commits.                   *)
(***************************************************************************)
EXTENDS Integers, Sequences, FiniteSets, SequencesExt

CONSTANTS Channel, Receiver, Handler,
          MaxSent,    \* bound on the notifications that are sent
          None        \* no channel: the receiver is not registered

VARIABLES open,       \* m_conn is not null
          trans,      \* m_trans: "none", a "non" transaction, a "work", or one that "failed"
          channel,    \* m_receivers: the channel of every registered receiver
          handlers,   \* m_errorhandlers, the newest last
          home,       \* the handlers whose m_home is this connection
          processor,  \* the notice processor is the one that calls the handlers
          listening,  \* the server: the channels this session listens on
          wanted,     \* the server: the same when the transaction commits
          inbox,      \* notifications that arrived and were not taken by get_notifs
          sent,       \* how many were sent
          heard,      \* what each receiver was called for
          due,        \* what was sent on its channel since a receiver was registered
          lost        \* channels whose LISTEN was rolled back

server == <<listening, wanted>>
notices == <<handlers, home, processor>>
calls == <<inbox, sent, heard, due>>
vars == <<open, trans, channel, server, notices, calls, lost>>

Init ==
  /\ open = TRUE /\ trans = "none"
  /\ channel = [r \in Receiver |-> None]
  /\ handlers = <<>> /\ home = {} /\ processor = FALSE
  /\ listening = {} /\ wanted = {} /\ lost = {}
  /\ inbox = <<>> /\ sent = 0
  /\ heard = [r \in Receiver |-> <<>>] /\ due = [r \in Receiver |-> {}]

\* What of s is in S, in its order.
Chosen(s, S) ==
  LET kept[n \in 0..Len(s)] ==
        IF n = 0 THEN <<>>
        ELSE IF s[n] \in S THEN Append(kept[n - 1], s[n]) ELSE kept[n - 1]
  IN  kept[Len(s)]

On(c) == {r \in Receiver : channel[r] = c}

\* LISTEN and UNLISTEN, at once or with the transaction.
ServerListens(S) ==
  /\ wanted' = S
  /\ listening' = IF trans = "work" THEN listening ELSE S

-----------------------------------------------------------------------------
(* The transaction of the connection, as far as it matters here.           *)

Begin(kind) ==
  /\ open /\ trans = "none" /\ trans' = kind
  /\ UNCHANGED <<open, channel, server, notices, calls, lost>>

Fail ==
  /\ trans = "work" /\ trans' = "failed"
  /\ UNCHANGED <<open, channel, server, notices, calls, lost>>

Commit ==
  /\ trans \in {"non", "work"} /\ trans' = "none"
  /\ listening' = wanted
  /\ UNCHANGED <<open, channel, wanted, notices, calls, lost>>

Rollback ==
  /\ trans \in {"work", "failed"} /\ trans' = "none"
  /\ wanted' = listening
  /\ lost' = lost \cup ({c \in Channel : On(c) # {}} \ listening)
  /\ UNCHANGED <<open, channel, listening, notices, calls>>

-----------------------------------------------------------------------------
(* Notifications.                                                          *)

\* The server keeps what it has to say until the transaction is over.
Notify(c) ==
  /\ open /\ c \in listening /\ trans \in {"none", "non"} /\ sent < MaxSent
  /\ sent' = sent + 1
  /\ inbox' = Append(inbox, [channel |-> c, number |-> sent'])
  /\ due' = [r \in Receiver |-> IF channel[r] = c THEN due[r] \cup {sent'} ELSE due[r]]
  /\ UNCHANGED <<open, trans, channel, server, notices, heard, lost>>

\* get_notifs, with the receivers there are: all of a channel are called, whatever
\* one of them throws.  Inside a transaction nothing is delivered.
Delivered(ch) ==
  IF trans # "none" THEN UNCHANGED <<inbox, heard>>
  ELSE /\ inbox' = <<>>
       /\ heard' = [r \in Receiver |->
                      LET its == Chosen(inbox, {n \in ToSet(inbox) : n.channel = ch[r]})
                      IN  heard[r] \o [i \in DOMAIN its |-> its[i].number]]

\* get_notifs, await_notification, and every statement executed outside a transaction.
GetNotifs ==
  /\ open /\ Delivered(channel)
  /\ UNCHANGED <<open, trans, channel, server, notices, sent, due, lost>>

\* notification_receiver's constructor and add_receiver: the first of a channel starts
\* to listen, and when that fails there is no receiver.
AddReceiver(r, c) ==
  /\ open /\ channel[r] = None
  /\ ~(On(c) = {} /\ trans = "failed")
  /\ channel' = [channel EXCEPT ![r] = c]
  /\ heard' = [heard EXCEPT ![r] = <<>>] /\ due' = [due EXCEPT ![r] = {}]
  /\ IF On(c) = {} THEN ServerListens(wanted \cup {c}) /\ lost' = lost \ {c}
     ELSE UNCHANGED <<server, lost>>
  /\ UNCHANGED <<open, trans, notices, inbox, sent>>

\* Mutant: whichever receiver goes, the session stops listening.
RemoveReceiverAll(r) ==
  /\ open /\ channel[r] # None
  /\ channel' = [channel EXCEPT ![r] = None]
  /\ IF trans # "failed" THEN ServerListens(wanted \ {channel[r]}) /\ Delivered(channel')
     ELSE UNCHANGED <<server, inbox, heard>>
  /\ UNCHANGED <<open, trans, notices, sent, due, lost>>

\* ~notification_receiver and remove_receiver: the last of a channel stops listening
\* with a statement, which delivers to the others what has come; if that fails the
\* error handlers are told.
RemoveReceiver(r) ==
  /\ open /\ channel[r] # None
  /\ channel' = [channel EXCEPT ![r] = None]
  /\ IF On(channel[r]) = {r} /\ trans # "failed"
     THEN ServerListens(wanted \ {channel[r]}) /\ Delivered(channel')
     ELSE UNCHANGED <<server, inbox, heard>>
  /\ UNCHANGED <<open, trans, notices, sent, due, lost>>

-----------------------------------------------------------------------------
(* Error handlers.                                                         *)

\* errorhandler's constructor and register_errorhandler.
Register(h) ==
  /\ open /\ h \notin home
  /\ handlers' = Append(handlers, h) /\ home' = home \cup {h} /\ processor' = TRUE
  /\ UNCHANGED <<open, trans, channel, server, calls, lost>>

\* errorhandler::unregister, from the destructor; nothing if the connection was closed.
Unregister(h) ==
  /\ h \in home
  /\ home' = home \ {h}
  /\ handlers' = Chosen(handlers, Handler \ {h})
  /\ processor' = (handlers' # <<>> /\ processor)
  /\ UNCHANGED <<open, trans, channel, server, calls, lost>>

\* close, with what is still registered.
Close ==
  /\ open /\ open' = FALSE
  /\ channel' = [r \in Receiver |-> None]
  /\ handlers' = <<>> /\ home' = {} /\ processor' = FALSE
  /\ listening' = {} /\ wanted' = {} /\ inbox' = <<>>
  /\ UNCHANGED <<trans, sent, heard, due, lost>>

-----------------------------------------------------------------------------
Next ==
  \/ (\E kind \in {"non", "work"} : Begin(kind)) \/ Fail \/ Commit \/ Rollback
  \/ \E c \in Channel : Notify(c)
  \/ GetNotifs
  \/ \E r \in Receiver : RemoveReceiver(r) \/ \E c \in Channel : AddReceiver(r, c)
  \/ \E h \in Handler : Register(h) \/ Unregister(h)
  \/ Close

Spec == Init /\ [][Next]_vars

-----------------------------------------------------------------------------
\* notification.hxx:37-54, connection.cxx:401-459, 563-614 - while there is a receiver
\* the session listens on its channel, or the transaction in which it began to was
\* rolled back; and a receiver is called, once and in order, for everything sent on the
\* channel since it was there, or has it waiting.
ReceiversServed ==
  \A r \in Receiver : channel[r] # None =>
    /\ channel[r] \in wanted \cup lost
    /\ \A i, j \in DOMAIN heard[r] : i < j => heard[r][i] < heard[r][j]
    /\ due[r] \subseteq ToSet(heard[r]) \cup {n.number : n \in ToSet(inbox)}

\* errorhandler.cxx, connection.cxx:648-673, 747-783 - a handler knows its connection just
\* as long as the connection knows the handler, and libpq calls the handlers only while
\* there are any: a result that outlives the connection calls none.
HandlersAttached ==
  ToSet(handlers) = home /\ processor = (home # {}) /\ Len(handlers) = Cardinality(home)
=============================================================================
