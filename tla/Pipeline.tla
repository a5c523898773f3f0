------------------------------ MODULE Pipeline ------------------------------
(***************************************************************************)
(* pqxx::pipeline: queries are given numbers, retained, sent to the server *)
(* together in one string, and their results are retrieved later, in any   *)
(* order.  A string of more than one query is preceded by a dummy, whose   *)
(* failure says that the string did not parse; its queries are then run    *)
(* again one by one.                                                       *)
(*                                                                         *)
(* The server runs a string as one transaction and answers query by query  *)
(* up to the first that fails.  The connection does not break here, and a  *)
(* string fails to parse only because of a query that fails alone too.     *)
(***************************************************************************)
EXTENDS Integers, Sequences, FiniteSets, SequencesExt, FiniteSetsExt

CONSTANTS MaxQueries, MaxRetain

Query   == 1..MaxQueries
End     == MaxQueries + 1      \* the end of m_queries
NoError == MaxQueries + 2      \* qid_limit()
Dummy   == 0

VARIABLES
  pipe,     \* the pipeline and what is on its connection
  inWork,   \* its transaction is a work, not a nontransaction
  fault,    \* how each query fares: "fine", "syntax" or "run" (it fails when run)
  got       \* what the last retrieve of each query came to

vars == <<pipe, inWork, fault, got>>

Result(q, ok) == [of |-> q, ok |-> ok]
NoResult == Result(-1, TRUE)

\* present: m_queries.  first, second: m_issuedrange.  unread, active: what libpq
\* still holds and whether it waits for the end of a string.  failed: the
\* transaction must be rolled back.  ran: what took effect.  any: what
\* obtain_result returned.  thrown: the exception that ends this call.
Fresh ==
  [present |-> {}, res |-> [q \in Query |-> NoResult], first |-> End, second |-> End,
   retain |-> 0, waiting |-> 0, last |-> 0, dummy |-> FALSE, error |-> NoError, focus |-> TRUE,
   unread |-> <<>>, active |-> FALSE, failed |-> FALSE, ran |-> <<>>, cancelled |-> FALSE,
   any |-> FALSE, thrown |-> "none"]

Init ==
  /\ pipe = Fresh
  /\ inWork \in BOOLEAN /\ fault \in [Query -> {"fine", "syntax", "run"}]
  /\ got = [q \in Query |-> "none"]

Throw(s, e) == [s EXCEPT !.thrown = e]
Then(s, F(_)) == IF s.thrown = "none" THEN F(s) ELSE s

Pending(s) == s.first # s.second
After(s, q) == Min({p \in s.present : p > q} \cup {End})
SetErrorAt(s, q) == [s EXCEPT !.error = Min({@, q})]

-----------------------------------------------------------------------------
(* The server and libpq.                                                   *)

\* What a string of queries is answered with.
Answers(s, qs) ==
  IF s.failed \/ \E i \in DOMAIN qs : qs[i] # Dummy /\ fault[qs[i]] = "syntax"
  THEN <<Result(qs[1], FALSE)>>
  ELSE LET bad == {i \in DOMAIN qs : qs[i] # Dummy /\ fault[qs[i]] = "run"}
           n   == Min(bad \cup {Len(qs)})
       IN  [i \in 1..n |-> Result(qs[i], i \notin bad)]

Run(s, qs) ==
  LET ok == Last(Answers(s, qs)).ok IN
  [s EXCEPT !.failed = @ \/ (inWork /\ ~ok),
            !.ran = IF ok THEN @ \o (IF qs[1] = Dummy THEN Tail(qs) ELSE qs) ELSE @]

StartExec(s, qs) ==
  IF s.active THEN Throw(s, "busy")
  ELSE [Run(s, qs) EXCEPT !.unread = Answers(s, qs), !.active = TRUE]

\* get_result when there is one, and when the string has come to its end.
TakeResult(s) == [s EXCEPT !.unread = Tail(@)]
TakeEnd(s)    == [s EXCEPT !.active = FALSE]

-----------------------------------------------------------------------------
ObtainResult(s, expectNone) ==
  IF s.unread = <<>>
  THEN LET t == [TakeEnd(s) EXCEPT !.any = FALSE] IN
       IF ~Pending(s) \/ expectNone THEN t
       ELSE IF s.first = End THEN Throw(t, "undefined")
       ELSE [SetErrorAt(t, s.first) EXCEPT !.second = s.first]
  ELSE LET t == [TakeResult(s) EXCEPT !.any = TRUE] IN
       IF s.present = {} THEN Throw(t, "undefined")
       ELSE IF ~Pending(s) THEN Throw(SetErrorAt(t, Min(s.present)), "more results")
       ELSE IF s.first = End THEN Throw(t, "undefined")
       ELSE IF s.res[s.first] # NoResult THEN Throw(SetErrorAt(t, 0), "internal")
       ELSE [t EXCEPT !.res[s.first] = Head(s.unread), !.first = After(s, @)]

\* Mutant: the string is not run again.
NoReplay(s, stop) == s

\* The first query by itself, and whether the next one is run too.
RunAgain(s, stop) ==
  LET q    == s.first
      next == After(s, q)
      t    == [Run(s, <<q>>) EXCEPT !.waiting = @ - 1, !.first = next]
  IN  IF Answers(s, <<q>>)[1].ok
      THEN [state |-> [t EXCEPT !.res[q] = Result(q, TRUE)], goes |-> next # stop]
      ELSE [state |-> [SetErrorAt(t, IF next = End THEN q + 1 ELSE next) EXCEPT !.second = next],
            goes |-> FALSE]

\* The queries of the string that failed, one at a time, up to the one that fails.
Replay(s, stop) ==
  LET run[n \in 0..MaxQueries] ==
        IF n = 0 THEN [state |-> s, goes |-> TRUE]
        ELSE LET r == run[n - 1] IN IF r.goes THEN RunAgain(r.state, stop) ELSE r
  IN  run[MaxQueries].state

ObtainDummy(s) ==
  IF s.unread = <<>> THEN Throw(SetErrorAt([s EXCEPT !.dummy = FALSE], 0), "internal")
  ELSE LET r    == Head(s.unread)
           t    == [TakeResult(s) EXCEPT !.dummy = FALSE]
           size == Cardinality({q \in s.present : s.first <= q /\ q < s.second})
           all  == [t EXCEPT !.res = [q \in Query |->
                      IF q \in s.present /\ s.first <= q /\ q < s.second THEN r ELSE @[q]]]
           gone == [ObtainResult(all, TRUE) EXCEPT !.waiting = @ + size, !.second = s.first,
                                                   !.focus = FALSE]
       IN  IF r.ok THEN t ELSE Replay(gone, s.second)

\* A string has a result for each query and the dummy, and an end.
Longest == MaxQueries + 2

\* k: how many results, the end of the string among them, have come in.
GetFurther(s, k) ==
  LET run[n \in 0..Longest] ==
        IF n = 0 THEN s
        ELSE LET t == run[n - 1] IN
             IF (n = 1 \/ t.any) /\ t.thrown = "none" /\ ~(t.active /\ n > k)
             THEN ObtainResult(t, FALSE) ELSE t
  IN  run[Longest]

ReceiveIfAvailable(s, k) ==
  IF s.active /\ k = 0 THEN s
  ELSE Then(IF s.dummy THEN ObtainDummy(s) ELSE s,
            LAMBDA t : IF Pending(t) THEN GetFurther(t, IF s.dummy THEN k - 1 ELSE k) ELSE t)

\* Results up to the one of stop.
Haul(s, stop) ==
  LET run[n \in 0..Longest] ==
        IF n = 0 THEN s
        ELSE LET t == run[n - 1] IN
             IF n = 1 \/ (t.any /\ t.thrown = "none" /\ t.first # stop)
             THEN ObtainResult(t, FALSE) ELSE t
  IN  run[Longest]

Receive(s, stop, k) ==
  Then(Then(IF s.dummy THEN ObtainDummy(s) ELSE s, LAMBDA t : Haul(t, stop)),
       LAMBDA t : IF t.first = stop THEN GetFurther(t, k) ELSE t)

\* Queries in the order of their numbers.
InTurn(queries) ==
  LET turn[n \in 0..MaxQueries] ==
        IF n = 0 THEN <<>>
        ELSE IF n \in queries THEN Append(turn[n - 1], n) ELSE turn[n - 1]
  IN  turn[MaxQueries]

Issue(s) ==
  Then(ObtainResult(s, FALSE), LAMBDA t :
    IF t.error # NoError THEN t
    ELSE LET qs == InTurn({q \in t.present : q >= t.second})
             n  == Len(qs)
         IN  IF n = 0 THEN Throw(t, "undefined")
             ELSE Then(StartExec(t, IF n > 1 THEN <<Dummy>> \o qs ELSE qs), LAMBDA u :
                    [u EXCEPT !.dummy = n > 1, !.first = t.second, !.second = End,
                              !.waiting = @ - n]))

-----------------------------------------------------------------------------
(* The calls a program makes.  An exception leaves the state as it stood.  *)

Start == [pipe EXCEPT !.thrown = "none", !.any = FALSE]

\* How many results have come in when a call looks: none, the dummy's, one more, or
\* all there will be.
Arrived == {0, 1, 2, Longest}

Returns(s) == pipe' = [s EXCEPT !.any = FALSE] /\ UNCHANGED <<inWork, fault, got>>

Inserted(s) ==
  LET q == s.last + 1 IN
  [s EXCEPT !.focus = TRUE, !.last = q, !.present = @ \cup {q}, !.waiting = @ + 1,
            !.second = IF @ = End THEN q ELSE @,
            !.first = IF s.second = End /\ @ = End THEN q ELSE @]

Insert ==
  /\ pipe.last < MaxQueries
  /\ \E k \in Arrived :
       LET s == Inserted(Start) IN
       Returns(IF s.waiting <= s.retain THEN s
               ELSE Then(IF Pending(s) THEN ReceiveIfAvailable(s, k) ELSE s,
                         LAMBDA t : IF Pending(t) THEN t ELSE Issue(t)))

Complete ==
  \E k \in Arrived :
    Returns(Then(Then(IF Pending(pipe) THEN Receive(Start, pipe.second, k) ELSE Start,
                      LAMBDA t : IF t.waiting > 0 /\ t.error = NoError
                                 THEN Then(Issue(t), LAMBDA u : Receive(u, End, k)) ELSE t),
                 LAMBDA t : [t EXCEPT !.focus = FALSE]))

Flush ==
  \E k \in Arrived :
    Returns(IF pipe.present = {} THEN [Start EXCEPT !.focus = FALSE]
            ELSE Then(IF Pending(pipe) THEN Receive(Start, pipe.second, k) ELSE Start,
                      LAMBDA t : [t EXCEPT !.first = End, !.second = End, !.waiting = 0,
                                           !.dummy = FALSE, !.present = {}, !.focus = FALSE]))

\* The results of what is cancelled stay unread.
Cancel ==
  Returns([Start EXCEPT !.present = {q \in @ : q < pipe.first \/ q >= pipe.second},
                        !.first = pipe.second, !.cancelled = @ \/ Pending(pipe)])

Resumed(s, k) ==
  Then(IF Pending(s) THEN ReceiveIfAvailable(s, k) ELSE s, LAMBDA t :
       IF Pending(t) \/ t.waiting = 0 THEN t
       ELSE Then(Issue(t), LAMBDA u : ReceiveIfAvailable(u, k)))

Retain ==
  \E n \in 0..MaxRetain, k \in Arrived :
    LET s == [Start EXCEPT !.retain = n] IN
    Returns(IF s.waiting < n THEN s ELSE Resumed(s, k))

Resume == \E k \in Arrived : Returns(Resumed(Start, k))

\* retrieve: the string with q is sent, what came before is received, then q.
Retrieved(q, k) ==
  LET sent(s) ==
        IF s.second = End \/ q < s.second THEN s
        ELSE Then(IF Pending(s) THEN Receive(s, s.second, k) ELSE s,
                  LAMBDA t : IF t.error = NoError THEN Issue(t) ELSE t)
      received(s) ==
        IF ~Pending(s) THEN s
        ELSE IF s.first = End THEN Throw(s, "undefined")
        ELSE IF q >= s.first THEN Receive(s, After(s, q), k) ELSE ReceiveIfAvailable(s, k)
      blocked(s) == IF q >= s.error THEN Throw(s, "earlier error") ELSE s
      more(s) == IF s.waiting > 0 /\ ~Pending(s) /\ s.error = NoError THEN Issue(s) ELSE s
      taken(s) == LET t == [s EXCEPT !.present = @ \ {q}] IN
                  IF s.res[q].ok THEN t ELSE Throw(t, "sql")
  IN  Then(Then(Then(Then(Then(blocked(Start), sent), received), blocked), more), taken)

Retrieve ==
  \E q \in pipe.present, k \in Arrived :
    LET s == Retrieved(q, k) IN
    /\ pipe' = [s EXCEPT !.any = FALSE]
    /\ got' = [got EXCEPT ![q] = IF s.thrown # "none" THEN s.thrown
                               ELSE IF s.res[q].of = q THEN "own" ELSE "another"]
    /\ UNCHANGED <<inWork, fault>>

IsFinished(q) == pipe.first = End \/ (q < pipe.first /\ q < pipe.error)

Next == Insert \/ Complete \/ Flush \/ Cancel \/ Retain \/ Resume \/ Retrieve

Spec == Init /\ [][Next]_vars

-----------------------------------------------------------------------------
\* pipeline.hxx - retrieve gives a query's own result, or an error.  Queries take
\* effect in their order and once.  An error is of the query itself - in a
\* transaction that failed, of the first that was run after it - and a query is
\* refused only for one before it.  Unless the program cancelled: no call meets a
\* result it did not expect, a result that is said to be there is, and
\* m_num_waiting counts what has not been sent.  No call reads past m_queries.
InOrder ==
  /\ pipe.thrown # "undefined"
  /\ \A i, j \in DOMAIN pipe.ran : i < j => pipe.ran[i] < pipe.ran[j]
  /\ \A q \in Query :
       LET spoilt(p) == fault[p] # "fine" \/ (inWork /\ \E e \in Query : fault[e] # "fine") IN
       /\ got[q] # "another"
       /\ got[q] = "sql" => spoilt(q)
       /\ got[q] = "earlier error" => pipe.cancelled \/ \E p \in 1..q - 1 : spoilt(p)
  /\ ~pipe.cancelled =>
       /\ pipe.thrown \in {"none", "sql", "earlier error"}
       /\ \A q \in pipe.present : IsFinished(q) => pipe.res[q] # NoResult
       /\ pipe.error = NoError =>
            pipe.waiting = Cardinality({q \in pipe.present : q >= pipe.second})

=============================================================================
