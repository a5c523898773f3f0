---------------------------- MODULE Transaction ----------------------------
(***************************************************************************)
(* The transactions of libpqxx 7.9.2 on one connection: transaction_base,  *)
(* work, robusttransaction, nontransaction and a subtransaction, with the  *)
(* session PostgreSQL keeps for them.                                      *)
(*                                                                         *)
(* A program may make the calls in any order and may swallow any           *)
(* exception.  It keeps two rules the library states and does not enforce: *)
(* one main transaction object at a time (robusttransaction does not       *)
(* register itself), and nothing on a parent while its subtransaction      *)
(* lives (the warning of subtransaction.hxx; it does not register either). *)
(*                                                                         *)
(* A call that only throws, or only writes a notice, is no step.           *)
(***************************************************************************)
EXTENDS Integers, FiniteSets

CONSTANTS MaxTx,      \* bound: main transaction objects
          MaxWrites,  \* bound: statements that write
          Kinds       \* the classes each of them may have in this instance

Sub   == 0
Main  == 1..MaxTx
Tx    == Main \cup {Sub}
NoTx  == -1
WriteId == 1..MaxWrites

VARIABLES
  up,        \* the connection works
  trans,     \* connection::m_trans
  tx,        \* the objects
  next,      \* the next statement that writes
  backend,   \* the server's session: no transaction, one, or one that failed
  unc,       \* what the session has written and not committed
  hasSave, save,  \* the savepoint of the subtransaction, and unc when it was set
  db         \* what is committed

sessionVars == <<up, backend, unc, hasSave, save, db>>
vars == <<trans, tx, next, sessionVars>>

\* pending, focus: m_pending_error, m_focus.  writes: what exec reported as done.
\* History: failed - a statement threw; retry - perform() would run its callback
\* again; excuse - why no promise is made for this object any more, or for the
\* session after it ("rollback", "begun").
Object(k) ==
  [kind |-> k, status |-> "active", pending |-> FALSE, focus |-> FALSE, alive |-> TRUE,
   writes |-> {}, failed |-> FALSE, retry |-> FALSE, excuse |-> {}]
Unborn == [Object("none") EXCEPT !.alive = FALSE]

Init ==
  /\ up = TRUE /\ trans = NoTx /\ tx = [o \in Tx |-> Unborn] /\ next = 1
  /\ backend = "idle" /\ unc = {} /\ hasSave = FALSE /\ save = {} /\ db = {}

-----------------------------------------------------------------------------
(* PostgreSQL and libpq.  What a command comes back with: ok, an error, an  *)
(* error of class 40 (serialization failure, deadlock), a broken connection.*)

Error  == {"error", "rollback"}
Answer == {"ok", "broken"} \cup Error

\* The connection breaks before or after the server has made w permanent.
Lost(w) ==
  /\ up' = FALSE /\ backend' = "idle" /\ unc' = {} /\ hasSave' = FALSE /\ save' = {}
  /\ db' \in {db, db \cup w}

Broken(r, w) == r = "broken" /\ (IF up THEN Lost(w) ELSE UNCHANGED sessionVars)

Fails(r) ==
  /\ r \in Error /\ up
  /\ backend' = IF backend = "idle" THEN "idle" ELSE "failed"
  /\ UNCHANGED <<up, unc, hasSave, save, db>>

\* The session is without a transaction; w is what became permanent.
Ends(w) ==
  /\ up /\ backend' = "idle" /\ unc' = {} /\ hasSave' = FALSE /\ save' = {} /\ db' = db \cup w
  /\ UNCHANGED up

Begins(r) ==
  \/ r = "ok" /\ up /\ backend # "failed" /\ backend' = "open"
     /\ UNCHANGED <<up, unc, hasSave, save, db>>
  \/ r = "error" /\ backend = "failed" /\ Fails(r)
  \/ Broken(r, {})

Writes(w, r) ==
  \/ /\ r = "ok" /\ up /\ backend # "failed"
     /\ unc' = IF backend = "open" THEN unc \cup {w} ELSE unc
     /\ db' = IF backend = "idle" THEN db \cup {w} ELSE db
     /\ UNCHANGED <<up, backend, hasSave, save>>
  \/ Fails(r)
  \/ Broken(r, IF backend = "idle" THEN {w} ELSE {})

\* COMMIT of a failed transaction rolls it back and is no error.
Commits(r) ==
  \/ r = "ok" /\ Ends(IF backend = "open" THEN unc ELSE {})
  \/ r \in Error /\ backend = "open" /\ Ends({})
  \/ Broken(r, IF backend = "open" THEN unc ELSE {})

RollsBack(r) == (r = "ok" /\ Ends({})) \/ Broken(r, {})

SetsSavepoint(r) ==
  \/ r = "ok" /\ up /\ backend = "open" /\ hasSave' = TRUE /\ save' = unc
     /\ UNCHANGED <<up, backend, unc, db>>
  \/ r = "error" /\ backend # "open" /\ Fails(r)
  \/ Broken(r, {})

RollsBackTo(r) ==
  \/ r = "ok" /\ up /\ hasSave /\ backend' = "open" /\ unc' = save
     /\ UNCHANGED <<up, hasSave, save, db>>
  \/ r = "error" /\ ~hasSave /\ Fails(r)
  \/ Broken(r, {})

Releases(r) ==
  \/ r = "ok" /\ up /\ hasSave /\ backend = "open" /\ hasSave' = FALSE /\ save' = {}
     /\ UNCHANGED <<up, backend, unc, db>>
  \/ (backend # "open" \/ ~hasSave) /\ Fails(r)
  \/ Broken(r, {})

\* basic_robusttransaction's init throws after its BEGIN has been done: the id of the
\* transaction, which it asks for next, does not come.
Abandons(r) ==
  /\ r \in Error /\ up /\ backend # "failed" /\ backend' = "failed"
  /\ UNCHANGED <<up, unc, hasSave, save, db>>

\* perform() runs its callback again after a lost connection and a rollback.
Retried(r) == r \in {"rollback", "broken"}

-----------------------------------------------------------------------------
(* transaction_base.                                                       *)

Active(o) == tx[o].alive /\ tx[o].status = "active"

\* The program may call o.
Usable(o) == tx[o].alive /\ (o \in Main => ~tx[Sub].alive)

Parent(t) == t \in Main /\ Active(t)

Unregistered(o) == IF trans = o THEN NoTx ELSE trans

\* The constructors.  One that throws leaves no object, and what it registered
\* is unregistered by ~transaction_base; nothing sends the ROLLBACK of a BEGIN that
\* has been done.
Construct(k) ==
  LET born == {t \in Main : tx[t] # Unborn} IN
  \E t \in Main \ born, r \in Answer :
    /\ k \in Kinds[t] /\ \A u \in Main : u < t => u \in born
    /\ \A o \in Tx : ~tx[o].alive
    /\ trans = NoTx
    /\ \/ /\ IF k = "non" THEN r = "ok" /\ UNCHANGED sessionVars ELSE Begins(r)
          /\ IF r = "ok" THEN /\ tx' = [tx EXCEPT ![t] = Object(k)]
                             /\ trans' = IF k = "robust" THEN trans ELSE t
                        ELSE UNCHANGED <<tx, trans>>
       \/ /\ k = "robust" /\ Abandons(r)
          /\ tx' = [tx EXCEPT ![t].excuse = {"begun"}]
          /\ UNCHANGED trans
    /\ UNCHANGED next

\* subtransaction::subtransaction.
ConstructSub ==
  /\ tx[Sub] = Unborn
  /\ \E t \in Main, r \in Answer :
       /\ Active(t) /\ tx[t].kind # "non" /\ SetsSavepoint(r)
       /\ tx' = IF r = "ok" THEN [tx EXCEPT ![Sub] = Object("sub")]
                            ELSE [tx EXCEPT ![t].failed = TRUE, ![t].retry = Retried(r)]
  /\ UNCHANGED <<trans, next>>

\* What a statement leaves in its object.
Reported(o, r) ==
  [tx EXCEPT ![o].writes = IF r = "ok" THEN @ \cup {next} ELSE @,
             ![o].failed = @ \/ r # "ok", ![o].retry = Retried(r)]

\* exec: a pending error comes out instead.
Exec(o) ==
  /\ Usable(o)
  /\ \/ /\ tx[o].pending
        /\ tx' = [tx EXCEPT ![o].pending = FALSE, ![o].failed = TRUE, ![o].retry = FALSE]
        /\ UNCHANGED <<next, sessionVars>>
     \/ /\ ~tx[o].pending /\ ~tx[o].focus /\ Active(o) /\ next \in WriteId
        /\ \E r \in Answer : Writes(next, r) /\ tx' = Reported(o, r)
        /\ next' = next + 1
  /\ UNCHANGED trans

\* exec_params and exec_prepared look at neither the pending error nor the
\* status: on a closed transaction they run on whatever the session is in.
ExecParams(o) ==
  /\ Usable(o) /\ ~tx[o].focus /\ next \in WriteId
  /\ \E r \in Answer :
       /\ Writes(next, r)
       /\ tx' = IF Active(o) THEN Reported(o, r)
                             ELSE [tx EXCEPT ![o].excuse = @ \cup {"stray"}]
  /\ next' = next + 1
  /\ UNCHANGED trans

\* A stream or a pipeline; what goes wrong when it is destroyed is kept.
OpenFocus(o) ==
  /\ Usable(o) /\ Active(o) /\ ~tx[o].focus
  /\ tx' = [tx EXCEPT ![o].focus = TRUE]
  /\ UNCHANGED <<trans, next, sessionVars>>

CloseFocus(o) ==
  /\ Usable(o) /\ tx[o].focus
  /\ \E e \in BOOLEAN : tx' = [tx EXCEPT ![o].focus = FALSE, ![o].pending = @ \/ e]
  /\ UNCHANGED <<trans, next, sessionVars>>

-----------------------------------------------------------------------------
(* commit.  Each do_commit says how it came out.                           *)

Outcome(status, retry) == [status |-> status, retry |-> retry]

\* Mutant: an error of COMMIT is passed on, the lost connection too.
BasicCommitPlain(out) ==
  \E r \in Answer :
    Commits(r) /\ out = Outcome(IF r = "ok" THEN "committed" ELSE "aborted", Retried(r))

\* basic_transaction::do_commit.
BasicCommit(out) ==
  \E r \in Answer :
    /\ Commits(r)
    /\ out = CASE r = "ok"     -> Outcome("committed", FALSE)
               [] r = "broken" -> Outcome("in_doubt", FALSE)
               [] OTHER        -> Outcome("aborted", Retried(r))

\* basic_robusttransaction::do_commit.  SET CONSTRAINTS fails, or COMMIT does,
\* and do_abort follows; or the connection is lost under the COMMIT and
\* txid_status is asked on another one.  That it was rolled back is answered
\* by do_abort on the connection that is lost, which throws, so that the loop
\* goes on until it gives up.  An error of the query itself passes for one of
\* the COMMIT.
RobustCommit(out) ==
  \/ \E r \in Answer \ {"ok"} :
       /\ r = "broken" => Lost({})
       /\ r # "broken" => Ends({}) \/ Lost({})
       /\ out \in {Outcome("aborted", Retried(r)), Outcome("aborted", TRUE)}
  \/ backend # "failed" /\ Ends(unc) /\ out = Outcome("committed", FALSE)
  \/ /\ backend # "failed" /\ Lost(unc)
     /\ \/ out = Outcome("in_doubt", FALSE)
        \/ db' = db \cup unc /\ out = Outcome("committed", FALSE)
        \/ out = Outcome("unasked", FALSE)

SubCommit(out) ==
  \E r \in Answer :
    Releases(r) /\ out = Outcome(IF r = "ok" THEN "committed" ELSE "aborted", Retried(r))

DoCommit(k, out) ==
  CASE k = "work"   -> BasicCommit(out)
    [] k = "robust" -> RobustCommit(out)
    [] k = "sub"    -> SubCommit(out)
    [] OTHER        -> out = Outcome("committed", FALSE) /\ UNCHANGED sessionVars

\* A subtransaction hands its writes, or its failure, to the parent.
Handed(o, out) ==
  [p \in Tx |->
     IF o # Sub \/ ~Parent(p) THEN tx[p]
     ELSE IF out.status = "committed" THEN [tx[p] EXCEPT !.writes = @ \cup tx[Sub].writes]
     ELSE [tx[p] EXCEPT !.failed = TRUE]]

Commit(o) ==
  /\ Usable(o)
  /\ \/ /\ tx[o].pending
        /\ tx' = [tx EXCEPT ![o].pending = FALSE, ![o].failed = TRUE, ![o].retry = FALSE]
        /\ UNCHANGED <<trans, sessionVars>>
     \/ /\ ~tx[o].pending /\ Active(o) /\ ~tx[o].focus /\ up
        /\ \E out \in [status : {"committed", "aborted", "in_doubt", "unasked"},
                       retry : BOOLEAN] :
             /\ DoCommit(tx[o].kind, out)
             /\ tx' = [Handed(o, out) EXCEPT
                         ![o].status = IF out.status = "unasked" THEN "aborted" ELSE out.status,
                         ![o].failed = @ \/ out.status = "aborted",
                         ![o].retry = out.retry,
                         ![o].excuse = IF out.status = "unasked" THEN @ \cup {"query"} ELSE @]
             /\ trans' = IF out.status = "committed" THEN Unregistered(o) ELSE trans
  /\ UNCHANGED next

-----------------------------------------------------------------------------
(* abort, close and the destructors.                                       *)

\* do_abort, whose exceptions abort swallows.
RollbackCommand(o) ==
  CASE tx[o].kind = "non" -> UNCHANGED sessionVars
    [] tx[o].kind = "sub" -> \E r \in Answer : RollsBackTo(r)
    [] OTHER              -> \E r \in Answer : RollsBack(r)

\* direct_exec throws the pending error before it sends the ROLLBACK.
Abort(o) ==
  /\ Usable(o) /\ Active(o)
  /\ IF tx[o].pending /\ tx[o].kind # "non"
     THEN /\ tx' = [tx EXCEPT ![o].status = "aborted", ![o].pending = FALSE,
                              ![o].excuse = @ \cup {"rollback"}]
          /\ UNCHANGED sessionVars
     ELSE /\ RollbackCommand(o)
          /\ tx' = [tx EXCEPT ![o].status = "aborted", ![o].pending = FALSE]
  /\ trans' = Unregistered(o)
  /\ UNCHANGED next

\* Mutant: an object that is destroyed is unregistered and not rolled back.
DestroyOnly(o) ==
  /\ Usable(o) /\ ~tx[o].focus
  /\ tx' = [tx EXCEPT ![o].alive = FALSE, ![o].pending = FALSE,
                      ![o].status = IF @ = "active" THEN "aborted" ELSE @]
  /\ trans' = Unregistered(o)
  /\ UNCHANGED <<next, sessionVars>>

\* close takes the pending error out first, so here the ROLLBACK is sent.
Destroy(o) ==
  /\ Usable(o) /\ ~tx[o].focus
  /\ IF Active(o) THEN RollbackCommand(o) ELSE UNCHANGED sessionVars
  /\ tx' = [tx EXCEPT ![o].alive = FALSE, ![o].pending = FALSE,
                      ![o].status = IF @ = "active" THEN "aborted" ELSE @]
  /\ trans' = Unregistered(o)
  /\ UNCHANGED next

\* Another connection object takes the place of one that is broken.
Reconnect ==
  /\ ~up /\ \A o \in Tx : ~tx[o].alive
  /\ up' = TRUE /\ trans' = NoTx
  /\ UNCHANGED <<tx, next, backend, unc, hasSave, save, db>>

Next ==
  \/ (\E k \in {"work", "robust", "non"} : Construct(k)) \/ ConstructSub \/ Reconnect
  \/ \E o \in Tx : \/ Exec(o) \/ ExecParams(o) \/ OpenFocus(o) \/ CloseFocus(o)
                   \/ Commit(o) \/ Abort(o) \/ Destroy(o)

Spec == Init /\ [][Next]_vars

-----------------------------------------------------------------------------
TypeOK ==
  /\ up \in BOOLEAN /\ trans \in Main \cup {NoTx} /\ next \in 1..MaxWrites + 1
  /\ tx \in [Tx -> [kind : {"none", "work", "robust", "non", "sub"},
                    status : {"active", "committed", "aborted", "in_doubt"},
                    pending : BOOLEAN, focus : BOOLEAN, alive : BOOLEAN,
                    writes : SUBSET WriteId, failed : BOOLEAN,
                    retry : BOOLEAN,
                    excuse : SUBSET {"rollback", "query", "stray", "begun"}]]
  /\ backend \in {"idle", "open", "failed"} /\ hasSave \in BOOLEAN
  /\ {unc, save, db} \subseteq SUBSET WriteId

Promised(o) == tx[o].kind \in {"work", "robust"} /\ tx[o].excuse = {}

\* dbtransaction.hxx:28-31 - "the whole series of operations either succeeds as a
\* whole or fails completely": what an object has done is not in the database
\* before commit and after an abort, is there as a whole after a commit - or not
\* at all, when the program was told of a failure and commits all the same - and
\* as a whole or not at all when the outcome is in doubt.  An undone
\* subtransaction is never there.
AllOrNothing ==
  /\ \A t \in Main : Promised(t) =>
       LET w == tx[t].writes IN
       CASE tx[t].status = "committed" ->
              w \subseteq db \/ (w \cap db = {} /\ (tx[t].failed \/ tx[Sub].excuse # {}))
         [] tx[t].status = "in_doubt"  -> w \subseteq db \/ w \cap db = {}
         [] OTHER                      -> w \cap db = {}
  /\ tx[Sub].excuse = {} /\ tx[Sub].status # "committed" => tx[Sub].writes \cap db = {}

\* transactor.hxx:132-147 - perform() runs the callback again after a lost
\* connection or a rollback: then nothing of the first time may be there.
RetriedMeansUndone ==
  \A t \in Main : Promised(t) /\ tx[t].retry => tx[t].writes \cap db = {}

\* When the last object is gone the connection can take another transaction: it
\* has forgotten the old one, and so has the session - but for an abort() that threw
\* a pending error in place of its ROLLBACK, and a robusttransaction that was not
\* made, after its BEGIN.
SessionClean ==
  (\A o \in Tx : ~tx[o].alive) /\ up =>
    /\ trans = NoTx
    /\ backend = "idle" \/ \E t \in Main : tx[t].excuse \cap {"rollback", "begun"} # {}
=============================================================================
