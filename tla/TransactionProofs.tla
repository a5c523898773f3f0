-------------------------- MODULE TransactionProofs --------------------------
(***************************************************************************)
(* The promises of libpqxx's transactions, for every number of transaction *)
(* objects and statements: all or nothing, nothing left of what is run     *)
(* again, and a connection that is clean when the last object is gone.     *)
(***************************************************************************)
EXTENDS Sessions, TLAPS

Bounds == MaxTx \in Nat /\ MaxWrites \in Nat

Kind   == {"none", "work", "robust", "non", "sub"}
Status == {"active", "committed", "aborted", "in_doubt"}
Excuse == {"rollback", "query", "stray", "begun"}
Record == [kind : Kind, status : Status, pending : BOOLEAN, focus : BOOLEAN, alive : BOOLEAN,
           writes : SUBSET X!WriteId, failed : BOOLEAN, retry : BOOLEAN, excuse : SUBSET Excuse]

\* A main transaction that has a transaction of the server's, and is not over.
OpenDb(t) == X!Active(t) /\ tx[t].kind \in {"work", "robust"}

Session ==
  /\ save \subseteq unc
  /\ ~up => backend = "idle"
  /\ backend = "idle" => unc = {} /\ ~hasSave
  /\ \A n \in unc \cup db : n < next
  /\ \A o \in X!Tx : \A n \in tx[o].writes : n < next

Objects ==
  /\ tx[X!Sub].kind \in {"none", "sub"}
  /\ tx[X!Sub].alive => tx[X!Sub].kind = "sub"
  /\ \A t \in X!Main : tx[t].kind # "sub" /\ (tx[t].alive => tx[t].kind # "none")
  /\ \A t, u \in X!Main : tx[t].alive /\ tx[u].alive => t = u
  /\ tx[X!Sub].alive => \E t \in X!Main : OpenDb(t)
  /\ trans # X!NoTx => tx[trans].alive

\* The server has a transaction only for an object, or because abort() did not
\* send the ROLLBACK, or the constructor of a robusttransaction threw after BEGIN.
Left(t) == tx[t].excuse \cap {"rollback", "begun"} # {}
Owned == backend # "idle" => \E t \in X!Main : OpenDb(t) \/ Left(t)

\* What t has done is in the server's transaction as long as that can commit.
Doing(t) ==
  OpenDb(t) =>
    /\ tx[t].excuse = {} /\ tx[t].writes \cap db = {}
    /\ up => backend # "idle"
    /\ backend = "open" => tx[t].writes \subseteq unc
    /\ up /\ X!Active(X!Sub) => tx[t].writes \subseteq save
    /\ backend = "failed" => tx[t].failed \/ tx[X!Sub].excuse # {} \/ X!Active(X!Sub)

Settled(t) ==
  /\ tx[t].status = "committed" =>
       \/ tx[t].writes \subseteq db
       \/ tx[t].writes \cap db = {} /\ (tx[t].failed \/ tx[X!Sub].excuse # {})
  /\ tx[t].status = "in_doubt" => tx[t].writes \subseteq db \/ tx[t].writes \cap db = {}
  /\ tx[t].status \in {"active", "aborted"} => tx[t].writes \cap db = {}

\* What t has done has come to its end.
Done(t) ==
  ~X!Active(t) /\ X!Promised(t) =>
    /\ Settled(t)
    /\ tx[t].writes \cap unc = {}
    /\ tx[t].retry => tx[t].status \in {"active", "aborted"}

SubDoing ==
  X!Active(X!Sub) =>
    /\ tx[X!Sub].excuse = {} /\ tx[X!Sub].writes \cap (db \cup save) = {}
    /\ up => hasSave
    /\ backend = "open" => tx[X!Sub].writes \subseteq unc

SubDone ==
  ~X!Active(X!Sub) /\ tx[X!Sub].excuse = {} /\ tx[X!Sub].status # "committed" =>
    /\ tx[X!Sub].writes \cap db = {}
    /\ tx[X!Sub].writes \cap unc = {} \/ backend = "failed"

IInv ==
  /\ X!TypeOK /\ Session /\ Objects /\ Owned
  /\ \A t \in X!Main : Doing(t) /\ Done(t)
  /\ SubDoing /\ SubDone

-----------------------------------------------------------------------------
(* Objects and numbers.                                                    *)

LEMMA Names ==
  ASSUME Bounds
  PROVE  /\ X!Sub \notin X!Main /\ X!NoTx \notin X!Tx /\ X!Sub \in X!Tx /\ \A o \in X!Tx : o \in X!Main \/ o = X!Sub
         /\ X!Main \subseteq X!Tx
         /\ \A n \in X!WriteId : n \in Nat /\ n + 1 \in 1..MaxWrites + 1
BY DEF Bounds, X!Sub, X!Main, X!NoTx, X!Tx, X!WriteId

LEMMA TypeAs ==
  X!TypeOK <=> /\ up \in BOOLEAN /\ trans \in X!Main \cup {X!NoTx} /\ next \in 1..MaxWrites + 1
               /\ tx \in [X!Tx -> Record]
               /\ backend \in {"idle", "open", "failed"} /\ hasSave \in BOOLEAN
               /\ unc \in SUBSET X!WriteId /\ save \in SUBSET X!WriteId /\ db \in SUBSET X!WriteId
BY DEF X!TypeOK, Record, Kind, Status, Excuse

\* What every command may do to the session, the return to a savepoint excepted.
Forward ==
  /\ db \subseteq db' /\ unc' \subseteq unc \cup {next}
  /\ backend = "failed" => db' = db /\ (backend' = "failed" \/ unc' = {})
  /\ db' \subseteq db \cup unc \cup {next}

\* The statement numbers grow.
Numbered ==
  /\ next' \in 1..MaxWrites + 1 /\ next <= next'
  /\ next \in unc' \cup db' => next \in unc \cup db \/ next < next'

\* An object that is done stays as it is.
LEMMA DoneStays ==
  ASSUME IInv, Bounds, Forward \/ (unc' \subseteq unc /\ db' = db), NEW t \in X!Main,
         tx'[t] = tx[t], tx[X!Sub].excuse \subseteq tx'[X!Sub].excuse, ~X!Active(t)
  PROVE  Done(t)'
<1> SUFFICES ASSUME X!Promised(t) PROVE Done(t)'
  BY DEF Done, X!Promised, X!Active
<1>1. Settled(t) /\ tx[t].writes \cap unc = {}
  BY DEF IInv, Done
<1>2. tx[t].writes \cap {next} = {}
  BY Names, TypeAs DEF IInv, Session
<1>3. db \subseteq db' /\ db' \subseteq db \cup unc \cup {next} /\ unc' \subseteq unc \cup {next}
  BY DEF Forward
<1>4. tx[t].writes \cap db' = tx[t].writes \cap db /\ tx[t].writes \cap unc' = {}
  BY <1>1, <1>2, <1>3
<1>5. Settled(t)'
  BY <1>1, <1>3, <1>4 DEF Settled
<1> QED
  BY <1>4, <1>5 DEF IInv, Done, X!Promised, X!Active

LEMMA SubStays ==
  ASSUME IInv, Bounds, Forward, tx'[X!Sub] = tx[X!Sub], ~X!Active(X!Sub)
  PROVE  SubDone' /\ SubDoing'
<1>1. ~X!Active(X!Sub)'
  BY DEF X!Active
<1>2. \A n \in tx[X!Sub].writes : n # next
  BY Names, TypeAs DEF IInv, Session
<1> QED
  BY <1>1, <1>2 DEF IInv, SubDone, SubDoing, Forward

\* A call of main object o, whose subtransaction is gone.
LEMMA MainStep ==
  ASSUME IInv, Bounds, NEW o \in X!Main, X!Usable(o), Forward,
         X!TypeOK', Session', \A p \in X!Tx \ {o} : tx'[p] = tx[p],
         tx'[o].kind = tx[o].kind, tx'[o].alive => tx[o].alive,
         trans' # X!NoTx => trans' = trans /\ (trans = o => tx'[o].alive),
         backend' # "idle" => OpenDb(o)' \/ "rollback" \in tx'[o].excuse
                              \/ (backend # "idle" /\ ~OpenDb(o) /\ tx[o].excuse \subseteq tx'[o].excuse),
         Doing(o)', Done(o)'
  PROVE  IInv'
<1>1. tx[o].alive /\ ~tx[X!Sub].alive /\ tx'[X!Sub] = tx[X!Sub] /\ ~X!Active(X!Sub)
  BY Names DEF X!Usable, X!Active
<1>2. SubDone' /\ SubDoing'
  BY <1>1, SubStays
<1>3. ASSUME NEW t \in X!Main, t # o PROVE Doing(t)' /\ Done(t)'
  <2>1. tx'[t] = tx[t] /\ ~X!Active(t)
    BY <1>1, <1>3, Names DEF IInv, Objects, X!Active
  <2>2. Doing(t)'
    BY <2>1 DEF Doing, OpenDb, X!Active
  <2> QED
    BY <1>1, <2>1, <2>2, DoneStays
<1>4. Objects'
  <2>1. \A t \in X!Main : tx'[t].kind = tx[t].kind /\ (tx'[t].alive => tx[t].alive)
    BY Names
  <2>2. trans' # X!NoTx => tx'[trans'].alive
    BY Names, TypeAs DEF IInv, Objects
  <2> QED
    BY <1>1, <2>1, <2>2 DEF IInv, Objects
<1>5. Owned'
  <2> SUFFICES ASSUME backend' # "idle", ~OpenDb(o)', ~Left(o)'
               PROVE  \E t \in X!Main : OpenDb(t)' \/ Left(t)'
    BY DEF Owned
  <2>1. backend # "idle" /\ ~OpenDb(o) /\ ~Left(o)
    BY DEF Left
  <2>2. PICK t \in X!Main : OpenDb(t) \/ Left(t)
    BY <2>1 DEF IInv, Owned
  <2>3. t # o
    BY <2>1, <2>2
  <2> QED
    BY <2>2, <2>3, Names DEF OpenDb, Left, X!Active
<1> QED
  BY <1>2, <1>3, <1>4, <1>5 DEF IInv

-----------------------------------------------------------------------------
(* What commands do to the session.                                        *)

SessionTyped ==
  /\ up \in BOOLEAN /\ backend \in {"idle", "open", "failed"} /\ hasSave \in BOOLEAN
  /\ unc \in SUBSET X!WriteId /\ save \in SUBSET X!WriteId /\ db \in SUBSET X!WriteId

SessionSound ==
  /\ SessionTyped
  /\ save \subseteq unc
  /\ ~up => backend = "idle"
  /\ backend = "idle" => unc = {} /\ ~hasSave

LEMMA SessionNow == IInv => SessionTyped /\ SessionSound
BY TypeAs DEF IInv, Session, SessionTyped, SessionSound

\* The connection is gone, and with it what was not committed.
Gone == ~up' /\ backend' = "idle" /\ unc' = {} /\ save' = {} /\ ~hasSave'

LEMMA BrokenLemma ==
  ASSUME SessionSound, NEW r, NEW w \in SUBSET X!WriteId, X!Broken(r, w), w \subseteq unc \cup {next},
         backend = "failed" => w = {}
  PROVE  Forward /\ SessionSound' /\ Gone /\ (up \/ db' = db) /\ db' \in {db, db \cup w}
BY DEF X!Broken, X!Lost, SessionSound, SessionTyped, Forward, Gone, X!sessionVars

LEMMA FailsLemma ==
  ASSUME SessionSound, NEW r, X!Fails(r)
  PROVE  /\ Forward /\ SessionSound' /\ up /\ up' /\ db' = db /\ unc' = unc /\ save' = save
         /\ hasSave' = hasSave
         /\ backend' = IF backend = "idle" THEN "idle" ELSE "failed"
BY DEF X!Fails, SessionSound, SessionTyped, Forward

LEMMA EndsLemma ==
  ASSUME SessionSound, NEW w \in SUBSET X!WriteId, X!Ends(w), w \subseteq unc, backend = "failed" => w = {}
  PROVE  /\ Forward /\ SessionSound' /\ backend' = "idle" /\ unc' = {} /\ save' = {} /\ ~hasSave'
         /\ db' = db \cup w
BY DEF X!Ends, SessionSound, SessionTyped, Forward

LEMMA QuietLemma ==
  ASSUME SessionSound, UNCHANGED X!sessionVars
  PROVE  Forward /\ SessionSound'
BY DEF X!sessionVars, SessionSound, SessionTyped, Forward

LEMMA WritesLemma ==
  ASSUME SessionSound, NEW r, next \in X!WriteId, X!Writes(next, r)
  PROVE  /\ Forward /\ SessionSound'
         /\ r = "ok" => /\ backend # "failed" /\ backend' = backend /\ up /\ up'
                        /\ hasSave' = hasSave /\ save' = save
                        /\ backend = "open" => unc' = unc \cup {next} /\ db' = db
                        /\ backend = "idle" => unc' = unc
         /\ r # "ok" => \/ /\ up /\ up' /\ db' = db /\ unc' = unc /\ save' = save /\ hasSave' = hasSave
                           /\ backend' = IF backend = "idle" THEN "idle" ELSE "failed"
                        \/ Gone /\ (~up \/ backend # "idle" => db' = db)
<1>1. CASE X!Fails(r)
  BY <1>1, FailsLemma DEF X!Fails, X!Error
<1>2. CASE X!Broken(r, IF backend = "idle" THEN {next} ELSE {})
  <2>1. CASE backend = "idle"
    <3>1. {next} \in SUBSET X!WriteId
      OBVIOUS
    <3> QED
      BY <1>2, <2>1, <3>1, BrokenLemma DEF X!Broken
  <2>2. CASE backend # "idle"
    BY <1>2, <2>2, BrokenLemma DEF X!Broken
  <2> QED
    BY <2>1, <2>2
<1>3. CASE r = "ok" /\ ~X!Fails(r) /\ ~X!Broken(r, IF backend = "idle" THEN {next} ELSE {})
  BY <1>3 DEF X!Writes, SessionSound, SessionTyped, Forward
<1> QED
  BY <1>1, <1>2, <1>3 DEF X!Writes, X!Fails, X!Broken, X!Error

\* From what a command does to what Session says of the step.
LEMMA SessionLater ==
  ASSUME IInv, Bounds, SessionSound', next' \in 1..MaxWrites + 1, next <= next',
         \A n \in unc' \cup db' : n \in unc \cup db \/ (n = next /\ next < next'),
         \A o \in X!Tx : \A n \in tx'[o].writes : (\E p \in X!Tx : n \in tx[p].writes)
                                               \/ (n = next /\ next < next')
  PROVE  Session'
<1>1. \A n \in X!WriteId : n \in Nat
  BY Names
<1>2. next \in Nat /\ next' \in Nat
  BY Names, TypeAs DEF IInv, Bounds
<1>3. \A n \in unc \cup db : n \in Nat /\ n < next
  BY <1>1, TypeAs DEF IInv, Session
<1>4. \A o \in X!Tx : \A n \in tx[o].writes : n \in Nat /\ n < next
  BY <1>1, TypeAs DEF IInv, Session, Record
<1> QED
  BY <1>2, <1>3, <1>4 DEF Session, SessionSound

\* The types of all variables from those of the session and of the objects.
LEMMA TypeLater ==
  ASSUME SessionTyped', trans' \in X!Main \cup {X!NoTx}, next' \in 1..MaxWrites + 1, tx' \in [X!Tx -> Record]
  PROVE  X!TypeOK'
BY DEF SessionTyped, X!TypeOK, Record, Kind, Status, Excuse

-----------------------------------------------------------------------------
(* The calls of a main object.                                             *)

LEMMA ExecPending ==
  ASSUME IInv, Bounds, NEW o \in X!Tx,
         tx' = [tx EXCEPT ![o].pending = FALSE, ![o].failed = TRUE, ![o].retry = FALSE]
  PROVE  /\ tx' \in [X!Tx -> Record]
         /\ \A p \in X!Tx \ {o} : tx'[p] = tx[p]
         /\ tx'[o].kind = tx[o].kind /\ tx'[o].alive = tx[o].alive /\ tx'[o].status = tx[o].status
         /\ tx'[o].writes = tx[o].writes /\ tx'[o].excuse = tx[o].excuse
         /\ tx'[o].failed /\ ~tx'[o].retry
BY TypeAs DEF IInv, Record

LEMMA MainPending ==
  ASSUME IInv, Bounds, NEW o \in X!Main, X!Usable(o), UNCHANGED <<trans, next, X!sessionVars>>,
         tx' = [tx EXCEPT ![o].pending = FALSE, ![o].failed = TRUE, ![o].retry = FALSE]
  PROVE  IInv'
<1>1. o \in X!Tx
  BY Names
<1>2. /\ tx' \in [X!Tx -> Record]
      /\ \A p \in X!Tx \ {o} : tx'[p] = tx[p]
      /\ tx'[o].kind = tx[o].kind /\ tx'[o].alive = tx[o].alive /\ tx'[o].status = tx[o].status
      /\ tx'[o].writes = tx[o].writes /\ tx'[o].excuse = tx[o].excuse
      /\ tx'[o].failed /\ ~tx'[o].retry
  BY <1>1, ExecPending
<1>3. Forward /\ SessionSound'
  BY SessionNow, QuietLemma
<1>4. X!TypeOK'
  BY <1>2, <1>3, TypeLater, TypeAs DEF IInv, SessionSound
<1>5. Session'
  <2>1. \A p \in X!Tx : tx'[p].writes = tx[p].writes
    BY <1>2
  <2>2. next' \in 1..MaxWrites + 1 /\ next <= next'
    BY TypeAs DEF IInv, Bounds
  <2> QED
    BY <1>3, <2>1, <2>2, SessionLater DEF X!sessionVars
<1>6. tx'[X!Sub] = tx[X!Sub]
  BY <1>2, Names
<1>7. Doing(o)' /\ Done(o)'
  <2>1. Doing(o) /\ Done(o)
    BY DEF IInv
  <2> QED
    BY <1>2, <1>6, <2>1 DEF Doing, Done, OpenDb, X!Active, X!Promised, Settled, X!sessionVars
<1>8. OpenDb(o)' <=> OpenDb(o)
  BY <1>2 DEF OpenDb, X!Active
<1>9. trans' = trans /\ backend' = backend
  BY DEF X!sessionVars
<1>10. tx[o].alive
  BY DEF X!Usable
<1> QED
  BY <1>2, <1>3, <1>4, <1>5, <1>7, <1>8, <1>9, <1>10, MainStep

\* A statement of an active object, whichever way it is sent.
LEMMA ReportedLemma ==
  ASSUME IInv, NEW o \in X!Tx, NEW r, next \in X!WriteId, tx' = X!Reported(o, r)
  PROVE  /\ tx' \in [X!Tx -> Record]
         /\ \A p \in X!Tx \ {o} : tx'[p] = tx[p]
         /\ tx'[o].kind = tx[o].kind /\ tx'[o].alive = tx[o].alive /\ tx'[o].status = tx[o].status
         /\ tx'[o].writes = IF r = "ok" THEN tx[o].writes \cup {next} ELSE tx[o].writes
         /\ tx'[o].excuse = tx[o].excuse
         /\ (r # "ok" => tx'[o].failed) /\ (tx[o].failed => tx'[o].failed)
<1>1. X!Retried(r) \in BOOLEAN
  BY DEF X!Retried
<1>2. CASE r = "ok"
  <2>1. tx' = [tx EXCEPT ![o].writes = tx[o].writes \cup {next}, ![o].failed = tx[o].failed,
                         ![o].retry = X!Retried(r)]
    BY <1>2, TypeAs DEF IInv, Record, X!Reported
  <2> QED
    BY <1>1, <1>2, <2>1, TypeAs DEF IInv, Record
<1>3. CASE r # "ok"
  <2>1. tx' = [tx EXCEPT ![o].failed = TRUE, ![o].retry = X!Retried(r)]
    BY <1>3, TypeAs DEF IInv, Record, X!Reported
  <2>2. tx' \in [X!Tx -> Record]
    <3>1. [tx[o] EXCEPT !.failed = TRUE, !.retry = X!Retried(r)] \in Record
      BY <1>1, TypeAs DEF IInv, Record
    <3>2. tx' = [tx EXCEPT ![o] = [tx[o] EXCEPT !.failed = TRUE, !.retry = X!Retried(r)]]
      BY <2>1, TypeAs DEF IInv
    <3> QED
      BY <3>1, <3>2, TypeAs DEF IInv
  <2>3. \A p \in X!Tx \ {o} : tx'[p] = tx[p]
    BY <2>1, TypeAs DEF IInv
  <2>4. tx'[o] = [tx[o] EXCEPT !.failed = TRUE, !.retry = X!Retried(r)]
    BY <2>1, TypeAs DEF IInv
  <2>5. /\ tx'[o].kind = tx[o].kind /\ tx'[o].alive = tx[o].alive /\ tx'[o].status = tx[o].status
        /\ tx'[o].writes = tx[o].writes /\ tx'[o].excuse = tx[o].excuse /\ tx'[o].failed
    BY <2>4, TypeAs DEF IInv, Record
  <2> QED
    BY <1>3, <2>2, <2>3, <2>5, TypeAs DEF IInv, Record
<1> QED
  BY <1>2, <1>3

\* What a statement does to the numbers, of the session and of its object.
LEMMA WritesNumbered ==
  ASSUME IInv, Bounds, NEW r, next \in X!WriteId, next' = next + 1, X!Writes(next, r),
         \A o \in X!Tx : tx'[o].writes \subseteq tx[o].writes \cup {next}
  PROVE  Session'
<1>1. SessionSound' /\ Forward
  BY SessionNow, WritesLemma
<1>2. next' \in 1..MaxWrites + 1 /\ next <= next' /\ next < next'
  BY Names
<1>3. \A n \in unc' \cup db' : n \in unc \cup db \/ n = next
  BY <1>1 DEF Forward
<1> QED
  BY <1>1, <1>2, <1>3, SessionLater

LEMMA MainStatement ==
  ASSUME IInv, Bounds, NEW o \in X!Main, X!Usable(o), X!Active(o), next \in X!WriteId, next' = next + 1,
         UNCHANGED trans, NEW r, X!Writes(next, r), tx' = X!Reported(o, r)
  PROVE  IInv'
<1>1. o \in X!Tx
  BY Names
<1>2. /\ tx' \in [X!Tx -> Record]
      /\ \A p \in X!Tx \ {o} : tx'[p] = tx[p]
      /\ tx'[o].kind = tx[o].kind /\ tx'[o].alive = tx[o].alive /\ tx'[o].status = tx[o].status
      /\ tx'[o].writes = IF r = "ok" THEN tx[o].writes \cup {next} ELSE tx[o].writes
      /\ tx'[o].excuse = tx[o].excuse
      /\ (r # "ok" => tx'[o].failed) /\ (tx[o].failed => tx'[o].failed)
  BY <1>1, ReportedLemma
<1>3. /\ Forward /\ SessionSound'
      /\ r = "ok" => /\ backend # "failed" /\ backend' = backend /\ up /\ up'
                     /\ hasSave' = hasSave /\ save' = save
                     /\ backend = "open" => unc' = unc \cup {next} /\ db' = db
                     /\ backend = "idle" => unc' = unc
      /\ r # "ok" => \/ /\ up /\ up' /\ db' = db /\ unc' = unc /\ save' = save /\ hasSave' = hasSave
                        /\ backend' = IF backend = "idle" THEN "idle" ELSE "failed"
                     \/ Gone /\ (~up \/ backend # "idle" => db' = db)
  BY SessionNow, WritesLemma
<1>4. X!TypeOK'
  <2>1. next' \in 1..MaxWrites + 1
    BY Names
  <2> QED
    BY <1>2, <1>3, <2>1, TypeLater, TypeAs DEF IInv, SessionSound
<1>5. Session'
  <2>1. \A p \in X!Tx : tx'[p].writes \subseteq tx[p].writes \cup {next}
    BY <1>2
  <2> QED
    BY <2>1, WritesNumbered
<1>6. OpenDb(o)' <=> OpenDb(o)
  BY <1>2 DEF OpenDb, X!Active
<1>7. backend' # "idle" => backend # "idle"
  BY <1>3 DEF Gone
<1>8. next \notin db
  BY TypeAs DEF IInv, Session, Bounds
<1>9. ~X!Active(X!Sub)' /\ tx'[X!Sub].excuse = tx[X!Sub].excuse
  <2>1. X!Sub \in X!Tx \ {o} /\ ~tx[X!Sub].alive
    BY Names DEF X!Usable
  <2> QED
    BY <1>2, <2>1 DEF X!Active
<1>10. Doing(o)'
  <2> SUFFICES ASSUME OpenDb(o)' PROVE Doing(o)'
    BY DEF Doing
  <2>1. /\ OpenDb(o) /\ tx[o].excuse = {} /\ tx[o].writes \cap db = {}
        /\ up => backend # "idle"
        /\ backend = "open" => tx[o].writes \subseteq unc
        /\ backend = "failed" => tx[o].failed \/ tx[X!Sub].excuse # {}
    BY <1>6, Names DEF IInv, Doing, X!Usable, X!Active
  <2>2. CASE r = "ok"
    <3>1. backend = "open" /\ backend' = "open" /\ db' = db /\ unc' = unc \cup {next}
      BY <1>3, <2>1, <2>2 DEF SessionSound, SessionTyped, IInv, X!TypeOK
    <3> QED
      BY <1>2, <1>8, <1>9, <2>1, <2>2, <3>1 DEF Doing
  <2>3. CASE r # "ok"
    <3>1. db' = db
      BY <1>3, <2>1, <2>3
    <3>2. up' => backend' = "failed"
      BY <1>3, <2>1, <2>3, SessionNow DEF Gone, SessionSound
    <3>3. backend' # "open"
      BY <1>3, <2>3 DEF Gone
    <3> QED
      BY <1>2, <1>9, <2>1, <2>3, <3>1, <3>2, <3>3 DEF Doing
  <2> QED
    BY <2>2, <2>3
<1>11. Done(o)'
  BY <1>2 DEF Done, X!Active
<1>12. tx[o].alive
  BY DEF X!Usable
<1> QED
  BY <1>2, <1>3, <1>4, <1>5, <1>6, <1>7, <1>10, <1>11, <1>12, MainStep

LEMMA MainExec ==
  ASSUME IInv, Bounds, NEW o \in X!Main, X!Exec(o)
  PROVE  IInv'
BY MainPending, MainStatement DEF X!Exec, X!sessionVars

\* A statement on an object that is over.
LEMMA MainStray ==
  ASSUME IInv, Bounds, NEW o \in X!Main, X!Usable(o), ~X!Active(o), next \in X!WriteId, next' = next + 1,
         UNCHANGED trans, NEW r, X!Writes(next, r),
         tx' = [tx EXCEPT ![o].excuse = @ \cup {"stray"}]
  PROVE  IInv'
<1>1. o \in X!Tx
  BY Names
<1>2. /\ tx' \in [X!Tx -> Record]
      /\ \A p \in X!Tx \ {o} : tx'[p] = tx[p]
      /\ tx'[o].kind = tx[o].kind /\ tx'[o].alive = tx[o].alive /\ tx'[o].status = tx[o].status
      /\ tx'[o].writes = tx[o].writes
      /\ tx'[o].excuse = tx[o].excuse \cup {"stray"}
  BY <1>1, TypeAs DEF IInv, Record, Excuse
<1>3. Forward /\ SessionSound' /\ (backend' # "idle" => backend # "idle")
  BY SessionNow, WritesLemma DEF Gone
<1>4. X!TypeOK'
  <2>1. next' \in 1..MaxWrites + 1
    BY Names
  <2> QED
    BY <1>2, <1>3, <2>1, TypeLater, TypeAs DEF IInv, SessionSound
<1>5. Session'
  <2>1. \A p \in X!Tx : tx'[p].writes \subseteq tx[p].writes \cup {next}
    BY <1>2
  <2> QED
    BY <2>1, WritesNumbered
<1>6. ~OpenDb(o) /\ Doing(o)' /\ Done(o)'
  BY <1>2 DEF OpenDb, X!Active, Doing, Done, X!Promised
<1> QED
  BY <1>2, <1>3, <1>4, <1>5, <1>6, MainStep DEF X!Usable

LEMMA MainExecParams ==
  ASSUME IInv, Bounds, NEW o \in X!Main, X!ExecParams(o)
  PROVE  IInv'
BY MainStatement, MainStray DEF X!ExecParams

LEMMA MainFocus ==
  ASSUME IInv, Bounds, NEW o \in X!Main, X!OpenFocus(o) \/ X!CloseFocus(o)
  PROVE  IInv'
<1>1. o \in X!Tx /\ X!Usable(o)
  BY Names DEF X!OpenFocus, X!CloseFocus
<1>2. PICK e \in BOOLEAN, f \in BOOLEAN :
        tx' = [tx EXCEPT ![o].focus = f, ![o].pending = e]
  <2>1. CASE X!OpenFocus(o)
    <3>1. tx' = [tx EXCEPT ![o].focus = TRUE]
      BY <2>1 DEF X!OpenFocus
    <3>2. tx' = [tx EXCEPT ![o].focus = TRUE, ![o].pending = tx[o].pending]
      BY <1>1, <3>1, TypeAs DEF IInv, Record
    <3>3. tx[o].pending \in BOOLEAN
      BY <1>1, TypeAs DEF IInv, Record
    <3> QED
      BY <3>2, <3>3
  <2>2. CASE X!CloseFocus(o)
    <3>1. PICK d \in BOOLEAN : tx' = [tx EXCEPT ![o].focus = FALSE, ![o].pending = tx[o].pending \/ d]
      BY <2>2, Zenon DEF X!CloseFocus
    <3>2. (tx[o].pending \/ d) \in BOOLEAN
      OBVIOUS
    <3> QED
      BY <3>1, <3>2, Zenon
  <2> QED
    BY <1>1, <2>1, <2>2
<1>3. /\ tx' \in [X!Tx -> Record]
      /\ \A p \in X!Tx \ {o} : tx'[p] = tx[p]
      /\ tx'[o].kind = tx[o].kind /\ tx'[o].alive = tx[o].alive /\ tx'[o].status = tx[o].status
      /\ tx'[o].writes = tx[o].writes /\ tx'[o].excuse = tx[o].excuse
      /\ tx'[o].failed = tx[o].failed /\ tx'[o].retry = tx[o].retry
  BY <1>1, <1>2, TypeAs DEF IInv, Record
<1>4. UNCHANGED <<trans, next, X!sessionVars>>
  BY DEF X!OpenFocus, X!CloseFocus
<1>5. Forward /\ SessionSound'
  BY <1>4, SessionNow, QuietLemma
<1>6. X!TypeOK'
  BY <1>3, <1>4, <1>5, TypeLater, TypeAs DEF IInv, SessionSound
<1>7. Session'
  <2>1. \A p \in X!Tx : tx'[p].writes = tx[p].writes
    BY <1>3
  <2>2. next' \in 1..MaxWrites + 1 /\ next <= next'
    BY <1>4, TypeAs DEF IInv, Bounds
  <2> QED
    BY <1>4, <1>5, <2>1, <2>2, SessionLater DEF X!sessionVars
<1>8. tx'[X!Sub] = tx[X!Sub]
  BY <1>3, Names
<1>9. Doing(o)' /\ Done(o)'
  <2>1. Doing(o) /\ Done(o)
    BY DEF IInv
  <2> QED
    BY <1>3, <1>4, <1>8, <2>1 DEF Doing, Done, OpenDb, X!Active, X!Promised, Settled, X!sessionVars
<1>10. OpenDb(o)' <=> OpenDb(o)
  BY <1>3 DEF OpenDb, X!Active
<1> QED
  BY <1>1, <1>3, <1>4, <1>5, <1>6, <1>7, <1>9, <1>10, MainStep DEF X!Usable, X!sessionVars

\* The end of the server's transaction: backend is idle, and of what was not
\* committed everything is permanent, or nothing.
Ended == Forward /\ SessionSound' /\ backend' = "idle" /\ unc' = {} /\ db' \subseteq db \cup unc

LEMMA RolledBack ==
  ASSUME SessionSound, NEW r, X!RollsBack(r)
  PROVE  Ended /\ db' = db
<1>1. CASE X!Ends({})
  BY <1>1, EndsLemma DEF Ended, SessionSound, SessionTyped
<1>2. CASE X!Broken(r, {})
  BY <1>2, BrokenLemma DEF Ended, Gone
<1> QED
  BY <1>1, <1>2 DEF X!RollsBack

Result(out) ==
  /\ Ended
  /\ backend = "failed" => db' = db
  /\ out.status = "committed" => db' = IF backend = "failed" THEN db ELSE db \cup unc
  /\ out.status = "in_doubt" => db' \in {db, db \cup unc}
  /\ out.status = "aborted" => db' = db
  /\ out.retry => out.status = "aborted"

LEMMA BasicCommitLemma ==
  ASSUME SessionSound, up, NEW out, X!BasicCommit(out)
  PROVE  Result(out)
<1>1. PICK r \in X!Answer :
        /\ X!Commits(r)
        /\ out = CASE r = "ok"     -> X!Outcome("committed", FALSE)
                   [] r = "broken" -> X!Outcome("in_doubt", FALSE)
                   [] OTHER        -> X!Outcome("aborted", X!Retried(r))
  BY DEF X!BasicCommit
<1>2. unc \in SUBSET X!WriteId /\ {} \in SUBSET X!WriteId /\ {} \subseteq unc
      /\ (backend = "idle" => unc = {})
  BY DEF SessionSound, SessionTyped
<1> DEFINE w == IF backend = "open" THEN unc ELSE {}
<1>3. w \in SUBSET X!WriteId /\ w \subseteq unc /\ (backend = "failed" => w = {})
      /\ db \cup w = IF backend = "failed" THEN db ELSE db \cup unc
  BY <1>2 DEF SessionSound, SessionTyped
<1> HIDE DEF w
<1>4. CASE r = "ok" /\ X!Ends(w)
  <2>1. out = X!Outcome("committed", FALSE)
    BY <1>1, <1>4
  <2> QED
    BY <1>3, <1>4, <2>1, EndsLemma DEF X!Outcome, Result, Ended
<1>5. CASE r \in X!Error /\ X!Ends({})
  <2>1. out = X!Outcome("aborted", X!Retried(r))
    BY <1>1, <1>5 DEF X!Error
  <2> QED
    BY <1>2, <1>5, <2>1, EndsLemma DEF X!Outcome, Result, Ended
<1>6. CASE X!Broken(r, w)
  <2>1. out = X!Outcome("in_doubt", FALSE)
    BY <1>1, <1>6 DEF X!Broken
  <2>2. Forward /\ SessionSound' /\ Gone /\ db' \in {db, db \cup w}
    BY <1>3, <1>6, BrokenLemma
  <2> QED
    BY <1>3, <2>1, <2>2 DEF X!Outcome, Result, Ended, Gone
<1> QED
  BY <1>1, <1>4, <1>5, <1>6 DEF X!Commits, w

LEMMA LostLemma ==
  ASSUME SessionSound, NEW w \in SUBSET X!WriteId, X!Lost(w), w \subseteq unc, backend = "failed" => w = {}
  PROVE  Ended /\ db' \in {db, db \cup w}
BY DEF X!Lost, SessionSound, SessionTyped, Forward, Ended

LEMMA RobustCommitLemma ==
  ASSUME SessionSound, NEW out, X!RobustCommit(out)
  PROVE  Result(out)
<1>1. unc \in SUBSET X!WriteId /\ {} \in SUBSET X!WriteId /\ {} \subseteq unc /\ unc \subseteq unc
  BY DEF SessionSound, SessionTyped
<1>2. ASSUME NEW r \in X!Answer \ {"ok"}, r = "broken" => X!Lost({}), r # "broken" => X!Ends({}) \/ X!Lost({}),
             out \in {X!Outcome("aborted", X!Retried(r)), X!Outcome("aborted", TRUE)}
      PROVE  Result(out)
  <2>1. Ended /\ db' = db
    BY <1>1, <1>2, EndsLemma, LostLemma DEF Ended
  <2>2. out.status = "aborted"
    BY <1>2 DEF X!Outcome
  <2> QED
    BY <2>1, <2>2 DEF Result
<1>3. CASE backend # "failed" /\ X!Ends(unc) /\ out = X!Outcome("committed", FALSE)
  <2>1. Ended /\ db' = db \cup unc
    BY <1>1, <1>3, EndsLemma DEF Ended
  <2> QED
    BY <1>3, <2>1 DEF X!Outcome, Result
<1>4. CASE /\ backend # "failed" /\ X!Lost(unc)
           /\ \/ out = X!Outcome("in_doubt", FALSE)
              \/ db' = db \cup unc /\ out = X!Outcome("committed", FALSE)
              \/ out = X!Outcome("unasked", FALSE)
  <2>1. Ended /\ db' \in {db, db \cup unc}
    BY <1>1, <1>4, LostLemma
  <2> QED
    BY <1>4, <2>1 DEF X!Outcome, Result
<1> QED
  BY <1>2, <1>3, <1>4 DEF X!RobustCommit

\* The object whose commit has come out as out.
Committed(R, out) ==
  [R EXCEPT !.status = IF out.status = "unasked" THEN "aborted" ELSE out.status,
            !.failed = @ \/ out.status = "aborted",
            !.retry = out.retry,
            !.excuse = IF out.status = "unasked" THEN @ \cup {"query"} ELSE @]

AnyOutcome == [status : {"committed", "aborted", "in_doubt", "unasked"}, retry : BOOLEAN]

LEMMA CommittedLemma ==
  ASSUME NEW R \in Record, NEW out \in AnyOutcome
  PROVE  LET C == Committed(R, out) IN
         /\ C \in Record
         /\ C.kind = R.kind /\ C.alive = R.alive /\ C.writes = R.writes /\ C.retry = out.retry
         /\ C.status = IF out.status = "unasked" THEN "aborted" ELSE out.status
         /\ C.status # "active"
         /\ R.failed => C.failed
         /\ C.excuse = IF out.status = "unasked" THEN R.excuse \cup {"query"} ELSE R.excuse
<1>1. /\ out.status \in {"committed", "aborted", "in_doubt", "unasked"} /\ out.retry \in BOOLEAN
      /\ R.failed \in BOOLEAN /\ R.excuse \in SUBSET Excuse /\ R.status \in Status
  BY DEF AnyOutcome, Record
<1>2. CASE out.status = "unasked"
  <2>1. Committed(R, out) = [R EXCEPT !.status = "aborted", !.failed = R.failed, !.retry = out.retry,
                                      !.excuse = R.excuse \cup {"query"}]
    BY <1>1, <1>2 DEF Committed, Record
  <2> QED
    BY <1>1, <1>2, <2>1 DEF Record, Status, Excuse
<1>3. CASE out.status = "aborted"
  <2>1. Committed(R, out) = [R EXCEPT !.status = "aborted", !.failed = TRUE, !.retry = out.retry]
    BY <1>1, <1>3 DEF Committed, Record
  <2> QED
    BY <1>1, <1>3, <2>1 DEF Record, Status
<1>4. CASE out.status \in {"committed", "in_doubt"}
  <2>1. Committed(R, out) = [R EXCEPT !.status = out.status, !.failed = R.failed, !.retry = out.retry]
    BY <1>1, <1>4 DEF Committed, Record
  <2> QED
    BY <1>1, <1>4, <2>1 DEF Record, Status
<1> QED
  BY <1>1, <1>2, <1>3, <1>4

\* A call after which o is over, or was before: what it leaves of o is C.
LEMMA MainEnd ==
  ASSUME IInv, Bounds, NEW o \in X!Main, X!Usable(o), Forward, SessionSound', UNCHANGED next,
         unc' \cup db' \subseteq unc \cup db,
         NEW C \in Record, tx' = [tx EXCEPT ![o] = C],
         C.kind = tx[o].kind, C.writes = tx[o].writes, C.status # "active",
         trans' = trans \/ trans' = X!NoTx, trans' = trans => trans # o \/ C.alive,
         backend' # "idle" => "rollback" \in C.excuse
                              \/ (backend # "idle" /\ ~OpenDb(o) /\ tx[o].excuse \subseteq C.excuse),
         Done(o)'
  PROVE  IInv'
<1>1. o \in X!Tx /\ tx'[o] = C /\ \A p \in X!Tx \ {o} : tx'[p] = tx[p]
  BY Names, TypeAs DEF IInv
<1>2. tx' \in [X!Tx -> Record]
  BY TypeAs DEF IInv
<1>3. X!TypeOK'
  BY <1>2, TypeLater, TypeAs DEF IInv, SessionSound
<1>4. Session'
  <2>1. \A p \in X!Tx : tx'[p].writes = tx[p].writes
    BY <1>1
  <2>2. next' \in 1..MaxWrites + 1 /\ next <= next'
    BY TypeAs DEF IInv, Bounds
  <2> QED
    BY <2>1, <2>2, SessionLater
<1>5. Doing(o)'
  BY <1>1 DEF Doing, OpenDb, X!Active
<1> QED
  BY <1>1, <1>3, <1>4, <1>5, MainStep DEF X!Usable

LEMMA MainCommit ==
  ASSUME IInv, Bounds, NEW o \in X!Main, X!Commit(o)
  PROVE  IInv'
<1>1. CASE tx[o].pending
  BY <1>1, MainPending DEF X!Commit
<1>2. CASE ~tx[o].pending
  <2>1. /\ X!Usable(o) /\ X!Active(o) /\ up /\ UNCHANGED next /\ o \in X!Tx /\ o # X!Sub
    BY <1>2, Names DEF X!Commit
  <2>2. PICK out \in AnyOutcome :
          /\ X!DoCommit(tx[o].kind, out)
          /\ tx' = [X!Handed(o, out) EXCEPT
                      ![o].status = IF out.status = "unasked" THEN "aborted" ELSE out.status,
                      ![o].failed = @ \/ out.status = "aborted",
                      ![o].retry = out.retry,
                      ![o].excuse = IF out.status = "unasked" THEN @ \cup {"query"} ELSE @]
          /\ trans' = IF out.status = "committed" THEN X!Unregistered(o) ELSE trans
    BY <1>2 DEF X!Commit, AnyOutcome
  <2>3. X!Handed(o, out) = tx
    BY <2>1, TypeAs DEF X!Handed, IInv
  <2> DEFINE C == Committed(tx[o], out)
  <2>4. tx' = [tx EXCEPT ![o] = C]
    BY <2>1, <2>2, <2>3, TypeAs DEF IInv, Committed, Record
  <2>5. tx[o] \in Record
    BY <2>1, TypeAs DEF IInv
  <2>6. /\ C \in Record
        /\ C.kind = tx[o].kind /\ C.alive = tx[o].alive /\ C.writes = tx[o].writes
        /\ C.retry = out.retry
        /\ C.status = IF out.status = "unasked" THEN "aborted" ELSE out.status
        /\ C.status # "active"
        /\ tx[o].failed => C.failed
        /\ C.excuse = IF out.status = "unasked" THEN tx[o].excuse \cup {"query"} ELSE tx[o].excuse
    BY <2>5, CommittedLemma
  <2> HIDE DEF C
  <2>7. trans' = trans \/ trans' = X!NoTx
    BY <2>2 DEF X!Unregistered
  <2>8. C.alive
    BY <2>1, <2>6 DEF X!Usable
  <2>9. tx'[o] = C /\ tx'[X!Sub] = tx[X!Sub] /\ ~X!Active(X!Sub)
    BY <2>1, <2>4, TypeAs, Names DEF IInv, X!Usable, X!Active
  <2>10. tx[o].kind \in {"work", "robust", "non"}
    BY <2>1, <2>5, Names DEF IInv, Objects, X!Usable, Record, Kind
  <2>11. CASE tx[o].kind = "non"
    <3>1. UNCHANGED X!sessionVars
      BY <2>2, <2>11 DEF X!DoCommit
    <3>2. Forward /\ SessionSound' /\ unc' \cup db' \subseteq unc \cup db /\ backend' = backend
      BY <3>1, SessionNow, QuietLemma DEF X!sessionVars
    <3>3. ~OpenDb(o) /\ Done(o)' /\ tx[o].excuse \subseteq C.excuse
      BY <2>6, <2>9, <2>11 DEF OpenDb, Done, X!Promised
    <3> QED
      BY <2>1, <2>4, <2>6, <2>7, <2>8, <3>2, <3>3, MainEnd
  <2>12. CASE tx[o].kind \in {"work", "robust"}
    <3>1. Result(out)
      BY <2>1, <2>2, <2>12, SessionNow, BasicCommitLemma, RobustCommitLemma DEF X!DoCommit
    <3>2. /\ tx[o].excuse = {} /\ tx[o].writes \cap db = {}
          /\ backend # "idle"
          /\ backend = "open" => tx[o].writes \subseteq unc
          /\ backend = "failed" => tx[o].failed \/ tx[X!Sub].excuse # {}
      BY <2>1, <2>9, <2>12 DEF IInv, Doing, OpenDb
    <3>3. backend \in {"open", "failed"}
      BY <3>2, SessionNow DEF SessionTyped
    <3>4. ASSUME out.status # "unasked" PROVE Settled(o)'
      <4>1. CASE out.status = "committed"
        <5>1. CASE backend = "open"
          BY <2>6, <2>9, <3>1, <3>2, <4>1, <5>1 DEF Result, Settled
        <5>2. CASE backend = "failed"
          BY <2>6, <2>9, <3>1, <3>2, <4>1, <5>2 DEF Result, Settled
        <5> QED
          BY <3>3, <5>1, <5>2
      <4>2. CASE out.status = "in_doubt"
        <5>1. db' = db \/ (db' = db \cup unc /\ backend = "open")
          BY <3>1, <3>3, <4>2 DEF Result
        <5> QED
          BY <2>6, <2>9, <3>2, <4>2, <5>1 DEF Settled
      <4>3. CASE out.status = "aborted"
        BY <2>6, <2>9, <3>1, <3>2, <4>3 DEF Result, Settled
      <4> QED
        BY <3>4, <4>1, <4>2, <4>3 DEF AnyOutcome
    <3>5. Done(o)'
      BY <2>6, <2>9, <3>1, <3>4 DEF Result, Ended, Done, X!Promised
    <3> QED
      BY <2>1, <2>4, <2>6, <2>7, <2>8, <3>1, <3>5, MainEnd DEF Result, Ended
  <2> QED
    BY <2>10, <2>11, <2>12
<1> QED
  BY <1>1, <1>2

\* An object that was open, and whose transaction the server has rolled back.
LEMMA MainRolledBack ==
  ASSUME IInv, Bounds, NEW o \in X!Main, X!Usable(o), X!Active(o), UNCHANGED next, NEW C \in Record,
         tx' = [tx EXCEPT ![o] = C],
         C.kind = tx[o].kind, C.writes = tx[o].writes, C.excuse = tx[o].excuse,
         C.status = "aborted",
         trans' = X!Unregistered(o), X!RollbackCommand(o)
  PROVE  IInv'
<1>1. tx'[o] = C /\ tx[o] \in Record /\ tx[o].kind # "sub"
  BY Names, TypeAs DEF IInv, Objects
<1>2. (trans' = trans \/ trans' = X!NoTx) /\ (trans' = trans => trans # o)
  BY Names DEF X!Unregistered
<1>3. CASE tx[o].kind = "non"
  <2>1. UNCHANGED X!sessionVars
    BY <1>3 DEF X!RollbackCommand
  <2>2. Forward /\ SessionSound' /\ unc' \cup db' \subseteq unc \cup db /\ backend' = backend
    BY <2>1, SessionNow, QuietLemma DEF X!sessionVars
  <2>3. ~OpenDb(o) /\ Done(o)'
    BY <1>1, <1>3 DEF OpenDb, Done, X!Promised
  <2> QED
    BY <1>2, <2>2, <2>3, MainEnd
<1>4. CASE tx[o].kind # "non"
  <2>1. Ended /\ db' = db
    <3>1. PICK r \in X!Answer : X!RollsBack(r)
      BY <1>1, <1>4, Zenon DEF X!RollbackCommand
    <3> QED
      BY <3>1, SessionNow, RolledBack
  <2>2. Done(o)'
    <3> SUFFICES ASSUME tx[o].kind \in {"work", "robust"} PROVE Done(o)'
      BY <1>1 DEF Done, X!Promised
    <3>1. tx[o].writes \cap db = {}
      BY DEF IInv, Doing, OpenDb
    <3> QED
      BY <1>1, <2>1, <3>1 DEF Done, Settled, Ended
  <2> QED
    BY <1>2, <2>1, <2>2, MainEnd DEF Ended
<1> QED
  BY <1>3, <1>4

LEMMA MainAbort ==
  ASSUME IInv, Bounds, NEW o \in X!Main, X!Abort(o)
  PROVE  IInv'
<1>1. X!Usable(o) /\ X!Active(o) /\ UNCHANGED next /\ trans' = X!Unregistered(o) /\ tx[o] \in Record
  BY Names, TypeAs DEF X!Abort, IInv
<1>2. CASE tx[o].pending /\ tx[o].kind # "non"
  <2> DEFINE C == [tx[o] EXCEPT !.status = "aborted", !.pending = FALSE, !.excuse = @ \cup {"rollback"}]
  <2>1. UNCHANGED X!sessionVars /\ tx' = [tx EXCEPT ![o] = C]
    BY <1>2, TypeAs, Names DEF X!Abort, IInv
  <2>2. /\ C \in Record /\ C.kind = tx[o].kind /\ C.writes = tx[o].writes /\ C.status = "aborted"
        /\ "rollback" \in C.excuse
    BY <1>1 DEF Record, Status, Excuse
  <2> HIDE DEF C
  <2>3. Forward /\ SessionSound' /\ unc' \cup db' \subseteq unc \cup db
    BY <2>1, SessionNow, QuietLemma DEF X!sessionVars
  <2>4. Done(o)'
    <3>1. tx'[o] = C
      BY <2>1, TypeAs, Names DEF IInv
    <3> QED
      BY <2>2, <3>1 DEF Done, X!Promised
  <2>5. (trans' = trans \/ trans' = X!NoTx) /\ (trans' = trans => trans # o)
    BY <1>1, Names DEF X!Unregistered
  <2> QED
    BY <1>1, <2>1, <2>2, <2>3, <2>4, <2>5, MainEnd
<1>3. CASE ~(tx[o].pending /\ tx[o].kind # "non")
  <2> DEFINE C == [tx[o] EXCEPT !.status = "aborted", !.pending = FALSE]
  <2>1. X!RollbackCommand(o) /\ tx' = [tx EXCEPT ![o] = C]
    BY <1>3, TypeAs, Names DEF X!Abort, IInv
  <2>2. /\ C \in Record /\ C.kind = tx[o].kind /\ C.writes = tx[o].writes /\ C.status = "aborted"
        /\ C.excuse = tx[o].excuse
    BY <1>1 DEF Record, Status
  <2> HIDE DEF C
  <2> QED
    BY <1>1, <2>1, <2>2, MainRolledBack
<1> QED
  BY <1>2, <1>3

LEMMA MainDestroy ==
  ASSUME IInv, Bounds, NEW o \in X!Main, X!Destroy(o)
  PROVE  IInv'
<1>1. X!Usable(o) /\ UNCHANGED next /\ trans' = X!Unregistered(o) /\ tx[o] \in Record
  BY Names, TypeAs DEF X!Destroy, IInv
<1> DEFINE C == [tx[o] EXCEPT !.alive = FALSE, !.pending = FALSE,
                              !.status = IF @ = "active" THEN "aborted" ELSE @]
<1>2. tx' = [tx EXCEPT ![o] = C]
  BY TypeAs, Names DEF X!Destroy, IInv
<1>3. /\ C \in Record /\ C.kind = tx[o].kind /\ C.writes = tx[o].writes /\ C.excuse = tx[o].excuse
      /\ C.status = IF tx[o].status = "active" THEN "aborted" ELSE tx[o].status
      /\ C.failed = tx[o].failed /\ C.retry = tx[o].retry
  BY <1>1 DEF Record, Status
<1> HIDE DEF C
<1>4. CASE X!Active(o)
  BY <1>1, <1>2, <1>3, <1>4, MainRolledBack DEF X!Destroy, X!Active
<1>5. CASE ~X!Active(o)
  <2>1. UNCHANGED X!sessionVars
    BY <1>5 DEF X!Destroy
  <2>2. Forward /\ SessionSound' /\ unc' \cup db' \subseteq unc \cup db /\ backend' = backend
    BY <2>1, SessionNow, QuietLemma DEF X!sessionVars
  <2>3. (trans' = trans \/ trans' = X!NoTx) /\ (trans' = trans => trans # o)
    BY <1>1, Names DEF X!Unregistered
  <2>4. ~OpenDb(o) /\ C.status = tx[o].status /\ C.status # "active"
    BY <1>1, <1>3, <1>5 DEF OpenDb, X!Active, X!Usable
  <2>5. tx'[o] = C /\ tx'[X!Sub] = tx[X!Sub]
    BY <1>2, TypeAs, Names DEF IInv
  <2>6. Done(o)'
    <3>1. Done(o)
      BY DEF IInv
    <3> QED
      BY <1>3, <1>5, <2>1, <2>4, <2>5, <3>1 DEF Done, Settled, X!Promised, X!sessionVars
  <2> QED
    BY <1>1, <1>2, <1>3, <2>2, <2>3, <2>4, <2>6, MainEnd
<1> QED
  BY <1>4, <1>5

-----------------------------------------------------------------------------
(* The calls of the subtransaction.                                        *)

LEMMA SubStep ==
  ASSUME IInv, Bounds, X!Usable(X!Sub), X!TypeOK', Session', UNCHANGED trans,
         Forward \/ (unc' \subseteq unc /\ db' = db),
         backend' # "idle" => backend # "idle",
         tx'[X!Sub].kind = tx[X!Sub].kind, tx[X!Sub].excuse \subseteq tx'[X!Sub].excuse,
         \A t \in X!Main : /\ tx'[t].kind = tx[t].kind /\ tx'[t].alive = tx[t].alive
                           /\ tx'[t].status = tx[t].status /\ tx'[t].excuse = tx[t].excuse
                           /\ ~X!Active(t) => tx'[t] = tx[t]
                           /\ OpenDb(t) => Doing(t)',
         SubDoing', SubDone'
  PROVE  IInv'
<1>1. \A t \in X!Main : (OpenDb(t)' <=> OpenDb(t)) /\ (X!Active(t)' <=> X!Active(t))
  BY DEF OpenDb, X!Active
<1>2. tx[X!Sub].alive
  BY DEF X!Usable
<1>3. Objects'
  BY <1>1, <1>2, TypeAs DEF IInv, Objects
<1>4. Owned'
  BY <1>1 DEF IInv, Owned, Left
<1>5. ASSUME NEW t \in X!Main PROVE Doing(t)' /\ Done(t)'
  <2>1. Doing(t)'
    BY <1>1 DEF Doing
  <2>2. CASE X!Active(t)
    BY <1>1, <2>1, <2>2 DEF Done
  <2>3. CASE ~X!Active(t)
    BY <2>1, <2>3, DoneStays
  <2> QED
    BY <2>2, <2>3
<1> QED
  BY <1>3, <1>4, <1>5 DEF IInv

\* What keeps the parent's promises, when the parent itself is left alone.
ParentSafe ==
  /\ db' = db
  /\ up' => backend' # "idle"
  /\ backend' = "open" => \/ backend = "open" /\ unc \subseteq unc'
                          \/ up /\ X!Active(X!Sub) /\ save \subseteq unc'
  /\ up' /\ X!Active(X!Sub)' => up /\ X!Active(X!Sub) /\ save' = save
  /\ backend' = "failed" => \/ X!Active(X!Sub)' \/ tx'[X!Sub].excuse # {}
                            \/ backend = "failed" /\ ~X!Active(X!Sub) /\ tx[X!Sub].excuse = {}

LEMMA ParentLemma ==
  ASSUME IInv, ParentSafe, NEW t \in X!Main, OpenDb(t), tx'[t] = tx[t]
  PROVE  Doing(t)'
<1>1. /\ tx[t].excuse = {} /\ tx[t].writes \cap db = {}
      /\ backend = "open" => tx[t].writes \subseteq unc
      /\ up /\ X!Active(X!Sub) => tx[t].writes \subseteq save
      /\ backend = "failed" => tx[t].failed \/ tx[X!Sub].excuse # {} \/ X!Active(X!Sub)
  BY DEF IInv, Doing
<1>2. backend' = "open" => tx[t].writes \subseteq unc'
  BY <1>1 DEF ParentSafe
<1>3. backend' = "failed" => tx[t].failed \/ tx'[X!Sub].excuse # {} \/ X!Active(X!Sub)'
  BY <1>1 DEF ParentSafe
<1> QED
  BY <1>1, <1>2, <1>3 DEF ParentSafe, Doing

\* A call that only changes the object Sub and the session.
LEMMA SubAlone ==
  ASSUME IInv, Bounds, X!Usable(X!Sub), SessionSound', Session', next' \in 1..MaxWrites + 1,
         UNCHANGED trans, Forward \/ unc' \subseteq unc, backend' # "idle" => backend # "idle",
         NEW C \in Record, tx' = [tx EXCEPT ![X!Sub] = C],
         C.kind = tx[X!Sub].kind, tx[X!Sub].excuse \subseteq C.excuse,
         ParentSafe, SubDoing', SubDone'
  PROVE  IInv'
<1>1. tx'[X!Sub] = C /\ tx' \in [X!Tx -> Record] /\ \A t \in X!Main : tx'[t] = tx[t]
  BY Names, TypeAs DEF IInv
<1>2. X!TypeOK'
  BY <1>1, TypeLater, TypeAs DEF IInv, SessionSound
<1>3. \A t \in X!Main : OpenDb(t) => Doing(t)'
  BY <1>1, ParentLemma
<1>4. db' = db
  BY DEF ParentSafe
<1> QED
  BY <1>1, <1>2, <1>3, <1>4, SubStep

\* While a subtransaction lives, its parent is open.
LEMMA SubParent ==
  ASSUME IInv, X!Usable(X!Sub)
  PROVE  /\ tx[X!Sub] \in Record /\ tx[X!Sub].kind = "sub"
         /\ up => backend # "idle"
         /\ ~up => backend = "idle" /\ unc = {} /\ save = {}
<1>1. tx[X!Sub].alive /\ X!Sub \in X!Tx
  BY DEF X!Usable, X!Tx
<1>2. PICK t \in X!Main : OpenDb(t)
  BY <1>1 DEF IInv, Objects
<1> QED
  BY <1>1, <1>2, TypeAs DEF IInv, Objects, Doing, Session

\* A call that leaves the session alone, and of Sub what matters.
LEMMA SubQuiet ==
  ASSUME IInv, Bounds, X!Usable(X!Sub), UNCHANGED <<trans, next, X!sessionVars>>,
         NEW C \in Record, tx' = [tx EXCEPT ![X!Sub] = C],
         C.kind = tx[X!Sub].kind, C.writes = tx[X!Sub].writes,
         \/ /\ C.alive = tx[X!Sub].alive /\ C.status = tx[X!Sub].status /\ C.excuse = tx[X!Sub].excuse
         \/ /\ ~X!Active(X!Sub) /\ ~C.alive /\ C.status = tx[X!Sub].status /\ C.excuse = tx[X!Sub].excuse
         \/ C.status = "aborted" /\ tx[X!Sub].excuse \subseteq C.excuse /\ C.excuse # {}
  PROVE  IInv'
<1>1. tx'[X!Sub] = C /\ \A o \in X!Tx : tx'[o].writes = tx[o].writes
  BY Names, TypeAs DEF IInv
<1>2. Forward /\ SessionSound'
  BY SessionNow, QuietLemma
<1>3. next' \in 1..MaxWrites + 1 /\ next <= next'
  BY TypeAs DEF IInv, Bounds
<1>4. Session'
  BY <1>1, <1>2, <1>3, SessionLater DEF X!sessionVars
<1>5. ParentSafe
  BY <1>1, SubParent DEF ParentSafe, X!sessionVars, X!Active
<1>6. SubDoing' /\ SubDone'
  BY <1>1 DEF IInv, SubDoing, SubDone, X!sessionVars, X!Active
<1> QED
  BY <1>2, <1>3, <1>4, <1>5, <1>6, SubAlone DEF X!sessionVars

LEMMA SubPending ==
  ASSUME IInv, Bounds, X!Usable(X!Sub), UNCHANGED <<trans, next, X!sessionVars>>,
         tx' = [tx EXCEPT ![X!Sub].pending = FALSE, ![X!Sub].failed = TRUE, ![X!Sub].retry = FALSE]
  PROVE  IInv'
<1> DEFINE C == [tx[X!Sub] EXCEPT !.pending = FALSE, !.failed = TRUE, !.retry = FALSE]
<1>1. tx' = [tx EXCEPT ![X!Sub] = C]
  BY Names, TypeAs DEF IInv
<1>2. /\ C \in Record /\ C.kind = tx[X!Sub].kind /\ C.writes = tx[X!Sub].writes
      /\ C.alive = tx[X!Sub].alive /\ C.status = tx[X!Sub].status /\ C.excuse = tx[X!Sub].excuse
  BY SubParent DEF Record
<1> HIDE DEF C
<1> QED
  BY <1>1, <1>2, SubQuiet

LEMMA SubFocus ==
  ASSUME IInv, Bounds, X!OpenFocus(X!Sub) \/ X!CloseFocus(X!Sub)
  PROVE  IInv'
<1>1. X!Usable(X!Sub) /\ UNCHANGED <<trans, next, X!sessionVars>>
  BY DEF X!OpenFocus, X!CloseFocus
<1>2. CASE X!OpenFocus(X!Sub)
  <2> DEFINE C == [tx[X!Sub] EXCEPT !.focus = TRUE]
  <2>1. tx' = [tx EXCEPT ![X!Sub] = C]
    BY <1>2, Names, TypeAs DEF IInv, X!OpenFocus
  <2>2. /\ C \in Record /\ C.kind = tx[X!Sub].kind /\ C.writes = tx[X!Sub].writes
        /\ C.alive = tx[X!Sub].alive /\ C.status = tx[X!Sub].status /\ C.excuse = tx[X!Sub].excuse
    BY <1>1, SubParent DEF Record
  <2> HIDE DEF C
  <2> QED
    BY <1>1, <2>1, <2>2, SubQuiet
<1>3. CASE X!CloseFocus(X!Sub)
  <2>1. PICK e \in BOOLEAN : tx' = [tx EXCEPT ![X!Sub].focus = FALSE, ![X!Sub].pending = @ \/ e]
    BY <1>3 DEF X!CloseFocus
  <2>2. PICK d \in BOOLEAN : tx' = [tx EXCEPT ![X!Sub].focus = FALSE, ![X!Sub].pending = d]
    <3>1. CASE e
      BY <2>1, <3>1, Names, TypeAs DEF IInv, Record
    <3>2. CASE ~e
      <4>1. tx' = [tx EXCEPT ![X!Sub].focus = FALSE, ![X!Sub].pending = tx[X!Sub].pending]
        BY <2>1, <3>2, Names, TypeAs DEF IInv, Record
      <4> QED
        BY <1>1, <4>1, SubParent DEF Record
    <3> QED
      BY <3>1, <3>2
  <2> DEFINE C == [tx[X!Sub] EXCEPT !.focus = FALSE, !.pending = d]
  <2>3. tx' = [tx EXCEPT ![X!Sub] = C]
    BY <2>2, Names, TypeAs DEF IInv
  <2>4. /\ C \in Record /\ C.kind = tx[X!Sub].kind /\ C.writes = tx[X!Sub].writes
        /\ C.alive = tx[X!Sub].alive /\ C.status = tx[X!Sub].status /\ C.excuse = tx[X!Sub].excuse
    BY <1>1, SubParent DEF Record
  <2> HIDE DEF C
  <2> QED
    BY <1>1, <2>3, <2>4, SubQuiet
<1> QED
  BY <1>2, <1>3

\* What a statement does while a subtransaction lives: the server has a
\* transaction, or the connection is gone.
LEMMA SubWrites ==
  ASSUME IInv, Bounds, X!Usable(X!Sub), NEW r, next \in X!WriteId, X!Writes(next, r)
  PROVE  /\ Forward /\ SessionSound' /\ db' = db
         /\ backend' # "idle" => backend # "idle"
         /\ \/ /\ r = "ok" /\ up /\ up' /\ backend = "open" /\ backend' = "open"
               /\ hasSave' = hasSave /\ save' = save /\ unc' = unc \cup {next}
            \/ /\ r # "ok" /\ up /\ up' /\ backend' = "failed"
               /\ hasSave' = hasSave /\ save' = save /\ unc' = unc
            \/ r # "ok" /\ Gone
<1>1. (up => backend # "idle") /\ (~up => backend = "idle")
  BY SubParent
<1>2. backend \in {"idle", "open", "failed"}
  BY SessionNow DEF SessionTyped
<1>3. CASE r = "ok"
  BY <1>1, <1>2, <1>3, SessionNow, WritesLemma
<1>4. CASE r # "ok"
  <2>1. /\ Forward /\ SessionSound'
        /\ \/ /\ up /\ up' /\ db' = db /\ unc' = unc /\ save' = save /\ hasSave' = hasSave
              /\ backend' = IF backend = "idle" THEN "idle" ELSE "failed"
           \/ Gone /\ (~up \/ backend # "idle" => db' = db)
    BY <1>4, SessionNow, WritesLemma
  <2>2. CASE Gone /\ (~up \/ backend # "idle" => db' = db)
    BY <1>1, <1>4, <2>1, <2>2 DEF Gone
  <2>3. CASE /\ up /\ up' /\ db' = db /\ unc' = unc /\ save' = save /\ hasSave' = hasSave
             /\ backend' = IF backend = "idle" THEN "idle" ELSE "failed"
    BY <1>1, <1>4, <2>1, <2>3
  <2> QED
    BY <2>1, <2>2, <2>3
<1> QED
  BY <1>3, <1>4

LEMMA SubStatement ==
  ASSUME IInv, Bounds, X!Usable(X!Sub), X!Active(X!Sub), next \in X!WriteId, next' = next + 1,
         UNCHANGED trans, NEW r, X!Writes(next, r), tx' = X!Reported(X!Sub, r)
  PROVE  IInv'
<1>1. /\ tx' \in [X!Tx -> Record]
      /\ \A p \in X!Tx \ {X!Sub} : tx'[p] = tx[p]
      /\ tx'[X!Sub].kind = tx[X!Sub].kind /\ tx'[X!Sub].alive = tx[X!Sub].alive
      /\ tx'[X!Sub].status = tx[X!Sub].status
      /\ tx'[X!Sub].writes = IF r = "ok" THEN tx[X!Sub].writes \cup {next} ELSE tx[X!Sub].writes
      /\ tx'[X!Sub].excuse = tx[X!Sub].excuse
  BY Names, ReportedLemma
<1>2. /\ Forward /\ SessionSound' /\ db' = db
      /\ backend' # "idle" => backend # "idle"
      /\ \/ /\ r = "ok" /\ up /\ up' /\ backend = "open" /\ backend' = "open"
            /\ hasSave' = hasSave /\ save' = save /\ unc' = unc \cup {next}
         \/ /\ r # "ok" /\ up /\ up' /\ backend' = "failed"
            /\ hasSave' = hasSave /\ save' = save /\ unc' = unc
         \/ r # "ok" /\ Gone
  BY SubWrites
<1>3. Session'
  <2>1. \A p \in X!Tx : tx'[p].writes \subseteq tx[p].writes \cup {next}
    BY <1>1
  <2> QED
    BY <2>1, WritesNumbered
<1>4. X!Active(X!Sub)'
  BY <1>1 DEF X!Active
<1>5. ParentSafe
  BY <1>2, <1>4 DEF ParentSafe, Gone
<1>6. next \notin db \cup save
  BY TypeAs DEF IInv, Session, Bounds
<1>7. SubDoing'
  <2>1. /\ tx[X!Sub].excuse = {} /\ tx[X!Sub].writes \cap (db \cup save) = {}
        /\ up => hasSave
        /\ backend = "open" => tx[X!Sub].writes \subseteq unc
    BY DEF IInv, SubDoing
  <2> QED
    BY <1>1, <1>2, <1>6, <2>1 DEF SubDoing, Gone
<1>8. SubDone'
  BY <1>4 DEF SubDone
<1>9. tx' = [tx EXCEPT ![X!Sub] = tx'[X!Sub]] /\ tx'[X!Sub] \in Record
  BY <1>1, Names, TypeAs DEF IInv
<1>10. next' \in 1..MaxWrites + 1
  BY Names
<1> QED
  BY <1>1, <1>2, <1>3, <1>5, <1>7, <1>8, <1>9, <1>10, SubAlone

LEMMA SubStray ==
  ASSUME IInv, Bounds, X!Usable(X!Sub), ~X!Active(X!Sub), next \in X!WriteId, next' = next + 1,
         UNCHANGED trans, NEW r, X!Writes(next, r),
         tx' = [tx EXCEPT ![X!Sub].excuse = @ \cup {"stray"}]
  PROVE  IInv'
<1> DEFINE C == [tx[X!Sub] EXCEPT !.excuse = @ \cup {"stray"}]
<1>1. tx' = [tx EXCEPT ![X!Sub] = C]
  BY Names, TypeAs DEF IInv
<1>2. /\ C \in Record /\ C.kind = tx[X!Sub].kind /\ C.writes = tx[X!Sub].writes
      /\ C.alive = tx[X!Sub].alive /\ C.status = tx[X!Sub].status
      /\ C.excuse = tx[X!Sub].excuse \cup {"stray"}
  BY SubParent DEF Record, Excuse
<1> HIDE DEF C
<1>3. tx'[X!Sub] = C /\ \A p \in X!Tx : tx'[p].writes \subseteq tx[p].writes \cup {next}
  BY <1>1, <1>2, Names, TypeAs DEF IInv
<1>4. Session'
  BY <1>3, WritesNumbered
<1>5. /\ Forward /\ SessionSound' /\ db' = db
      /\ backend' # "idle" => backend # "idle"
      /\ \/ /\ r = "ok" /\ up /\ up' /\ backend = "open" /\ backend' = "open"
            /\ hasSave' = hasSave /\ save' = save /\ unc' = unc \cup {next}
         \/ /\ r # "ok" /\ up /\ up' /\ backend' = "failed"
            /\ hasSave' = hasSave /\ save' = save /\ unc' = unc
         \/ r # "ok" /\ Gone
  BY SubWrites
<1>6. ~X!Active(X!Sub)' /\ tx'[X!Sub].excuse # {}
  BY <1>2, <1>3 DEF X!Active
<1>7. ParentSafe /\ SubDoing' /\ SubDone'
  BY <1>5, <1>6 DEF ParentSafe, SubDoing, SubDone, Gone
<1>8. next' \in 1..MaxWrites + 1
  BY Names
<1> QED
  BY <1>1, <1>2, <1>4, <1>5, <1>7, <1>8, SubAlone

\* The savepoint is still there for an active subtransaction.
LEMMA RollsBackToLemma ==
  ASSUME SessionSound, up => hasSave, NEW r, X!RollsBackTo(r)
  PROVE  /\ SessionSound' /\ db' = db /\ unc' \subseteq unc
         /\ (up /\ up' /\ backend' = "open" /\ unc' = save) \/ Gone
<1>1. CASE X!Broken(r, {})
  BY <1>1, BrokenLemma DEF SessionSound, SessionTyped, Gone
<1>2. CASE ~X!Broken(r, {})
  BY <1>2 DEF X!RollsBackTo, X!Fails, SessionSound, SessionTyped
<1> QED
  BY <1>1, <1>2

\* An active subtransaction ends by a return to its savepoint.
LEMMA SubRolledBack ==
  ASSUME IInv, Bounds, X!Usable(X!Sub), X!Active(X!Sub), UNCHANGED <<trans, next>>,
         NEW r, X!RollsBackTo(r), NEW C \in Record, tx' = [tx EXCEPT ![X!Sub] = C],
         C.kind = tx[X!Sub].kind, C.writes = tx[X!Sub].writes, C.excuse = tx[X!Sub].excuse,
         C.status = "aborted"
  PROVE  IInv'
<1>1. tx'[X!Sub] = C /\ \A o \in X!Tx : tx'[o].writes = tx[o].writes
  BY Names, TypeAs DEF IInv
<1>2. /\ tx[X!Sub].excuse = {} /\ tx[X!Sub].writes \cap (db \cup save) = {}
      /\ up => hasSave
  BY DEF IInv, SubDoing
<1>3. /\ SessionSound' /\ db' = db /\ unc' \subseteq unc
      /\ (up /\ up' /\ backend' = "open" /\ unc' = save) \/ Gone
  BY <1>2, SessionNow, RollsBackToLemma
<1>4. next' \in 1..MaxWrites + 1 /\ next <= next'
  BY TypeAs DEF IInv, Bounds
<1>5. Session'
  BY <1>1, <1>3, <1>4, SessionLater
<1>6. ~X!Active(X!Sub)'
  BY <1>1 DEF X!Active
<1>7. ParentSafe
  BY <1>3, <1>6 DEF ParentSafe, Gone
<1>8. SubDoing' /\ SubDone'
  BY <1>1, <1>2, <1>3, <1>6 DEF SubDoing, SubDone, Gone
<1>9. backend' # "idle" => backend # "idle"
  BY <1>3, SubParent DEF Gone
<1> QED
  BY <1>3, <1>4, <1>5, <1>7, <1>8, <1>9, SubAlone

LEMMA SubAbort ==
  ASSUME IInv, Bounds, X!Abort(X!Sub)
  PROVE  IInv'
<1>1. X!Usable(X!Sub) /\ X!Active(X!Sub) /\ UNCHANGED next
  BY DEF X!Abort
<1>2. /\ tx[X!Sub] \in Record /\ tx[X!Sub].kind = "sub" /\ UNCHANGED trans
  BY <1>1, SubParent, Names, TypeAs DEF X!Abort, X!Unregistered, IInv
<1>3. CASE tx[X!Sub].pending
  <2> DEFINE C == [tx[X!Sub] EXCEPT !.status = "aborted", !.pending = FALSE,
                                  !.excuse = @ \cup {"rollback"}]
  <2>1. UNCHANGED X!sessionVars /\ tx' = [tx EXCEPT ![X!Sub] = C]
    BY <1>2, <1>3, TypeAs, Names DEF X!Abort, IInv
  <2>2. /\ C \in Record /\ C.kind = tx[X!Sub].kind /\ C.writes = tx[X!Sub].writes
        /\ C.status = "aborted" /\ C.excuse = tx[X!Sub].excuse \cup {"rollback"}
    BY <1>2 DEF Record, Status, Excuse
  <2> HIDE DEF C
  <2> QED
    BY <1>1, <1>2, <2>1, <2>2, SubQuiet
<1>4. CASE ~tx[X!Sub].pending
  <2> DEFINE C == [tx[X!Sub] EXCEPT !.status = "aborted", !.pending = FALSE]
  <2>1. X!RollbackCommand(X!Sub) /\ tx' = [tx EXCEPT ![X!Sub] = C]
    BY <1>4, TypeAs, Names DEF X!Abort, IInv
  <2>2. PICK r \in X!Answer : X!RollsBackTo(r)
    BY <1>2, <2>1 DEF X!RollbackCommand
  <2>3. /\ C \in Record /\ C.kind = tx[X!Sub].kind /\ C.writes = tx[X!Sub].writes
        /\ C.status = "aborted" /\ C.excuse = tx[X!Sub].excuse
    BY <1>2 DEF Record, Status
  <2> HIDE DEF C
  <2> QED
    BY <1>1, <1>2, <2>1, <2>2, <2>3, SubRolledBack
<1> QED
  BY <1>3, <1>4

LEMMA SubDestroy ==
  ASSUME IInv, Bounds, X!Destroy(X!Sub)
  PROVE  IInv'
<1>1. X!Usable(X!Sub) /\ UNCHANGED next
  BY DEF X!Destroy
<1>2. /\ tx[X!Sub] \in Record /\ tx[X!Sub].kind = "sub" /\ UNCHANGED trans
  BY <1>1, SubParent, Names, TypeAs DEF X!Destroy, X!Unregistered, IInv
<1> DEFINE C == [tx[X!Sub] EXCEPT !.alive = FALSE, !.pending = FALSE,
                                !.status = IF @ = "active" THEN "aborted" ELSE @]
<1>3. tx' = [tx EXCEPT ![X!Sub] = C]
  BY TypeAs, Names DEF X!Destroy, IInv
<1>4. /\ C \in Record /\ C.kind = tx[X!Sub].kind /\ C.writes = tx[X!Sub].writes
      /\ C.excuse = tx[X!Sub].excuse /\ ~C.alive
      /\ C.status = IF tx[X!Sub].status = "active" THEN "aborted" ELSE tx[X!Sub].status
  BY <1>2 DEF Record, Status
<1> HIDE DEF C
<1>5. CASE X!Active(X!Sub)
  <2>1. PICK r \in X!Answer : X!RollsBackTo(r)
    BY <1>2, <1>5 DEF X!Destroy, X!RollbackCommand
  <2> QED
    BY <1>1, <1>2, <1>3, <1>4, <1>5, <2>1, SubRolledBack DEF X!Active
<1>6. CASE ~X!Active(X!Sub)
  <2>1. UNCHANGED X!sessionVars /\ C.status = tx[X!Sub].status
    BY <1>1, <1>4, <1>6 DEF X!Destroy, X!Active, X!Usable
  <2> QED
    BY <1>1, <1>2, <1>3, <1>4, <1>6, <2>1, SubQuiet
<1> QED
  BY <1>5, <1>6

LEMMA ReleasesLemma ==
  ASSUME SessionSound, NEW r, X!Releases(r)
  PROVE  /\ SessionSound' /\ db' = db /\ unc' \subseteq unc
         /\ \/ r = "ok" /\ up /\ up' /\ backend = "open" /\ backend' = "open" /\ unc' = unc
            \/ r # "ok" /\ up /\ backend' = IF backend = "idle" THEN "idle" ELSE "failed"
            \/ r # "ok" /\ Gone
<1>1. CASE X!Broken(r, {})
  <2>1. {} \in SUBSET X!WriteId
    OBVIOUS
  <2>2. SessionSound' /\ Gone /\ db' \in {db, db \cup {}} /\ r = "broken"
    BY <1>1, <2>1, BrokenLemma DEF X!Broken
  <2> QED
    BY <2>2 DEF Gone
<1>2. CASE X!Fails(r)
  <2>1. r # "ok"
    BY <1>2 DEF X!Fails, X!Error
  <2> QED
    BY <1>2, <2>1, FailsLemma
<1>3. CASE ~X!Broken(r, {}) /\ ~X!Fails(r)
  BY <1>3 DEF X!Releases, SessionSound, SessionTyped
<1> QED
  BY <1>1, <1>2, <1>3

\* The parent takes over what its subtransaction has done, or its failure.
Heir(R, out) ==
  IF out.status = "committed" THEN [R EXCEPT !.writes = @ \cup tx[X!Sub].writes]
                              ELSE [R EXCEPT !.failed = TRUE]

LEMMA SubCommitted ==
  ASSUME IInv, Bounds, X!Commit(X!Sub)
  PROVE  IInv'
<1>1. CASE tx[X!Sub].pending
  BY <1>1, SubPending DEF X!Commit
<1>2. CASE ~tx[X!Sub].pending
  <2>1. X!Usable(X!Sub) /\ X!Active(X!Sub) /\ up /\ UNCHANGED next /\ X!Sub \in X!Tx
    BY <1>2, Names DEF X!Commit
  <2>2. /\ tx[X!Sub] \in Record /\ tx[X!Sub].kind = "sub" /\ backend # "idle"
    BY <2>1, SubParent
  <2>3. PICK out \in AnyOutcome :
          /\ X!DoCommit(tx[X!Sub].kind, out)
          /\ tx' = [X!Handed(X!Sub, out) EXCEPT
                      ![X!Sub].status = IF out.status = "unasked" THEN "aborted" ELSE out.status,
                      ![X!Sub].failed = @ \/ out.status = "aborted",
                      ![X!Sub].retry = out.retry,
                      ![X!Sub].excuse = IF out.status = "unasked" THEN @ \cup {"query"} ELSE @]
          /\ trans' = IF out.status = "committed" THEN X!Unregistered(X!Sub) ELSE trans
    BY <1>2 DEF X!Commit, AnyOutcome
  <2>4. PICK r \in X!Answer :
          X!Releases(r) /\ out = X!Outcome(IF r = "ok" THEN "committed" ELSE "aborted", X!Retried(r))
    BY <2>2, <2>3 DEF X!DoCommit, X!SubCommit
  <2>5. out.status = IF r = "ok" THEN "committed" ELSE "aborted"
    BY <2>4 DEF X!Outcome
  <2>6. trans' = trans
    BY <2>3, Names, TypeAs DEF X!Unregistered, IInv
  <2>7. PICK t \in X!Main : OpenDb(t)
    BY <2>1 DEF IInv, Objects, X!Active
  <2>8. \A p \in X!Tx : X!Parent(p) <=> p = t
    BY <2>7 DEF IInv, Objects, X!Parent, OpenDb, X!Active
  <2> DEFINE C == Committed(tx[X!Sub], out)
             H == Heir(tx[t], out)
  <2>9. /\ C \in Record
        /\ C.kind = tx[X!Sub].kind /\ C.writes = tx[X!Sub].writes /\ C.excuse = tx[X!Sub].excuse
        /\ C.status = out.status /\ C.status # "active"
    BY <2>2, <2>5, CommittedLemma
  <2>10. t \in X!Tx /\ t # X!Sub /\ tx[t] \in Record
    BY <2>7, Names, TypeAs DEF IInv
  <2>11. /\ H \in Record
         /\ H.kind = tx[t].kind /\ H.alive = tx[t].alive /\ H.status = tx[t].status
         /\ H.excuse = tx[t].excuse
         /\ out.status = "committed" => H.writes = tx[t].writes \cup tx[X!Sub].writes
         /\ out.status # "committed" => H.writes = tx[t].writes /\ H.failed
    <3>1. CASE out.status = "committed"
      BY <2>2, <2>10, <3>1 DEF Heir, Record
    <3>2. CASE out.status # "committed"
      BY <2>2, <2>10, <3>2 DEF Heir, Record
    <3> QED
      BY <3>1, <3>2
  <2>12. /\ tx'[X!Sub] = C /\ tx'[t] = H /\ \A p \in X!Main \ {t} : tx'[p] = tx[p]
         /\ tx' \in [X!Tx -> Record]
    <3> DEFINE G == X!Handed(X!Sub, out)
    <3>1. G = [p \in X!Tx |-> IF p = t THEN H ELSE tx[p]]
      BY <2>8 DEF X!Handed, Heir
    <3>2. G \in [X!Tx -> Record] /\ G[X!Sub] = tx[X!Sub] /\ G[t] = H /\ \A p \in X!Main \ {t} : G[p] = tx[p]
      BY <2>10, <2>11, <3>1, Names, TypeAs DEF IInv
    <3>3. tx' = [G EXCEPT ![X!Sub] = C]
      <4> HIDE DEF G, H
      <4> QED
        BY <2>1, <2>3, <3>2 DEF G, Committed, Record
    <3> HIDE DEF G, C, H
    <3> QED
      BY <2>1, <2>9, <2>10, <3>2, <3>3, Names
  <2> HIDE DEF C, H
  <2>13. /\ SessionSound' /\ db' = db /\ unc' \subseteq unc
         /\ \/ r = "ok" /\ up /\ up' /\ backend = "open" /\ backend' = "open" /\ unc' = unc
            \/ r # "ok" /\ up /\ backend' = IF backend = "idle" THEN "idle" ELSE "failed"
            \/ r # "ok" /\ Gone
    BY <2>4, SessionNow, ReleasesLemma
  <2>14. X!TypeOK'
    BY <2>6, <2>12, <2>13, <2>1, TypeLater, TypeAs DEF IInv, SessionSound
  <2>15. Session'
    <3>1. next' \in 1..MaxWrites + 1 /\ next <= next'
      BY <2>1, TypeAs DEF IInv, Bounds
    <3>2. \A p \in X!Tx : tx'[p].writes \subseteq tx[p].writes \cup tx[X!Sub].writes
      BY <2>9, <2>11, <2>12, Names
    <3> QED
      BY <2>1, <2>13, <3>1, <3>2, SessionLater
  <2>16. ~X!Active(X!Sub)'
    BY <2>9, <2>12 DEF X!Active
  <2>17. /\ tx[X!Sub].excuse = {} /\ tx[X!Sub].writes \cap (db \cup save) = {}
         /\ backend = "open" => tx[X!Sub].writes \subseteq unc
    BY <2>1 DEF IInv, SubDoing
  <2>18. SubDoing' /\ SubDone'
    BY <2>2, <2>5, <2>9, <2>12, <2>13, <2>16, <2>17 DEF SubDoing, SubDone, Gone
  <2>19. Doing(t)'
    <3>1. /\ tx[t].excuse = {} /\ tx[t].writes \cap db = {}
          /\ backend = "open" => tx[t].writes \subseteq unc
      BY <2>7 DEF IInv, Doing
    <3> QED
      BY <2>2, <2>5, <2>11, <2>12, <2>13, <2>16, <2>17, <3>1 DEF Doing, Gone
  <2>20. /\ tx'[X!Sub].kind = tx[X!Sub].kind /\ tx[X!Sub].excuse \subseteq tx'[X!Sub].excuse
         /\ backend' # "idle" => backend # "idle"
    BY <2>2, <2>9, <2>12
  <2>21. \A u \in X!Main : /\ tx'[u].kind = tx[u].kind /\ tx'[u].alive = tx[u].alive
                           /\ tx'[u].status = tx[u].status /\ tx'[u].excuse = tx[u].excuse
                           /\ ~X!Active(u) => tx'[u] = tx[u]
    BY <2>7, <2>11, <2>12 DEF OpenDb
  <2>22. \A u \in X!Main : OpenDb(u) => Doing(u)'
    BY <2>7, <2>19 DEF IInv, Objects, OpenDb, X!Active
  <2> QED
    BY <2>1, <2>6, <2>13, <2>14, <2>15, <2>18, <2>20, <2>21, <2>22, SubStep
<1> QED
  BY <1>1, <1>2

-----------------------------------------------------------------------------
(* The constructors, and another connection.                               *)

LEMMA NewObject ==
  ASSUME NEW k \in Kind
  PROVE  /\ X!Object(k) \in Record /\ X!Object(k).kind = k /\ X!Object(k).alive
         /\ X!Object(k).status = "active" /\ X!Object(k).writes = {} /\ X!Object(k).excuse = {}
         /\ X!Unborn \in Record /\ X!Unborn.kind = "none" /\ ~X!Unborn.alive
         /\ X!Unborn.writes = {} /\ X!Unborn.excuse = {}
BY DEF X!Object, X!Unborn, Record, Kind, Status, Excuse

LEMMA SetsSavepointLemma ==
  ASSUME SessionSound, NEW r, X!SetsSavepoint(r)
  PROVE  /\ Forward /\ SessionSound' /\ db' = db /\ unc' \subseteq unc
         /\ r = "ok" => /\ up /\ up' /\ backend = "open" /\ backend' = "open"
                        /\ hasSave' /\ save' = unc /\ unc' = unc
         /\ r # "ok" => Gone \/ (up /\ backend # "open"
                                /\ backend' = IF backend = "idle" THEN "idle" ELSE "failed")
<1>1. CASE X!Broken(r, {})
  <2>1. {} \in SUBSET X!WriteId
    OBVIOUS
  <2>2. Forward /\ SessionSound' /\ Gone /\ db' \in {db, db \cup {}} /\ r = "broken"
    BY <1>1, <2>1, BrokenLemma DEF X!Broken
  <2> QED
    BY <2>2 DEF Gone
<1>2. CASE r = "error" /\ backend # "open" /\ X!Fails(r)
  BY <1>2, FailsLemma
<1>3. CASE r = "ok" /\ up /\ backend = "open" /\ hasSave' = TRUE /\ save' = unc
           /\ UNCHANGED <<up, backend, unc, db>>
  BY <1>3 DEF SessionSound, SessionTyped, Forward
<1> QED
  BY <1>1, <1>2, <1>3 DEF X!SetsSavepoint

LEMMA SubBorn ==
  ASSUME IInv, Bounds, tx[X!Sub] = X!Unborn, NEW t \in X!Main, OpenDb(t), X!SetsSavepoint("ok"),
         tx' = [tx EXCEPT ![X!Sub] = X!Object("sub")], UNCHANGED <<trans, next>>
  PROVE  IInv'
<1> DEFINE C == X!Object("sub")
<1>1. /\ C \in Record /\ C.kind = "sub" /\ C.alive /\ C.status = "active"
      /\ C.writes = {} /\ C.excuse = {}
      /\ ~tx[X!Sub].alive /\ tx[X!Sub].excuse = {} /\ tx[X!Sub].writes = {}
  BY NewObject DEF Kind
<1>2. /\ Forward /\ SessionSound' /\ db' = db /\ unc' = unc /\ up /\ up'
      /\ backend = "open" /\ backend' = "open" /\ hasSave' /\ save' = unc
  BY SessionNow, SetsSavepointLemma
<1> HIDE DEF C
<1>3. tx'[X!Sub] = C /\ tx' \in [X!Tx -> Record] /\ \A u \in X!Main : tx'[u] = tx[u]
  BY <1>1, Names, TypeAs DEF IInv, C
<1>4. X!TypeOK'
  BY <1>2, <1>3, TypeLater, TypeAs DEF IInv, SessionSound
<1>5. Session'
  <2>1. next' \in 1..MaxWrites + 1 /\ next <= next'
    BY TypeAs DEF IInv, Bounds
  <2>2. \A p \in X!Tx : tx'[p].writes \subseteq tx[p].writes
    BY <1>1, <1>3, Names
  <2> QED
    BY <1>2, <2>1, <2>2, SessionLater
<1>6. \A u \in X!Main : OpenDb(u)' <=> OpenDb(u)
  BY <1>3 DEF OpenDb, X!Active
<1>7. Objects'
  BY <1>1, <1>3, <1>6, Names, TypeAs DEF IInv, Objects
<1>8. Owned'
  BY <1>3, <1>6 DEF IInv, Owned, Left
<1>9. ASSUME NEW u \in X!Main PROVE Doing(u)' /\ Done(u)'
  <2>1. CASE u = t
    <3>1. tx[t].excuse = {} /\ tx[t].writes \cap db = {} /\ tx[t].writes \subseteq unc
      BY <1>2 DEF IInv, Doing
    <3> QED
      BY <1>2, <1>3, <2>1, <3>1 DEF Doing, Done, OpenDb, X!Active
  <2>2. CASE u # t
    <3>1. ~X!Active(u)
      BY <2>2 DEF IInv, Objects, OpenDb, X!Active
    <3>2. Done(u)'
      BY <1>1, <1>2, <1>3, <3>1, DoneStays
    <3> QED
      BY <1>6, <3>1, <3>2 DEF Doing, OpenDb
  <2> QED
    BY <2>1, <2>2
<1>10. SubDoing' /\ SubDone'
  BY <1>1, <1>2, <1>3 DEF SubDoing, SubDone, X!Active
<1> QED
  BY <1>4, <1>5, <1>7, <1>8, <1>9, <1>10 DEF IInv

LEMMA SubConstructed ==
  ASSUME IInv, Bounds, X!ConstructSub
  PROVE  IInv'
<1>1. PICK t \in X!Main, r \in X!Answer :
        /\ X!Active(t) /\ tx[t].kind # "non" /\ X!SetsSavepoint(r)
        /\ tx' = IF r = "ok" THEN [tx EXCEPT ![X!Sub] = X!Object("sub")]
                             ELSE [tx EXCEPT ![t].failed = TRUE, ![t].retry = X!Retried(r)]
  BY DEF X!ConstructSub
<1>2. tx[X!Sub] = X!Unborn /\ UNCHANGED <<trans, next>> /\ ~tx[X!Sub].alive
  BY NewObject DEF X!ConstructSub, Kind
<1>3. t \in X!Tx /\ tx[t] \in Record /\ OpenDb(t)
  BY <1>1, Names, TypeAs DEF IInv, Objects, OpenDb, X!Active, Record, Kind
<1>4. CASE r = "ok"
  BY <1>1, <1>2, <1>3, <1>4, SubBorn
<1>5. CASE r # "ok"
  <2> DEFINE C == [tx[t] EXCEPT !.failed = TRUE, !.retry = X!Retried(r)]
  <2>1. tx' = [tx EXCEPT ![t] = C]
    BY <1>1, <1>3, <1>5, TypeAs DEF IInv
  <2>2. X!Retried(r) \in BOOLEAN
    BY DEF X!Retried
  <2>3. /\ C \in Record /\ C.kind = tx[t].kind /\ C.alive = tx[t].alive /\ C.status = tx[t].status
        /\ C.writes = tx[t].writes /\ C.excuse = tx[t].excuse /\ C.failed
    BY <1>3, <2>2 DEF Record
  <2> HIDE DEF C
  <2>4. tx'[t] = C /\ tx' \in [X!Tx -> Record] /\ \A p \in X!Tx \ {t} : tx'[p] = tx[p]
    BY <1>3, <2>1, <2>3, TypeAs DEF IInv
  <2>5. /\ Forward /\ SessionSound' /\ db' = db /\ unc' \subseteq unc
        /\ Gone \/ (up /\ backend # "open"
                   /\ backend' = IF backend = "idle" THEN "idle" ELSE "failed")
    BY <1>1, <1>5, SessionNow, SetsSavepointLemma
  <2>6. X!TypeOK'
    BY <1>2, <2>4, <2>5, TypeLater, TypeAs DEF IInv, SessionSound
  <2>7. Session'
    <3>1. next' \in 1..MaxWrites + 1 /\ next <= next'
      BY <1>2, TypeAs DEF IInv, Bounds
    <3>2. \A p \in X!Tx : tx'[p].writes = tx[p].writes
      BY <2>3, <2>4
    <3> QED
      BY <2>5, <3>1, <3>2, SessionLater
  <2>8. X!Active(t)' /\ OpenDb(t)' /\ ~X!Active(X!Sub)'
    BY <1>2, <1>3, <2>3, <2>4, Names DEF OpenDb, X!Active
  <2>9. up' => backend' # "idle"
    <3>1. up => backend # "idle"
      BY <1>3 DEF IInv, Doing
    <3> QED
      BY <2>5, <3>1 DEF Gone
  <2>10. Doing(t)' /\ Done(t)'
    <3>1. tx[t].excuse = {} /\ tx[t].writes \cap db = {}
      BY <1>3 DEF IInv, Doing
    <3>2. backend' # "open"
      BY <2>5 DEF Gone
    <3> QED
      BY <2>3, <2>4, <2>5, <2>8, <2>9, <3>1, <3>2 DEF Doing, Done
  <2>11. X!Usable(t) /\ trans' = trans
    BY <1>1, <1>2 DEF X!Usable, X!Active
  <2> QED
    BY <2>3, <2>4, <2>5, <2>6, <2>7, <2>8, <2>10, <2>11, MainStep DEF X!Usable
<1> QED
  BY <1>4, <1>5

\* No object lives, and none is born.
LEMMA IdleStep ==
  ASSUME IInv, Bounds, \A o \in X!Tx : ~tx[o].alive, UNCHANGED <<tx, next>>, trans' = X!NoTx,
         Forward, SessionSound', unc' \cup db' \subseteq unc \cup db,
         backend' # "idle" => backend # "idle"
  PROVE  IInv'
<1>1. \A o \in X!Tx : ~X!Active(o) /\ ~X!Active(o)'
  BY DEF X!Active
<1>2. X!TypeOK'
  BY TypeLater, TypeAs DEF IInv, SessionSound
<1>3. Session'
  <2>1. next' \in 1..MaxWrites + 1 /\ next <= next'
    BY TypeAs DEF IInv, Bounds
  <2> QED
    BY <2>1, SessionLater
<1>4. Objects'
  <2>1. ~tx'[X!Sub].alive /\ \A t \in X!Main : ~tx'[t].alive
    BY Names
  <2> QED
    BY <2>1 DEF IInv, Objects
<1>5. Owned'
  BY DEF IInv, Owned, Left, OpenDb, X!Active
<1>6. ASSUME NEW t \in X!Main PROVE Doing(t)' /\ Done(t)'
  BY <1>1, Names, DoneStays DEF Doing, OpenDb
<1>7. SubDoing' /\ SubDone'
  BY <1>1, Names, SubStays
<1> QED
  BY <1>2, <1>3, <1>4, <1>5, <1>6, <1>7 DEF IInv

LEMMA MainBorn ==
  ASSUME IInv, Bounds, \A o \in X!Tx : ~tx[o].alive, UNCHANGED next, trans = X!NoTx,
         NEW t \in X!Main, tx[t] = X!Unborn, NEW k \in {"work", "robust", "non"},
         tx' = [tx EXCEPT ![t] = X!Object(k)], trans' \in {X!NoTx, t},
         Forward, SessionSound', unc' = unc, db' = db,
         k = "non" => backend' = backend,
         k # "non" => backend' = "open"
  PROVE  IInv'
<1> DEFINE C == X!Object(k)
<1>1. /\ C \in Record /\ C.kind = k /\ C.alive /\ C.status = "active"
      /\ C.writes = {} /\ C.excuse = {}
      /\ ~tx[t].alive /\ tx[t].excuse = {} /\ tx[t].writes = {}
  BY NewObject DEF Kind
<1> HIDE DEF C
<1>2. /\ tx'[t] = C /\ tx' \in [X!Tx -> Record] /\ \A o \in X!Tx \ {t} : tx'[o] = tx[o]
      /\ t \in X!Tx /\ tx'[X!Sub] = tx[X!Sub]
  BY <1>1, Names, TypeAs DEF IInv, C
<1>3. X!TypeOK'
  BY <1>2, TypeLater, TypeAs DEF IInv, SessionSound
<1>4. Session'
  <2>1. next' \in 1..MaxWrites + 1 /\ next <= next'
    BY TypeAs DEF IInv, Bounds
  <2>2. \A p \in X!Tx : tx'[p].writes \subseteq tx[p].writes
    BY <1>1, <1>2
  <2> QED
    BY <2>1, <2>2, SessionLater
<1>5. Objects'
  <2>1. \A u \in X!Main : u # t => tx'[u] = tx[u]
    BY <1>2, Names
  <2>2. \A u \in X!Main : ~tx[u].alive
    BY Names
  <2> QED
    BY <1>1, <1>2, <2>1, <2>2, Names DEF IInv, Objects
<1>6. Owned'
  <2>1. CASE k = "non"
    BY <1>1, <1>2, <2>1, Names DEF IInv, Owned, Left, OpenDb, X!Active
  <2>2. CASE k # "non"
    BY <1>1, <1>2, <2>2 DEF Owned, OpenDb, X!Active
  <2> QED
    BY <2>1, <2>2
<1>7. ASSUME NEW u \in X!Main PROVE Doing(u)' /\ Done(u)'
  <2>1. CASE u = t
    <3>1. ~X!Active(X!Sub)'
      BY <1>2, Names DEF X!Active
    <3> QED
      BY <1>1, <1>2, <2>1, <3>1 DEF Doing, Done, OpenDb, X!Active
  <2>2. CASE u # t
    <3>1. tx'[u] = tx[u] /\ ~X!Active(u) /\ ~OpenDb(u)'
      BY <1>2, <2>2, Names DEF X!Active, OpenDb
    <3> QED
      BY <1>2, <3>1, DoneStays DEF Doing
  <2> QED
    BY <2>1, <2>2
<1>8. SubDoing' /\ SubDone'
  BY <1>2, Names, SubStays DEF X!Active
<1> QED
  BY <1>3, <1>4, <1>5, <1>6, <1>7, <1>8 DEF IInv

\* No object lives, and t is not born: its BEGIN has been done all the same.
LEMMA MainAbandoned ==
  ASSUME IInv, Bounds, \A o \in X!Tx : ~tx[o].alive, UNCHANGED next, trans = X!NoTx, trans' = trans,
         NEW t \in X!Main, tx[t] = X!Unborn, tx' = [tx EXCEPT ![t].excuse = {"begun"}],
         NEW r, X!Abandons(r)
  PROVE  IInv'
<1> DEFINE C == [X!Unborn EXCEPT !.excuse = {"begun"}]
<1>1. /\ C \in Record /\ C.kind = "none" /\ ~C.alive /\ C.writes = {} /\ C.excuse = {"begun"}
      /\ ~tx[t].alive /\ tx[t].writes = {}
  BY NewObject DEF Kind, Record, Excuse
<1>2. t \in X!Tx /\ tx' = [tx EXCEPT ![t] = C]
  BY Names, TypeAs DEF IInv, C
<1> HIDE DEF C
<1>3. /\ tx'[t] = C /\ tx' \in [X!Tx -> Record] /\ \A o \in X!Tx \ {t} : tx'[o] = tx[o]
      /\ tx'[X!Sub] = tx[X!Sub]
  BY <1>1, <1>2, Names, TypeAs DEF IInv
<1>4. Forward /\ SessionSound' /\ unc' = unc /\ db' = db /\ backend' = "failed"
  BY SessionNow DEF X!Abandons, SessionSound, SessionTyped, Forward
<1>5. X!TypeOK'
  BY <1>3, <1>4, TypeLater, TypeAs DEF IInv, SessionSound
<1>6. Session'
  <2>1. next' \in 1..MaxWrites + 1 /\ next <= next'
    BY TypeAs DEF IInv, Bounds
  <2>2. \A p \in X!Tx : tx'[p].writes = tx[p].writes
    BY <1>1, <1>3
  <2> QED
    BY <1>4, <2>1, <2>2, SessionLater
<1>7. \A o \in X!Tx : ~X!Active(o) /\ ~X!Active(o)' /\ ~tx'[o].alive
  BY <1>1, <1>3 DEF X!Active
<1>8. Objects'
  <2>1. \A u \in X!Main : tx'[u].kind # "sub" /\ ~tx'[u].alive
    BY <1>1, <1>3, <1>7, Names DEF IInv, Objects
  <2> QED
    BY <1>3, <1>7, <2>1, Names DEF IInv, Objects
<1>9. Owned'
  BY <1>1, <1>3 DEF Owned, Left
<1>10. ASSUME NEW u \in X!Main PROVE Doing(u)' /\ Done(u)'
  <2>1. Doing(u)'
    BY <1>7, Names DEF Doing, OpenDb
  <2>2. CASE u = t
    BY <1>1, <1>3, <2>1, <2>2 DEF Done, X!Promised
  <2>3. CASE u # t
    BY <1>3, <1>4, <1>7, <2>1, <2>3, Names, DoneStays
  <2> QED
    BY <2>2, <2>3, <2>1
<1>11. SubDoing' /\ SubDone'
  BY <1>3, <1>4, <1>7, Names, SubStays
<1> QED
  BY <1>5, <1>6, <1>8, <1>9, <1>10, <1>11 DEF IInv

LEMMA BeginsLemma ==
  ASSUME SessionSound, NEW r, X!Begins(r)
  PROVE  /\ Forward /\ SessionSound' /\ db' = db /\ unc' \subseteq unc
         /\ r = "ok" => backend' = "open" /\ unc' = unc
         /\ r # "ok" => (backend' # "idle" => backend # "idle")
<1>1. CASE X!Broken(r, {})
  <2>1. {} \in SUBSET X!WriteId
    OBVIOUS
  <2>2. Forward /\ SessionSound' /\ Gone /\ db' \in {db, db \cup {}} /\ r = "broken"
    BY <1>1, <2>1, BrokenLemma DEF X!Broken
  <2> QED
    BY <2>2 DEF Gone
<1>2. CASE r = "error" /\ backend = "failed" /\ X!Fails(r)
  BY <1>2, FailsLemma
<1>3. CASE r = "ok" /\ up /\ backend # "failed" /\ backend' = "open"
           /\ UNCHANGED <<up, unc, hasSave, save, db>>
  BY <1>3 DEF SessionSound, SessionTyped, Forward
<1> QED
  BY <1>1, <1>2, <1>3 DEF X!Begins

LEMMA MainConstructed ==
  ASSUME IInv, Bounds, NEW k \in {"work", "robust", "non"}, X!Construct(k)
  PROVE  IInv'
<1>1. PICK t \in X!Main \ {u \in X!Main : tx[u] # X!Unborn}, r \in X!Answer :
        /\ \A o \in X!Tx : ~tx[o].alive
        /\ trans = X!NoTx
        /\ \/ /\ IF k = "non" THEN r = "ok" /\ UNCHANGED X!sessionVars ELSE X!Begins(r)
              /\ IF r = "ok" THEN /\ tx' = [tx EXCEPT ![t] = X!Object(k)]
                                 /\ trans' = IF k = "robust" THEN trans ELSE t
                            ELSE UNCHANGED <<tx, trans>>
           \/ /\ k = "robust" /\ X!Abandons(r)
              /\ tx' = [tx EXCEPT ![t].excuse = {"begun"}]
              /\ UNCHANGED trans
  BY DEF X!Construct
<1>2. t \in X!Main /\ tx[t] = X!Unborn /\ UNCHANGED next
  BY DEF X!Construct
<1>3. CASE /\ IF k = "non" THEN r = "ok" /\ UNCHANGED X!sessionVars ELSE X!Begins(r)
           /\ IF r = "ok" THEN /\ tx' = [tx EXCEPT ![t] = X!Object(k)]
                              /\ trans' = IF k = "robust" THEN trans ELSE t
                         ELSE UNCHANGED <<tx, trans>>
  <2>1. /\ Forward /\ SessionSound' /\ db' = db /\ unc' \subseteq unc
        /\ r = "ok" => unc' = unc
        /\ k = "non" => backend' = backend
        /\ k # "non" /\ r = "ok" => backend' = "open"
        /\ r # "ok" => (backend' # "idle" => backend # "idle")
    <3>1. CASE k = "non"
      BY <1>3, <3>1, SessionNow, QuietLemma DEF X!sessionVars
    <3>2. CASE k # "non"
      BY <1>3, <3>2, SessionNow, BeginsLemma
    <3> QED
      BY <3>1, <3>2
  <2>2. CASE r = "ok"
    BY <1>1, <1>2, <1>3, <2>1, <2>2, MainBorn
  <2>3. CASE r # "ok"
    BY <1>1, <1>2, <1>3, <2>1, <2>3, IdleStep
  <2> QED
    BY <2>2, <2>3
<1>4. CASE /\ k = "robust" /\ X!Abandons(r)
           /\ tx' = [tx EXCEPT ![t].excuse = {"begun"}]
           /\ UNCHANGED trans
  BY <1>1, <1>2, <1>4, MainAbandoned
<1> QED
  BY <1>1, <1>3, <1>4

LEMMA Reconnected ==
  ASSUME IInv, Bounds, X!Reconnect
  PROVE  IInv'
<1>1. Forward /\ SessionSound' /\ unc' \cup db' \subseteq unc \cup db /\ backend' = backend
  BY SessionNow DEF X!Reconnect, Forward, SessionSound, SessionTyped
<1> QED
  BY <1>1, IdleStep DEF X!Reconnect

-----------------------------------------------------------------------------
(* The promises.                                                           *)

LEMMA IInvInit == ASSUME Bounds, X!Init PROVE IInv
<1>1. \A o \in X!Tx : /\ tx[o] = X!Unborn /\ tx[o] \in Record /\ tx[o].kind = "none" /\ ~tx[o].alive
                      /\ tx[o].writes = {} /\ tx[o].excuse = {}
  BY NewObject DEF X!Init, Kind
<1>2. tx \in [X!Tx -> Record]
  BY <1>1 DEF X!Init
<1>3. X!TypeOK
  <2>1. next \in 1..MaxWrites + 1
    BY DEF X!Init, Bounds
  <2> QED
    BY <1>2, <2>1, TypeAs DEF X!Init
<1>4. \A o \in X!Tx : ~X!Active(o)
  BY <1>1 DEF X!Active
<1>5. Session /\ Objects /\ Owned
  BY <1>1, Names DEF X!Init, Session, Objects, Owned
<1>6. \A t \in X!Main : Doing(t) /\ Done(t)
  BY <1>1, <1>4, Names DEF Doing, Done, OpenDb, X!Promised
<1>7. SubDoing /\ SubDone
  BY <1>1, <1>4, Names DEF SubDoing, SubDone
<1> QED
  BY <1>3, <1>5, <1>6, <1>7 DEF IInv

LEMMA IInvNext == ASSUME IInv, Bounds, [X!Next]_X!vars PROVE IInv'
<1>1. CASE \E k \in {"work", "robust", "non"} : X!Construct(k)
  BY <1>1, MainConstructed
<1>2. CASE X!ConstructSub
  BY <1>2, SubConstructed
<1>3. CASE X!Reconnect
  BY <1>3, Reconnected
<1>4. ASSUME NEW o \in X!Tx, X!Exec(o) \/ X!ExecParams(o) \/ X!OpenFocus(o) \/ X!CloseFocus(o)
                           \/ X!Commit(o) \/ X!Abort(o) \/ X!Destroy(o)
      PROVE  IInv'
  <2>1. CASE o \in X!Main
    BY <1>4, <2>1, MainExec, MainExecParams, MainFocus, MainCommit, MainAbort, MainDestroy
  <2>2. CASE o = X!Sub
    <3>1. CASE X!Exec(X!Sub)
      <4>1. CASE tx[X!Sub].pending
        BY <3>1, <4>1, SubPending DEF X!Exec
      <4>2. CASE ~tx[X!Sub].pending
        BY <3>1, <4>2, SubStatement DEF X!Exec
      <4> QED
        BY <4>1, <4>2
    <3>2. CASE X!ExecParams(X!Sub)
      <4>1. CASE X!Active(X!Sub)
        BY <3>2, <4>1, SubStatement DEF X!ExecParams
      <4>2. CASE ~X!Active(X!Sub)
        BY <3>2, <4>2, SubStray DEF X!ExecParams
      <4> QED
        BY <4>1, <4>2
    <3> QED
      BY <1>4, <2>2, <3>1, <3>2, SubFocus, SubCommitted, SubAbort, SubDestroy
  <2> QED
    BY <2>1, <2>2, Names
<1>5. CASE UNCHANGED X!vars
  BY <1>5 DEF X!vars, X!sessionVars, IInv, X!TypeOK, Session, Objects, Owned, Left, Doing, Done, Settled,
     SubDoing, SubDone, OpenDb, X!Promised, X!Active
<1> QED
  BY <1>1, <1>2, <1>3, <1>4, <1>5 DEF X!Next

\* What an object has done is in the database as a whole or not at all, as its
\* status says.
LEMMA IInvWhole == ASSUME IInv, Bounds PROVE X!AllOrNothing
<1>1. ASSUME NEW t \in X!Main, X!Promised(t) PROVE Settled(t)
  <2>1. CASE X!Active(t)
    BY <1>1, <2>1 DEF IInv, Doing, OpenDb, X!Promised, Settled, X!Active
  <2>2. CASE ~X!Active(t)
    BY <1>1, <2>2 DEF IInv, Done
  <2> QED
    BY <2>1, <2>2
<1>2. \A t \in X!Main : tx[t].status \in Status
  BY Names, TypeAs DEF IInv, Record
<1>3. tx[X!Sub].excuse = {} /\ tx[X!Sub].status # "committed" => tx[X!Sub].writes \cap db = {}
  BY DEF IInv, SubDoing, SubDone
<1> QED
  BY <1>1, <1>2, <1>3 DEF X!AllOrNothing, Settled, Status

\* Nothing is left of what is run again.
LEMMA IInvRetry == ASSUME IInv, Bounds PROVE X!RetriedMeansUndone
<1> SUFFICES ASSUME NEW t \in X!Main, X!Promised(t), tx[t].retry
             PROVE  tx[t].writes \cap db = {}
  BY DEF X!RetriedMeansUndone
<1>1. CASE X!Active(t)
  BY <1>1 DEF IInv, Doing, OpenDb, X!Promised
<1>2. CASE ~X!Active(t)
  BY <1>2 DEF IInv, Done, Settled
<1> QED
  BY <1>1, <1>2

\* When the last object is gone the session has no transaction.
LEMMA IInvSession == ASSUME IInv, Bounds PROVE X!TypeOK /\ X!SessionClean
  BY Names, TypeAs DEF IInv, X!SessionClean, Objects, Owned, Left, OpenDb, X!Active
=============================================================================
