------------------------------- MODULE Errors -------------------------------
(***************************************************************************)
(* What libpqxx makes of an error the server reports: which exception a    *)
(* SQLSTATE becomes, which exceptions catch which, and whether perform()   *)
(* runs a transaction again.  An SQLSTATE is a sequence of five            *)
(* characters; it may be empty, or there may be none.                      *)
(***************************************************************************)
EXTENDS Integers, Sequences

NoState == <<"none">>

-----------------------------------------------------------------------------
(* except.hxx: the classes that are derived from each class.               *)

OfFailure    == {"broken_connection", "variable_set_to_null", "sql_error", "in_doubt_error"}
OfConnection == {"protocol_violation", "too_many_connections"}
OfSqlError   == {"transaction_rollback", "feature_not_supported", "data_exception",
                 "integrity_constraint_violation", "invalid_cursor_state",
                 "invalid_sql_statement_name", "invalid_cursor_name", "syntax_error",
                 "insufficient_privilege", "insufficient_resources", "plpgsql_error"}
OfRollback   == {"serialization_failure", "statement_completion_unknown", "deadlock_detected"}
OfViolation  == {"restrict_violation", "not_null_violation", "foreign_key_violation",
                 "unique_violation", "check_violation"}
OfSyntax     == {"undefined_column", "undefined_function", "undefined_table"}
OfResources  == {"disk_full", "out_of_memory"}
OfPlpgsql    == {"plpgsql_raise", "plpgsql_no_data_found", "plpgsql_too_many_rows"}

Class == {"failure"} \cup OfFailure \cup OfConnection \cup OfSqlError \cup OfRollback
         \cup OfViolation \cup OfSyntax \cup OfResources \cup OfPlpgsql

Base ==
  [c \in Class |->
     CASE c = "failure"     -> "runtime_error"
       [] c \in OfFailure    -> "failure"
       [] c \in OfConnection -> "broken_connection"
       [] c \in OfSqlError   -> "sql_error"
       [] c \in OfRollback   -> "transaction_rollback"
       [] c \in OfViolation  -> "integrity_constraint_violation"
       [] c \in OfSyntax     -> "syntax_error"
       [] c \in OfResources  -> "insufficient_resources"
       [] c \in OfPlpgsql    -> "plpgsql_error"]

\* A handler for class c catches an exception of class e.
Catches(c, e) ==
  LET is[d \in Class] == d = c \/ (Base[d] \in Class /\ is[Base[d]])
  IN  is[e]

-----------------------------------------------------------------------------
(* result::throw_sql_error.                                                *)

\* The exceptions that have a code of their own.
Exact ==
  [protocol_violation           |-> <<"0", "8", "P", "0", "1">>,
   restrict_violation           |-> <<"2", "3", "0", "0", "1">>,
   not_null_violation           |-> <<"2", "3", "5", "0", "2">>,
   foreign_key_violation        |-> <<"2", "3", "5", "0", "3">>,
   unique_violation             |-> <<"2", "3", "5", "0", "5">>,
   check_violation              |-> <<"2", "3", "5", "1", "4">>,
   transaction_rollback         |-> <<"4", "0", "0", "0", "0">>,
   serialization_failure        |-> <<"4", "0", "0", "0", "1">>,
   statement_completion_unknown |-> <<"4", "0", "0", "0", "3">>,
   deadlock_detected            |-> <<"4", "0", "P", "0", "1">>,
   insufficient_privilege       |-> <<"4", "2", "5", "0", "1">>,
   syntax_error                 |-> <<"4", "2", "6", "0", "1">>,
   undefined_column             |-> <<"4", "2", "7", "0", "3">>,
   undefined_function           |-> <<"4", "2", "8", "8", "3">>,
   undefined_table              |-> <<"4", "2", "P", "0", "1">>,
   disk_full                    |-> <<"5", "3", "1", "0", "0">>,
   out_of_memory                |-> <<"5", "3", "2", "0", "0">>,
   too_many_connections         |-> <<"5", "3", "3", "0", "0">>,
   plpgsql_raise                |-> <<"P", "0", "0", "0", "1">>,
   plpgsql_no_data_found        |-> <<"P", "0", "0", "0", "2">>,
   plpgsql_too_many_rows        |-> <<"P", "0", "0", "0", "3">>]

\* Those of the codes with one beginning.
ByClass ==
  [feature_not_supported          |-> {<<"0", "A">>},
   broken_connection              |-> {<<"0", "8">>},
   insufficient_privilege         |-> {<<"0", "L">>, <<"0", "P">>},
   data_exception                 |-> {<<"2", "2">>},
   integrity_constraint_violation |-> {<<"2", "3">>},
   invalid_cursor_state           |-> {<<"2", "4">>},
   invalid_sql_statement_name     |-> {<<"2", "6">>},
   invalid_cursor_name            |-> {<<"3", "4">>},
   insufficient_resources         |-> {<<"5", "3">>}]

IsExact(code) == \E e \in DOMAIN Exact : Exact[e] = code
IsOfClass(code) == \E e \in DOMAIN ByClass : SubSeq(code, 1, 2) \in ByClass[e]

ThrowSqlError(code) ==
  IF code \in {NoState, <<>>} THEN "broken_connection"
  ELSE IF IsExact(code) THEN CHOOSE e \in DOMAIN Exact : Exact[e] = code
  ELSE IF IsOfClass(code) THEN CHOOSE e \in DOMAIN ByClass : SubSeq(code, 1, 2) \in ByClass[e]
  ELSE IF code[1] = "P" THEN "plpgsql_error"
  ELSE "sql_error"

\* Mutant: the base class is caught before the class that must not be retried.
HandlersGeneralFirst ==
  <<[class |-> "in_doubt_error", again |-> FALSE],
    [class |-> "transaction_rollback", again |-> TRUE],
    [class |-> "statement_completion_unknown", again |-> FALSE],
    [class |-> "protocol_violation", again |-> FALSE],
    [class |-> "broken_connection", again |-> TRUE]>>

-----------------------------------------------------------------------------
(* perform: the handlers, in their order.                                  *)

Handlers ==
  <<[class |-> "in_doubt_error", again |-> FALSE],
    [class |-> "statement_completion_unknown", again |-> FALSE],
    [class |-> "protocol_violation", again |-> FALSE],
    [class |-> "broken_connection", again |-> TRUE],
    [class |-> "transaction_rollback", again |-> TRUE]>>

\* Whether the handler that catches e lets the loop go on.
Again(e) ==
  \E h \in DOMAIN Handlers :
    /\ Handlers[h].again /\ Catches(Handlers[h].class, e)
    /\ \A k \in 1..h - 1 : ~Catches(Handlers[k].class, e)

\* perform(callback, attempts), when the callback throws what is in thrown, one after
\* the other, and then succeeds: how often it ran, and what comes out.
Perform(thrown, attempts) ==
  LET runs[n \in 1..attempts] ==
        IF n > Len(thrown) THEN [ran |-> n, out |-> "result"]
        ELSE IF ~Again(thrown[n]) \/ n = attempts THEN [ran |-> n, out |-> thrown[n]]
        ELSE runs[n + 1]
  IN  IF attempts <= 0 THEN [ran |-> 0, out |-> "invalid_argument"] ELSE runs[1]

-----------------------------------------------------------------------------
\* What a run throws: in_doubt stands for what a commit throws.
Raises(code) == IF code = <<"in_doubt">> THEN "in_doubt_error" ELSE ThrowSqlError(code)

\* The server says that it undid the transaction.
Undone(code) ==
  code \in {<<"4", "0", "0", "0", "0">>, <<"4", "0", "0", "0", "1">>, <<"4", "0", "P", "0", "1">>}

\* The connection is lost.  Class 08 counts as that as a whole, 08007 (transaction
\* resolution unknown) among it, but for a violation of the protocol.
Lost(code) ==
  \/ code \in {NoState, <<>>, <<"5", "3", "3", "0", "0">>}
  \/ Len(code) = 5 /\ SubSeq(code, 1, 2) = <<"0", "8">> /\ code # <<"0", "8", "P", "0", "1">>

\* transactor.hxx:71-147 - a callback is run again after an error the server says
\* undid the transaction, and after a lost connection; never when the statement may
\* have been completed or the outcome of a commit is not known, nor when another
\* attempt would fail alike.  It runs no more often than it was allowed, and what
\* comes out at the end is what came out of the last run.  codes are the SQLSTATEs
\* of the runs.
RetriedRightly(codes, attempts) ==
  LET thrown  == [i \in DOMAIN codes |-> Raises(codes[i])]
      p       == Perform(thrown, attempts)
      goes(i) == Undone(codes[i]) \/ Lost(codes[i])
  IN  attempts > 0 =>
        /\ p.ran \in 1..attempts /\ p.ran <= Len(codes) + 1
        /\ \A i \in 1..p.ran - 1 : goes(i)
        /\ p.ran = attempts \/ p.ran > Len(codes) \/ ~goes(p.ran)
        /\ p.out = IF p.ran > Len(codes) THEN "result" ELSE thrown[p.ran]
=============================================================================
