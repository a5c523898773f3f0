------------------------------ MODULE Sessions ------------------------------
(***************************************************************************)
(* The transactions of libpqxx as one of the parts of MCParts, by          *)
(* themselves: what TransactionProofs speaks of.                           *)
(***************************************************************************)
EXTENDS Integers

CONSTANTS MaxTx, MaxWrites, Kinds

VARIABLES up, trans, tx, next, backend, unc, hasSave, save, db

transactionVars == <<up, trans, tx, next, backend, unc, hasSave, save, db>>

X == INSTANCE Transaction

\* How many objects and statements there are is a number.
ASSUME SessionsAssumption == {MaxTx, MaxWrites} \subseteq Nat
=============================================================================
