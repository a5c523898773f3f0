---------------------------- MODULE SearchIndex ----------------------------
(***************************************************************************)
(* What the database promises a search, without transactions, rows and     *)
(* locks: every page has at most one stored content and is searchable      *)
(* under the words of one content, and it only ever becomes searchable     *)
(* under the words of the content stored at that moment.                   *)
(***************************************************************************)
CONSTANTS Url, Content, NoDoc

VARIABLES
  stored,     \* the content stored for each page
  indexed     \* the content whose words find the page

vars == <<stored, indexed>>

Init ==
  /\ stored = [u \in Url |-> NoDoc]
  /\ indexed = [u \in Url |-> NoDoc]

Store(u, c) ==
  /\ stored' = [stored EXCEPT ![u] = c]
  /\ UNCHANGED indexed

Reindex(u) ==
  /\ stored[u] # NoDoc
  /\ indexed' = [indexed EXCEPT ![u] = stored[u]]
  /\ UNCHANGED stored

Next == \E u \in Url : Reindex(u) \/ \E c \in Content : Store(u, c)

Spec == Init /\ [][Next]_vars
=============================================================================
