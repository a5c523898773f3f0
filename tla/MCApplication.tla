--------------------------- MODULE MCApplication ---------------------------
(***************************************************************************)
(* Instances of Application for TLC: a start page with a link to each of   *)
(* two pages, every kind of Config.ini, the three executables.             *)
(***************************************************************************)
EXTENDS Application, TLC

CONSTANTS s, a, b

Urls == {s, a, b}
Web1 == {[u \in Urls |-> CASE u = s -> <<a, b>> [] u = a -> <<s, b>> [] OTHER -> <<>>],
         [u \in Urls |-> CASE u = s -> <<a>> [] u = a -> <<b>> [] OTHER -> <<s>>]}

Good == [file |-> TRUE, db |-> TRUE, start_url |-> TRUE, depth |-> 2, port |-> 8080]

\* One entry of Config.ini at a time is absent or odd; 70000 is a port mod 2^16.
Inis ==
  {Good, [Good EXCEPT !.file = FALSE], [Good EXCEPT !.db = FALSE], [Good EXCEPT !.start_url = FALSE]}
  \cup {[Good EXCEPT !.depth = d] : d \in {NoNumber, 0}}
  \cup {[Good EXCEPT !.port = n] : n \in {NoNumber, -1, 80, 65536, 70000, 5432}}
=============================================================================
