--------------------------- MODULE MCSearchEngine ---------------------------
(***************************************************************************)
(* Instances of SearchEngine for TLC: a few connections that carry a few   *)
(* requests each.                                                          *)
(***************************************************************************)
EXTENDS SearchEngine, TLC

Connections == Permutations(Client)
=============================================================================
