----------------------------- MODULE MCDatabase -----------------------------
(***************************************************************************)
(* Instances of Database for TLC: two pages, two contents and two words.   *)
(* Content c1 holds both words, c2 only the second one.  To a search for   *)
(* both words neither a part of a content nor a mixture of the two counts  *)
(* as one of them; with an IntMax of 6 the 7 of c1 are more than an int    *)
(* takes, and the others are told.                                         *)
(***************************************************************************)
EXTENDS Database, TLC

CONSTANTS a, b, c1, c2, x, y, w1, w2, p1, p2

Urls     == {a, b}
Contents == {c1, c2}
TwoWords == {x, y}
Counts   == (c1 :> (x :> 3 @@ y :> 4)) @@ (c2 :> (x :> 0 @@ y :> 2))

OneCrawler  == w1 :> p1 @@ w2 :> p1
TwoCrawlers == w1 :> p1 @@ w2 :> p2

\* No word, one word, both words.
Searches  == {<<>>, <<x>>, <<y>>, <<x, y>>}
NoSearch  == {}
NoFaults  == {}
AllFaults == FaultKind
=============================================================================
