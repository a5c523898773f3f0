------------------------------- MODULE Cursor -------------------------------
(***************************************************************************)
(* sql_cursor, which keeps its own account of where the server's cursor    *)
(* stands, and stateless_cursor, which retrieves rows by their numbers on  *)
(* the strength of that account.                                           *)
(*                                                                         *)
(* The server answers with a number of rows.  Row r stands at position r;  *)
(* 0 is before the first row, rows + 1 after the last.  That a statement   *)
(* fails changes nothing here.                                             *)
(***************************************************************************)
EXTENDS Integers, Sequences

CONSTANTS MaxRows, MaxStride

All == MaxRows + 2          \* cursor_base::all(), farther than any row
Stride == (-MaxStride..MaxStride) \cup {All, -All}
Unknown == -1

VARIABLES
  rows,    \* the size of the query's result
  at,      \* where the server's cursor stands
  m_pos, m_endpos, m_at_end,
  asked, given,  \* the last retrieve, and what it returned
  thrown         \* an internal_error of the last call

vars == <<rows, at, m_pos, m_endpos, m_at_end, asked, given, thrown>>

Nothing == <<0, 0>>

\* The constructors: DECLARE, or another's cursor, wherever that stands.
Init ==
  /\ rows \in 0..MaxRows
  /\ \/ at = 0 /\ m_pos = 0 /\ m_at_end = -1
     \/ at \in 0..rows + 1 /\ m_pos = Unknown /\ m_at_end = 0
  /\ m_endpos = Unknown
  /\ asked = Nothing /\ given = <<>> /\ thrown = FALSE

\* What the cursor is, as one value.
Here == [at |-> at, pos |-> m_pos, endpos |-> m_endpos, end |-> m_at_end,
         thrown |-> FALSE, read |-> <<>>]

Becomes(c) ==
  /\ at' = c.at /\ m_pos' = c.pos /\ m_endpos' = c.endpos /\ m_at_end' = c.end
  /\ thrown' = c.thrown
  /\ UNCHANGED rows

-----------------------------------------------------------------------------
(* FETCH and MOVE at the server: the rows passed, and the place reached.   *)

RowsPassed(from, n) ==
  IF n > 0 THEN [i \in 1..(IF from + n > rows THEN IF from > rows THEN 0 ELSE rows - from ELSE n)
                   |-> from + i]
           ELSE [i \in 1..(IF from + n < 1 THEN IF from = 0 THEN 0 ELSE from - 1 ELSE -n)
                   |-> from - i]

PlaceReached(from, n) ==
  CASE from + n > rows -> rows + 1
    [] from + n < 1    -> 0
    [] OTHER           -> from + n

\* Mutant: only the rows are counted.
AdjustPlain(c, hoped, actual) ==
  LET d == IF hoped < 0 THEN -1 ELSE 1 IN
  [c EXCEPT !.pos = IF @ = Unknown THEN @ ELSE @ + d * actual]

\* adjust: what a movement by hoped, which passed actual rows, does to c.
Adjust(c, hoped, actual) ==
  LET d     == IF hoped < 0 THEN -1 ELSE 1
      short == actual # d * hoped
      moved == IF short /\ c.end # d THEN actual + 1 ELSE actual
      from  == IF short /\ d = -1 /\ c.pos = Unknown THEN moved ELSE c.pos
      to    == IF from = Unknown THEN Unknown ELSE from + d * moved
      last  == short /\ d = 1
  IN  [c EXCEPT !.end = IF short THEN d ELSE 0,
                !.pos = to,
                !.endpos = IF last THEN to ELSE @,
                !.thrown = \/ @
                           \/ short /\ d = -1 /\ from # moved
                           \/ last /\ c.endpos # Unknown /\ to # c.endpos]

\* fetch and move; by 0 they ask nothing.
Moved(c, n) ==
  IF n = 0 THEN [c EXCEPT !.read = <<>>]
  ELSE LET passed == RowsPassed(c.at, n) IN
       Adjust([c EXCEPT !.at = PlaceReached(c.at, n), !.read = passed], n, Len(passed))

Move ==
  \E n \in Stride :
    Becomes(Moved(Here, n)) /\ asked' = Nothing /\ given' = <<>>

-----------------------------------------------------------------------------
(* stateless_cursor.  An adopted cursor is moved to its start first.       *)

Adopt == m_pos = Unknown /\ Becomes(Moved(Here, -All)) /\ asked' = Nothing /\ given' = <<>>

Measured(c) == IF c.endpos = Unknown THEN Moved(c, All) ELSE c

Retrieve ==
  /\ m_pos # Unknown
  /\ \E b \in 0..MaxRows, e \in -2..MaxRows + 1 :
       LET c    == Measured(Here)
           size == c.endpos - 1
           end  == CASE e < -1 -> -1 [] e > size -> size [] OTHER -> e
           d    == IF b < end THEN 1 ELSE -1
           r    == Moved(Moved(c, (b - d) - (c.pos - 1)), end - b)
       IN  /\ b <= size
           /\ asked' = <<b, e>>
           /\ IF b = end THEN given' = <<>> /\ Becomes(c)
                         ELSE given' = r.read /\ Becomes(r)

Next == Move \/ Adopt \/ Retrieve

Spec == Init /\ [][Next]_vars

-----------------------------------------------------------------------------
\* The rows numbered b, ..., up to e and not e, that exist.
Wanted(b, e) ==
  LET top == IF b < rows THEN b + 1 ELSE rows
  IN  IF b < e THEN [i \in 1..(IF e < rows THEN e ELSE rows) - b |-> b + i]
               ELSE [i \in 1..top - (IF e < -1 THEN 0 ELSE e + 1) |-> top + 1 - i]

\* sql_cursor.hxx - the position the library keeps is the server's, and the end it
\* has found is the end; no movement contradicts them.  cursor.hxx - retrieve gives
\* the rows from the first asked for up to the last, that one excluded, wherever
\* the cursor stood.  Down from one row beyond the end, which cursor.hxx:223-224 allows,
\* the row of the last number comes too (cursor.cxx:57); that case is left out.
PositionKept ==
  /\ ~thrown
  /\ m_pos # Unknown => m_pos = at
  /\ m_endpos # Unknown => m_endpos = rows + 1
  /\ asked # Nothing /\ ~(asked[1] = rows /\ asked[2] \in 0..rows - 1) =>
       given = Wanted(asked[1], asked[2])
=============================================================================
