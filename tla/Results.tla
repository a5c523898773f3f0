------------------------------ MODULE Results ------------------------------
(***************************************************************************)
(* pqxx::result and the rows in it: access by number and by name, slices   *)
(* of a row, iterators both ways, and the calls that expect a number of    *)
(* rows.  A field is its row and its column, both from 0; what the server  *)
(* sent in it is of no matter here.                                        *)
(***************************************************************************)
EXTENDS Integers, Sequences, SequencesExt

CONSTANT Thrown    \* what a call that throws comes to

Result(rows, names) == [rows |-> rows, names |-> names]
Columns(r) == Len(r.names)

Field(row, col) == <<row, col>>

-----------------------------------------------------------------------------
(* Rows.  begin and end are the columns of a slice; end is not in it.      *)

Row(r, i) == [home |-> r, index |-> i, begin |-> 0, end |-> Columns(r)]

Size(row) == row.end - row.begin

\* operator[], which does not look.
FieldOf(row, i) == Field(row.index, row.begin + i)

\* at.
At(row, i) == IF i >= Size(row) THEN Thrown ELSE FieldOf(row, i)

Slice(row, sbegin, send) ==
  IF sbegin > send \/ send > Size(row) THEN Thrown
  ELSE [row EXCEPT !.begin = row.begin + sbegin, !.end = row.begin + send]

\* result::column_number: the first of that name, from 0.
Number(r, name) ==
  LET n == SelectInSeq(r.names, LAMBDA m : m = name) IN IF n = 0 THEN Thrown ELSE <<n - 1>>

\* Mutant: a name that stands before the slice is not looked for in it.
ColumnNumberFirst(row, name) ==
  LET n == Number(row.home, name) IN
  IF n = Thrown THEN Thrown
  ELSE IF n[1] >= row.end \/ n[1] < row.begin THEN Thrown
  ELSE <<n[1] - row.begin>>

\* row::column_number.
ColumnNumber(row, name) ==
  LET n      == Number(row.home, name)
      inside == {i \in row.begin..row.end - 1 : row.home.names[i + 1] = name}
  IN  IF n = Thrown THEN Thrown
      ELSE IF n[1] >= row.end THEN Thrown
      ELSE IF n[1] >= row.begin THEN <<n[1] - row.begin>>
      ELSE IF inside = {} THEN Thrown
      ELSE <<(CHOOSE i \in inside : \A j \in inside : i <= j) - row.begin>>

\* at, of a name.
AtName(row, name) ==
  LET n == ColumnNumber(row, name) IN IF n = Thrown THEN Thrown ELSE FieldOf(row, n[1])

\* as, which takes its fields with operator[].
As(row, n) ==
  IF n # Size(row) THEN Thrown ELSE [i \in 1..n |-> FieldOf(row, i - 1)]

\* to, whose extract_value counts the columns from the beginning of the result.
To(row, n) ==
  IF n # Size(row) THEN Thrown ELSE [i \in 1..n |-> Field(row.index, i - 1)]

-----------------------------------------------------------------------------
(* Iterators, over the columns of a row or the rows of a result: a forward *)
(* one is the place it stands at, a reverse one the place before the one   *)
(* it was made from.                                                       *)

Reversed(place) == place - 1
BaseOf(reverse) == reverse + 1

\* operator+ and operator- of a reverse iterator go by its base.
ReversePlus(reverse, n) == Reversed(BaseOf(reverse) - n)
ReverseMinus(reverse, n) == Reversed(BaseOf(reverse) + n)

\* The difference of two reverse iterators, from that of what they are made of.
ReverseDistance(a, b) == b - a

\* for (i = rbegin; i != rend; ++i).
Backwards(begin, end) ==
  LET walk[i \in Reversed(begin)..Reversed(end)] ==
        IF i = Reversed(begin) THEN <<>> ELSE <<i>> \o walk[i - 1]
  IN  walk[Reversed(end)]

Forwards(begin, end) ==
  LET walk[i \in begin..end] == IF i = end THEN <<>> ELSE <<i>> \o walk[i + 1]
  IN  walk[begin]

\* result_iter: the first row is read when it is made, the next ones as it moves; one
\* that has moved beyond the last has no result any more.
IterRows(r, n) ==
  LET walk[i \in 0..r.rows] == IF i >= r.rows THEN <<>> ELSE <<To(Row(r, i), n)>> \o walk[i + 1]
  IN  IF Columns(r) # n THEN Thrown ELSE walk[0]

\* for_each.
ForEach(r, n) ==
  IF Columns(r) # n THEN Thrown
  ELSE LET places == Forwards(0, r.rows)
       IN  [k \in DOMAIN places |-> As(Row(r, places[k]), n)]

-----------------------------------------------------------------------------
(* transaction_base's calls, by the result of their statement.             *)

\* exec_n and exec_params_n.
ExecN(rows, r) == IF r.rows # rows THEN Thrown ELSE <<r>>

FrontRow(r) == Row(r, 0)

\* exec1.
Exec1(r) == IF ExecN(1, r) = Thrown THEN Thrown ELSE <<FrontRow(r)>>

\* query1, of n values.
Query1(r, n) == IF Exec1(r) = Thrown THEN Thrown ELSE As(Exec1(r)[1], n)

\* query01: no row is no tuple.
Query01(r, n) ==
  CASE r.rows = 0 -> <<>>
    [] r.rows = 1 -> As(Row(r, 0), n)
    [] OTHER      -> Thrown

\* query_value.
QueryValue(r) ==
  IF Exec1(r) = Thrown THEN Thrown
  ELSE IF Size(Exec1(r)[1]) # 1 THEN Thrown ELSE FieldOf(Exec1(r)[1], 0)

-----------------------------------------------------------------------------
\* row.cxx:137-202 - a slice of a slice looks like a row of its columns: by number, by
\* name (the first in it of that name, whatever stands before it), all at once, and
\* by iterators either way.  Only "to" reads other columns, the first ones of the
\* result, so that it is right for what begins at the first column.
SliceRead(r, from, to, sfrom, sto) ==
  LET outer == Slice(Row(r, 0), from, to)
      row   == Slice(outer, sfrom, sto)
      cols  == [k \in 1..sto - sfrom |-> from + sfrom + k - 1]
      named(m) == SelectInSeq([k \in DOMAIN cols |-> r.names[cols[k] + 1]], LAMBDA o : o = m)
      fields == [k \in DOMAIN cols |-> Field(0, cols[k])]
  IN  IF ~(from <= to /\ to <= Columns(r)) THEN outer = Thrown
      ELSE IF ~(sfrom <= sto /\ sto <= to - from) THEN row = Thrown
      ELSE /\ As(row, Len(cols)) = fields /\ As(row, Len(cols) + 1) = Thrown
           /\ (To(row, Len(cols)) = fields) = (cols = <<>> \/ row.begin = 0)
           /\ \A k \in 0..Columns(r) :
                At(row, k) = IF k < Len(cols) THEN fields[k + 1] ELSE Thrown
           /\ \A m \in ToSet(r.names) \cup {"nowhere"} :
                AtName(row, m) = IF named(m) = 0 THEN Thrown ELSE fields[named(m)]
           /\ Forwards(row.begin, row.end) = cols
           /\ Backwards(row.begin, row.end) = Reverse(cols)

\* result_iter.hxx, transaction_base.hxx:380-516 - the ways to read a whole result give
\* every row once, in order, when it has as many columns as are asked for, and those
\* that expect a number of rows give them when there are that many; an iterator moved
\* by n and back stands where it stood, n away from where it was.
RowsRead(r, n) ==
  LET all == [i \in 1..r.rows |-> [k \in 1..n |-> Field(i - 1, k - 1)]]
      fit == Columns(r) = n
  IN  /\ IterRows(r, n) = IF fit THEN all ELSE Thrown
      /\ ForEach(r, n) = IF fit THEN all ELSE Thrown
      /\ (ExecN(n, r) = Thrown) = (r.rows # n)
      /\ Query1(r, n) = IF r.rows = 1 /\ fit THEN all[1] ELSE Thrown
      /\ Query01(r, n) = IF r.rows = 0 THEN <<>> ELSE IF r.rows = 1 /\ fit THEN all[1] ELSE Thrown
      /\ QueryValue(r) = IF r.rows = 1 /\ Columns(r) = 1 THEN Field(0, 0) ELSE Thrown
      /\ Backwards(0, r.rows) = Reverse(Forwards(0, r.rows))
      /\ \A i \in Reversed(0)..Reversed(r.rows) :
           /\ ReverseMinus(ReversePlus(i, n), n) = i
           /\ ReverseDistance(ReversePlus(i, n), i) = n
=============================================================================
