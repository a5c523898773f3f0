------------------------------- MODULE Arrays -------------------------------
(***************************************************************************)
(* The text of SQL arrays and of values of composite types, as pqxx::array, *)
(* array_parser and parse_composite read it and as the library writes it.  *)
(* Elements are strings or null; an array has one dimension or two.        *)
(***************************************************************************)
EXTENDS Encodings, SequencesExt

CONSTANT Null

Quote == 34
LeftParen == 40
RightParen == 41
Comma == 44
Backslash == 92
RightBracket == 93
Open  == 123
Close == 125
NULL  == <<78, 85, 76, 76>>

Failure == [thrown |-> TRUE]

-----------------------------------------------------------------------------
(* internal/array-composite.hxx.  A position beyond the text is its end.   *)

Next1(enc, s, i) == IF i > Len(s) THEN i + 1 ELSE NextGlyph(enc, s, i)

IsAscii(enc, s, i) == i <= Len(s) /\ Next1(enc, s, i) = i + 1

\* scan_double_quoted_string: the position after the closing quote.
ScanQuoted(enc, s, pos) ==
  LET scan[i \in 1..Len(s) + 2, atQuote \in BOOLEAN] ==
        LET next == Next1(enc, s, i)
            is(c) == IsAscii(enc, s, i) /\ s[i] = c
        IN  IF i > Len(s) \/ (atQuote /\ ~is(Quote)) THEN i
            ELSE IF atQuote THEN scan[next, FALSE]
            ELSE IF is(Backslash) THEN scan[Next1(enc, s, next), FALSE]
            ELSE scan[next, is(Quote)]
  IN  scan[Next1(enc, s, pos), FALSE]

\* parse_double_quoted_string, of the string from pos to before end.
Unquoted(enc, s, end, pos) ==
  LET parse[i \in 1..end + 1] ==
        IF i >= end - 1 THEN <<>>
        ELSE LET here == IF IsAscii(enc, s, i) /\ s[i] \in {Backslash, Quote} THEN i + 1 ELSE i
                 next == Next1(enc, s, here)
             IN  SubSeq(s, here, next - 1) \o parse[next]
  IN  parse[pos + 1]

\* scan_unquoted_string.
ScanUnquoted(enc, stops, s, pos) ==
  LET scan[i \in 1..Len(s) + 1] ==
        IF i > Len(s) \/ (IsAscii(enc, s, i) /\ s[i] \in stops) THEN i
        ELSE scan[Next1(enc, s, i)]
  IN  scan[pos]

-----------------------------------------------------------------------------
(* pqxx::array.                                                            *)

\* check_dims.
DimsFit(d, data) ==
  /\ Len(data) >= 2 * d
  /\ \A k \in 1..d : data[k] = Open /\ data[Len(data) + 1 - k] = Close
  /\ data[d + 1] # Open

\* parse_field_end: where to go on, or 0 for an error.
FieldEnd(data, here) ==
  IF here > Len(data) \/ data[here] = Close THEN here
  ELSE IF data[here] = Comma /\ here < Len(data) /\ data[here + 1] \notin {Comma, Close}
  THEN here + 1 ELSE 0

\* The element at here: its text or null, and where it ends.
Element(enc, data, here) ==
  IF data[here] = Quote
  THEN LET end == ScanQuoted(enc, data, here) IN
       [value |-> Unquoted(enc, data, end, here), end |-> end]
  ELSE LET end  == ScanUnquoted(enc, {Comma, Close}, data, here)
           text == SubSeq(data, here, end - 1)
       IN  [value |-> IF text = NULL THEN Null ELSE text, end |-> end]

\* Mutant: the sizes of the rows are not compared.
RowsAnySize(s) == TRUE

\* A row that ends: the first of its dimension sets the size, the others have it.
RowFits(s) == s.dim < s.known \/ s.extents[s.dim] = s.sizes[s.dim]

\* A brace or an element: what is known after it, and at here the field's end.
Opened(d, s) ==
  IF s.dim = d \/ (s.dim = 0 /\ s.known # d + 1) THEN Failure
  ELSE [s EXCEPT !.here = @ + 1, !.dim = @ + 1,
                 !.extents = [k \in 1..d |-> IF k = s.dim THEN @[k] + 1
                                             ELSE IF k = s.dim + 1 THEN 0 ELSE @[k]]]

Closed(data, s) ==
  IF s.dim = 0 \/ ~RowFits(s) THEN Failure
  ELSE [s EXCEPT !.here = FieldEnd(data, @ + 1), !.dim = @ - 1,
                 !.sizes[s.dim] = IF s.dim < s.known THEN s.extents[s.dim] ELSE @,
                 !.known = IF s.dim < @ THEN s.dim ELSE @]

Added(d, data, s, e) ==
  [s EXCEPT !.here = FieldEnd(data, e.end), !.extents[d] = @ + 1, !.elts = Append(@, e.value)]

\* One round of the loop of parse.  Dimension 0 is outside the braces; the sizes are
\* known from known on.
Round(enc, d, data, s) ==
  IF data[s.here] = Open THEN Opened(d, s)
  ELSE IF data[s.here] = Close THEN Closed(data, s)
  ELSE IF s.dim # d \/ data[s.here] = Comma THEN Failure
  ELSE Added(d, data, s, Element(enc, data, s.here))

\* parse: each round gets at least one byte further.
ParseArray(enc, d, data) ==
  LET checked(s) == IF s.thrown \/ s.here = 0 THEN Failure ELSE s
      step(s, k) == IF s.thrown \/ s.here > Len(data) THEN s
                    ELSE checked(Round(enc, d, data, s))
      start == [thrown |-> ~DimsFit(d, data), here |-> 1, dim |-> 0, known |-> d + 1,
                elts |-> <<>>, extents |-> [k \in 1..d |-> 0], sizes |-> [k \in 1..d |-> 0]]
      ended(s) == IF ~s.thrown /\ s.dim # 0 THEN Failure ELSE s
  IN  ended(FoldLeft(step, start, data))

\* init_factors and add_index: the place of an element, from 0.
Locate(sizes, index) ==
  LET factor(k) == FoldLeft(LAMBDA a, b : a * b, 1, SubSeq(sizes, k + 1, Len(sizes)))
  IN  FoldLeft(LAMBDA a, k : a + index[k] * factor(k), 0, [k \in DOMAIN sizes |-> k])

\* at.
At(a, index) ==
  IF \E k \in DOMAIN index : index[k] >= a.sizes[k] THEN Failure
  ELSE [thrown |-> FALSE, value |-> a.elts[Locate(a.sizes, index) + 1]]

-----------------------------------------------------------------------------
(* array_parser, the older one: one juncture after the other.              *)

Token(juncture, value, end) == [juncture |-> juncture, value |-> value, end |-> end]

Parsed(enc, data, pos) ==
  LET ascii == IsAscii(enc, data, pos)
      end   == ScanQuoted(enc, data, pos)
      stop  == ScanUnquoted(enc, {Comma, Close}, data, pos)
      text  == SubSeq(data, pos, stop - 1)
  IN  CASE ascii /\ data[pos] = Open  -> Token("row_start", <<>>, pos + 1)
        [] ascii /\ data[pos] = Close -> Token("row_end", <<>>, pos + 1)
        [] ascii /\ data[pos] = Quote -> Token("string_value", Unquoted(enc, data, end, pos), end)
        [] ascii /\ text = NULL -> Token("null_value", <<>>, stop)
        [] OTHER -> Token("string_value", text, stop)

\* parse_array_step, and the comma behind.
PassComma(enc, data, found) ==
  IF IsAscii(enc, data, found.end) /\ data[found.end] = Comma
  THEN [found EXCEPT !.end = @ + 1] ELSE found

\* What get_next returns, up to done.
Junctures(enc, data) ==
  LET taken(s, f) == [end |-> f.end,
                      steps |-> Append(s.steps, [juncture |-> f.juncture, value |-> f.value])]
      step(s, k) == IF s.end > Len(data) THEN s
                    ELSE taken(s, PassComma(enc, data, Parsed(enc, data, s.end)))
  IN  FoldLeft(step, [end |-> 1, steps |-> <<>>], data).steps

-----------------------------------------------------------------------------
(* Composite values.                                                       *)

\* parse_composite_field: the value of the field at pos and where it ends.  One
\* that begins with a character of more bytes is an error.
CompositeField(enc, s, pos) ==
  IF ~IsAscii(enc, s, pos) THEN Failure
  ELSE IF s[pos] \in {Comma, RightParen, RightBracket}
  THEN [thrown |-> FALSE, value |-> Null, end |-> pos]
  ELSE IF s[pos] = Quote
  THEN LET end == ScanQuoted(enc, s, pos) IN
       [thrown |-> FALSE, value |-> Unquoted(enc, s, end, pos), end |-> end]
  ELSE LET end == ScanUnquoted(enc, {Comma, RightParen, RightBracket}, s, pos) IN
       [thrown |-> FALSE, value |-> SubSeq(s, pos, end - 1), end |-> end]

\* parse_composite, into n fields.
ParseComposite(enc, n, s) ==
  LET ends(end, last) ==
        /\ IsAscii(enc, s, end)
        /\ s[end] = (IF last THEN RightParen ELSE Comma)
        /\ last => end = Len(s)
      taken(p, k, f) == IF f.thrown \/ ~ends(f.end, k = n) THEN [p EXCEPT !.thrown = TRUE]
                        ELSE [p EXCEPT !.fields = Append(@, f.value), !.pos = f.end + 1]
      step(p, k) == IF p.thrown THEN p ELSE taken(p, k, CompositeField(enc, s, p.pos))
  IN  FoldLeft(step, [thrown |-> ~IsAscii(enc, s, 1) \/ s[1] # LeftParen, fields |-> <<>>, pos |-> 2],
               [k \in 1..n |-> k])

-----------------------------------------------------------------------------
(* Writing.  Bytes that look like a quote or a backslash are escaped.      *)

WriteQuoted(text) ==
  <<Quote>> \o FoldLeft(LAMBDA s, c : s \o (IF c \in {Quote, Backslash} THEN <<Backslash, c>>
                                            ELSE <<c>>), <<>>, text)
  \o <<Quote>>

Joined(opening, parts, closing) ==
  <<opening>> \o FlattenSeq([i \in DOMAIN parts |-> (IF i = 1 THEN <<>> ELSE <<Comma>>) \o parts[i]])
  \o <<closing>>

\* array_string_traits::into_buf and composite_into_buf.
WriteArray(elts) ==
  Joined(Open, [i \in DOMAIN elts |-> IF elts[i] = Null THEN NULL ELSE WriteQuoted(elts[i])], Close)

\* The comma after a field that is the only one stays.
WriteComposite(fields) ==
  Joined(LeftParen, [i \in DOMAIN fields |-> WriteQuoted(fields[i])]
                    \o (IF Len(fields) = 1 THEN <<<<>>>> ELSE <<>>), RightParen)

-----------------------------------------------------------------------------
(* The server's output, from values that are sequences of characters.      *)

\* The characters of four bytes of MULE_INTERNAL are left out: the scanner finds the
\* end of one only when the next character has a high byte.
Char(enc) ==
  {<<c>> : c \in {32, 34, 41, 44, 78, 92, 93, 125}}
  \cup {g \in Wide(enc) : enc = "MULE_INTERNAL" => Len(g) < 4}

Bytes(v) == IF v = Null THEN Null ELSE FlattenSeq(v)

HasOne(v, chars) == \E i \in DOMAIN v : \E c \in chars : v[i] = <<c>>

\* v, with esc in front of each quote and backslash and in quotes, when it has to be.
ServerText(v, special, esc(_)) ==
  IF v = <<>> \/ HasOne(v, special \cup {Quote, Backslash, Comma, 32}) \/ Bytes(v) = NULL
  THEN <<Quote>>
       \o FlattenSeq([i \in DOMAIN v |-> IF v[i] \in {<<Quote>>, <<Backslash>>}
                                         THEN <<esc(v[i][1])>> \o v[i] ELSE v[i]])
       \o <<Quote>>
  ELSE Bytes(v)

ArrayElement(v) ==
  IF v = Null THEN NULL ELSE ServerText(v, {Open, Close}, LAMBDA c : Backslash)

RowText(row) == Joined(Open, [i \in DOMAIN row |-> ArrayElement(row[i])], Close)

\* rows: one row for an array of one dimension; without elements there is none.
ArrayText(d, rows) ==
  IF rows = <<>> \/ rows[1] = <<>> THEN <<Open, Close>>
  ELSE IF d = 1 THEN RowText(rows[1])
  ELSE Joined(Open, [i \in DOMAIN rows |-> RowText(rows[i])], Close)

CompositeText(fields) ==
  Joined(LeftParen,
         [i \in DOMAIN fields |-> IF fields[i] = Null THEN <<>>
                                  ELSE ServerText(fields[i], {LeftParen, RightParen}, LAMBDA c : c)],
         RightParen)

-----------------------------------------------------------------------------
Flat(rows) == FlattenSeq(rows)
Elements(rows) == [i \in DOMAIN Flat(rows) |-> Bytes(Flat(rows)[i])]

Step(j, v) == [juncture |-> j, value |-> v]
Steps(row) ==
  <<Step("row_start", <<>>)>>
  \o [i \in DOMAIN row |-> IF row[i] = Null THEN Step("null_value", <<>>)
                           ELSE Step("string_value", Bytes(row[i]))]
  \o <<Step("row_end", <<>>)>>

\* What a holds of rows, by its sizes and at each index.
Holds(a, d, rows) ==
  LET at(x, i, j) == LET r == IF d = 1 THEN 1 ELSE i + 1
                     IN  IF r <= Len(rows) /\ j < Len(rows[1])
                         THEN ~x.thrown /\ x.value = Bytes(rows[r][j + 1]) ELSE x.thrown
  IN  /\ a.elts = Elements(rows)
      /\ a.sizes = (IF d = 1 THEN <<Len(rows[1])>> ELSE <<Len(rows), Len(rows[1])>>)
      /\ \A i, j \in 0..3 : at(At(a, IF d = 1 THEN <<j>> ELSE <<i, j>>), i, j)

AllSteps(d, rows) ==
  IF d = 1 THEN Steps(rows[1])
  ELSE <<Step("row_start", <<>>)>> \o FlattenSeq([i \in DOMAIN rows |-> Steps(rows[i])])
       \o <<Step("row_end", <<>>)>>

\* array.hxx - the array the server sent is read with its sizes and its elements,
\* each at its index and none beside them; read with another number of dimensions
\* it is an error, and so is a text whose rows differ.  The older parser tells the
\* same.
TextRead(enc, d, rows, text) ==
  LET empty == text = <<Open, Close>>
      even  == \A r \in Range(rows) : Len(r) = Len(rows[1])
      read(a) == /\ a.thrown = (IF empty THEN d # 1 ELSE ~even)
                 /\ a.thrown \/ empty \/ Holds(a, d, rows)
  IN  /\ read(ParseArray(enc, d, text))
      /\ ParseArray(enc, 3 - d, text).thrown = ~(empty /\ d = 2)
      /\ empty \/ Junctures(enc, text) = AllSteps(d, rows)

\* What the library writes is read back where no byte of a character can be taken
\* for a quote.
WrittenRead(enc, elts) ==
  LET read(a) == ~a.thrown /\ a.elts = elts /\ a.sizes = <<Len(elts)>>
  IN  SearchGroup(enc) = "MONOBYTE" => read(ParseArray(enc, 1, WriteArray(elts)))

ArrayRead(enc, d, rows) ==
  TextRead(enc, d, rows, ArrayText(d, rows)) /\ WrittenRead(enc, Elements(rows))

\* What parse_composite cannot read: a field that stands without quotes and begins
\* with a character of more than one byte or has a bracket.
Unreadable(v) ==
  /\ v # Null /\ v # <<>> /\ ~HasOne(v, {32, Quote, LeftParen, RightParen, Comma, Backslash})
  /\ Len(v[1]) > 1 \/ HasOne(v, {RightBracket})

\* composite.hxx - every other composite value the server sends is read, field by
\* field, and so is one of two fields or more that the library wrote.
CompositeRead(enc, fields) ==
  LET bytes == [i \in DOMAIN fields |-> Bytes(fields[i])]
      read(p, wrong) == p.thrown = wrong /\ (p.thrown \/ p.fields = bytes)
  IN  /\ read(ParseComposite(enc, Len(fields), CompositeText(fields)),
              \E v \in Range(fields) : Unreadable(v))
      /\ SearchGroup(enc) = "MONOBYTE" /\ Null \notin Range(fields) /\ Len(fields) > 1 =>
           read(ParseComposite(enc, Len(fields), WriteComposite(bytes)), FALSE)
=============================================================================
