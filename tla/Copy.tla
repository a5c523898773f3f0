-------------------------------- MODULE Copy --------------------------------
(***************************************************************************)
(* The lines of COPY: how stream_to writes a row, and how stream_from and  *)
(* stream_query read one.  A field is a sequence of bytes, or null.        *)
(***************************************************************************)
EXTENDS Encodings, SequencesExt

CONSTANT Null

Tab       == 9
Backslash == 92

\* The bytes COPY escapes, and the letters that stand for them.
Escapes == (8 :> 98) @@ (12 :> 102) @@ (10 :> 110) @@ (13 :> 114) @@ (9 :> 116) @@ (11 :> 118)
           @@ (92 :> 92)

EscapeChar(c) == Escapes[c]

UnescapeChar(c) ==
  IF \E b \in DOMAIN Escapes : Escapes[b] = c THEN CHOOSE b \in DOMAIN Escapes : Escapes[b] = c
  ELSE c

NullField == <<Backslash, 78>>

-----------------------------------------------------------------------------
(* Writing.                                                                *)

\* escape_field_to_buffer.
EscapeField(enc, data) ==
  LET esc[here \in 1..Len(data) + 2] ==
        IF here > Len(data) THEN <<>>
        ELSE LET stop == FindChar(enc, DOMAIN Escapes, data, here) IN
             SubSeq(data, here, stop - 1)
             \o (IF stop <= Len(data) THEN <<Backslash, EscapeChar(data[stop])>> ELSE <<>>)
             \o esc[stop + 1]
  IN  esc[1]

AppendToBuffer(enc, buffer, field) ==
  buffer \o (IF field = Null THEN NullField ELSE EscapeField(enc, field)) \o <<Tab>>

\* fill_buffer, and write_buffer, which removes the last tab.
WriteRow(enc, row) ==
  Front(FoldLeft(LAMBDA buffer, field : AppendToBuffer(enc, buffer, field), <<>>, row))

-----------------------------------------------------------------------------
(* Reading.                                                                *)

\* stream_from::parse_line: fields and the one being written, null once \N was
\* met; what comes after \N in the same field is lost.
ParseLine(enc, line) ==
  LET ended(fields, field) == Append(fields, field)
      onto(field, bytes) == IF field = Null THEN Null ELSE field \o bytes
      parse[i \in 1..Len(line) + 1, fields \in Seq(Seq(0..255) \cup {Null}),
            field \in Seq(0..255) \cup {Null}] ==
        IF i > Len(line) THEN ended(fields, field)
        ELSE LET stop == FindChar(enc, {Tab, Backslash}, line, i)
                 text == onto(field, SubSeq(line, i, stop - 1))
             IN  IF stop > Len(line) THEN ended(fields, text)
                 ELSE IF line[stop] = Tab THEN parse[stop + 1, ended(fields, text), <<>>]
                 ELSE IF line[stop + 1] = 78 THEN parse[stop + 2, fields, Null]
                 ELSE parse[stop + 2, fields, onto(text, <<UnescapeChar(line[stop + 1])>>)]
  IN  parse[1, <<>>, <<>>]

\* stream_query::read_field, on a line that ends in a tab: <<field, where the next
\* begins>>.
ReadField(enc, line, offset) ==
  LET read[i \in 1..Len(line)] ==
        IF line[i] = Tab THEN [text |-> <<>>, end |-> i + 1]
        ELSE LET stop == FindChar(enc, {Tab, Backslash}, line, i)
                 rest == read[IF line[stop] = Tab THEN stop ELSE stop + 2]
             IN  [rest EXCEPT !.text = SubSeq(line, i, stop - 1)
                    \o (IF line[stop] = Tab THEN <<>> ELSE <<UnescapeChar(line[stop + 1])>>)
                    \o @]
  IN  IF line[offset] = Backslash /\ line[offset + 1] = 78 THEN [text |-> Null, end |-> offset + 3]
      ELSE read[offset]

\* stream_query::parse_line, for columns fields; consume_line puts the tab.
ReadRow(enc, line, columns) ==
  LET l == Append(line, Tab)
      step(s, k) == LET f == ReadField(enc, l, s.end) IN
                    [row |-> Append(s.row, f.text), end |-> f.end]
  IN  FoldLeft(step, [row |-> <<>>, end |-> 1], [k \in 1..columns |-> k])

-----------------------------------------------------------------------------
(* The server.  A value is a sequence of characters; COPY puts a backslash *)
(* before a character, never into one.                                     *)

Char(enc) == {<<c>> : c \in {8, 9, 10, 11, 12, 13, 78, 92, 110}} \cup Wide(enc)

ServerField(value) ==
  FoldLeft(LAMBDA s, c : s \o (IF Len(c) = 1 /\ c[1] \in DOMAIN Escapes
                               THEN <<Backslash, Escapes[c[1]]>> ELSE c), <<>>, value)

ServerLine(values) ==
  FlattenSeq([i \in DOMAIN values |->
    (IF i = 1 THEN <<>> ELSE <<Tab>>)
    \o (IF values[i] = Null THEN NullField ELSE ServerField(values[i]))])

Bytes(values) == [i \in DOMAIN values |-> IF values[i] = Null THEN Null ELSE FlattenSeq(values[i])]

\* stream_to.hxx, stream_from.hxx - a row is written as the server writes it, and
\* what the server writes is read back: nulls, the bytes that are escaped, and the
\* same bytes inside a character, in every encoding.
RowCopied(enc, values) ==
  LET line == ServerLine(values) IN
  /\ WriteRow(enc, Bytes(values)) = line
  /\ ParseLine(enc, line) = Bytes(values)
  /\ ReadRow(enc, line, Len(values)) = [row |-> Bytes(values), end |-> Len(line) + 2]
=============================================================================
