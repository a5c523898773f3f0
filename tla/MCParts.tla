------------------------------ MODULE MCParts ------------------------------
(***************************************************************************)
(* The parts that share no state with each other, each by itself: a        *)
(* behaviour is one of a single part, the one case.part names.  What only  *)
(* computes is looked at in the initial states, for every input between    *)
(* the bounds.                                                             *)
(***************************************************************************)
EXTENDS Ranges, Sessions, Machines

CONSTANTS
  MinBytes, MaxBytes, MaxText,                \* words, and the pages they stand on
  Host, Name, MaxPath,                        \* links
  Null, Thrown                                \* a null field, a call that threw

\* Neither a host nor a segment of a path has a slash or a number sign in it.
ASSUME LinksAssumption == {"/", "#"} \cap (Host \cup Name) = {}

VARIABLE case    \* the part that is looked at, with its inputs

T  == INSTANCE Text
L  == INSTANCE Urls
W  == INSTANCE Copy
A  == INSTANCE Arrays
N  == INSTANCE Numbers
E  == INSTANCE Errors
R  == INSTANCE Results

F == INSTANCE SequencesExt
UpTo(set, n) == F!BoundedSeq(set, n)

-----------------------------------------------------------------------------
(* The inputs.                                                             *)

Pages == [part : {"page"}, content : UpTo(T!Char, MaxText)]

Links == LET paths == UpTo(Name, MaxPath)
         IN  [part : {"links"}, site : L!Site, from : paths, to : paths]

\* Rows of n fields of up to chars characters each, some of them null.
Fields(values(_), chars, n) == [1..n -> values(chars) \cup {Null}]

CopiedValues(enc) ==
  LET v(chars) == UpTo(W!Char(enc), chars) IN Fields(v, 2, 1) \cup Fields(v, 1, 2)

CopiedRows ==
  UNION {[part : {"copy"}, enc : {enc}, values : CopiedValues(enc)] : enc \in DOMAIN W!Patterns}

\* What the text of an array or a composite value may be confused by: the word
\* NULL, and characters it is made of.
ElementCases(enc) ==
  LET v(chars) == UpTo(A!Char(enc), chars) \cup {[i \in 1..4 |-> <<A!NULL[i]>>]}
      few      == {Null} \cup {<<c>> : c \in {<<A!Backslash>>, <<A!Quote>>}}
                  \cup {<<CHOOSE c \in A!Char(enc) : \A d \in A!Char(enc) : Len(c) >= Len(d)>>}
  IN  [one  |-> Fields(v, 2, 1) \cup Fields(v, 1, 2),
       flat |-> Fields(v, 1, 1),
       few  |-> [1..1 -> few] \cup [1..2 -> few]]

ArrayRows(enc) ==
  LET e == ElementCases(enc)
  IN  [part : {"array"}, enc : {enc}, d : {1}, rows : {<<>>} \cup {<<r>> : r \in e.one}]
      \cup [part : {"array"}, enc : {enc}, d : {2},
            rows : {<<r>> : r \in e.flat} \cup {<<r, s>> : r, s \in e.few}]
      \cup [part : {"composite"}, enc : {enc}, fields : e.one]

ArraysAndComposites == UNION {ArrayRows(enc) : enc \in DOMAIN A!Patterns}

RangeValues == -2..2

IntegerTypes == {N!Signed(4), N!Signed(8), N!Unsigned(4), N!Unsigned(8)}

IntegerCases == UNION {[part : {"integer"}, type : {t}, value : t.bottom..t.top] : t \in IntegerTypes}

TextCases == [part : {"text"}, type : IntegerTypes, gap : 0..1, minus : BOOLEAN,
          digits : UpTo({0, 1, 2, 5, 7, 8, 9, N!X}, 3)]

DateCases == [part : {"date"},
         y : {N!MinYear, -10000, -9999, -1000, -999, -4, -3, -1, 0, 1, 3, 4, 99, 100, 400,
              999, 1000, 9999, 10000, N!MaxYear},
         m : {1, 2, 9, 10, 12}, d : {1, 9, 10, 28, 29, 30, 31}]

Numbers ==
  IntegerCases \cup TextCases \cup {c \in DateCases : N!IsDate(c.y, c.m, c.d)}
  \cup [part : {"bytes"}, bytes : UpTo({0, 15, 16, 255}, 3)]
  \cup [part : {"ranges"}, r : AnyRange, s : AnyRange]

Outcomes ==
  LET codes == {E!Exact[e] : e \in DOMAIN E!Exact}
               \cup {c \o <<"X", "X", "X">> : c \in UNION {E!ByClass[e] : e \in DOMAIN E!ByClass}}
               \cup {E!NoState, <<>>, <<"in_doubt">>, <<"4", "0", "0", "0", "2">>,
                     <<"5", "7", "P", "0", "1">>, <<"X", "X", "0", "0", "0">>}
  IN  [part : {"errors"}, codes : UpTo(codes, 2), attempts : 0..3]

ResultsOf ==
  LET results == {R!Result(n, names) : n \in 0..3, names \in UpTo({"a", "b"}, 3)} IN
  [part : {"slice"}, r : {r \in results : r.rows = 1}, p : [1..4 -> 0..4]]
  \cup [part : {"rows"}, r : results, n : 0..4]

\* The second transaction finds what the first has left.
TwoKinds == <<{"work", "robust", "non"}, {"non"}>>

MachineCases == [part : {"transaction", "pipeline", "cursor", "stream", "blobs", "objects", "connection"}]

-----------------------------------------------------------------------------
Is(part) == case.part = part

\* A part that is not looked at is in one initial state.
If(part, states, still) == IF Is(part) THEN states ELSE {still}

Init ==
  /\ case \in Pages \cup Links \cup CopiedRows \cup ArraysAndComposites \cup Numbers
              \cup Outcomes \cup ResultsOf \cup MachineCases
  /\ inWork \in If("pipeline", BOOLEAN, FALSE)
  /\ fault \in If("pipeline", [P!Query -> {"fine", "syntax", "run"}], [q \in P!Query |-> "fine"])
  /\ rows \in If("cursor", 0..MaxRows, 0)
  /\ at \in If("cursor", 0..MaxRows + 1, 0)
  /\ m_pos \in If("cursor", {0, C!Unknown}, 0)
  /\ m_stride \in If("stream", 1..MaxStep, 1)
  /\ file \in If("objects", UpTo(Byte, MaxFile), <<>>)
  /\ X!Init /\ P!Init /\ C!Init /\ S!Init /\ B!Init /\ O!Init /\ K!Init

TransactionStep ==
  /\ Is("transaction") /\ X!Next
  /\ UNCHANGED <<case, pipelineVars, cursorVars, streamVars, blobVars, objectVars, connectionVars>>

PipelineStep ==
  /\ Is("pipeline") /\ P!Next
  /\ UNCHANGED <<case, transactionVars, cursorVars, streamVars, blobVars, objectVars,
                 connectionVars>>

CursorStep ==
  /\ Is("cursor") /\ C!Next
  /\ UNCHANGED <<case, transactionVars, pipelineVars, streamVars, blobVars, objectVars,
                 connectionVars>>

StreamStep ==
  /\ Is("stream") /\ S!Next
  /\ UNCHANGED <<case, transactionVars, pipelineVars, cursorVars, blobVars, objectVars,
                 connectionVars>>

BlobStep ==
  /\ Is("blobs") /\ B!Next
  /\ UNCHANGED <<case, transactionVars, pipelineVars, cursorVars, streamVars, objectVars,
                 connectionVars>>

ObjectStep ==
  /\ Is("objects") /\ O!Next
  /\ UNCHANGED <<case, transactionVars, pipelineVars, cursorVars, streamVars, blobVars,
                 connectionVars>>

ConnectionStep ==
  /\ Is("connection") /\ K!Next
  /\ UNCHANGED <<case, transactionVars, pipelineVars, cursorVars, streamVars, blobVars,
                 objectVars>>

Next ==
  \/ TransactionStep \/ PipelineStep \/ CursorStep \/ StreamStep
  \/ BlobStep \/ ObjectStep \/ ConnectionStep

vars == <<case, transactionVars, pipelineVars, cursorVars, streamVars, blobVars, objectVars,
          connectionVars>>

Spec == Init /\ [][Next]_vars

-----------------------------------------------------------------------------
\* Indexer.cpp:11-47, SearchEngine.cpp:194-227 - see Text!WordFound.
TypedAsIndexed ==
  Is("page") => \A w \in T!Index(case.content) : T!WordFound(w) <=> T!Findable(w)

\* URLParser.cpp:27-51 - see Urls!OneUrl: a link to a page comes out as the one URL
\* of that page, however it is spelled.
OneUrlPerPage ==
  Is("links") =>
    /\ \A l \in L!Spellings(case.site, case.to) :
         L!Extract(l, L!UrlOf(case.site, case.from)) \subseteq {L!UrlOf(case.site, case.to)}
    /\ L!OneUrl(case.site, case.to, case.from)

\* stream_to.hxx, stream_from.hxx, array.hxx, composite.hxx, row.hxx - see
\* Copy!RowCopied, Arrays!ArrayRead, Arrays!CompositeRead, Results!SliceRead and
\* Results!RowsRead: what the server sends is what the program reads, field by field.
FieldsKept ==
  /\ Is("copy") => W!RowCopied(case.enc, case.values)
  /\ Is("array") => A!ArrayRead(case.enc, case.d, case.rows)
  /\ Is("composite") => A!CompositeRead(case.enc, case.fields)
  /\ Is("slice") => R!SliceRead(case.r, case.p[1], case.p[2], case.p[3], case.p[4])
  /\ Is("rows") => R!RowsRead(case.r, case.n)

\* strconv.cxx, time.cxx, util.cxx, range.hxx - see Numbers and Ranges: a value is
\* written and read back, and what has no such value is refused.
ValuesKept ==
  /\ Is("integer") => N!IntegerKept(case.type, case.value)
  /\ Is("text") => N!IntegerRead(case.type, case.gap, case.minus, case.digits)
  /\ Is("date") => N!DateKept(case.y, case.m, case.d)
  /\ Is("bytes") => N!BytesKept(case.bytes)
  /\ Is("ranges") => RangesMeet(case.r, case.s) /\ RangesHold(case.r, case.s) /\ RangeKept(case.r)

\* dbtransaction.hxx:28-31 - see Transaction.
AllOrNothing == X!AllOrNothing
SessionClean == X!TypeOK /\ X!SessionClean

\* transactor.hxx:71-147 - see Transaction!RetriedMeansUndone, and
\* Errors!RetriedRightly for which errors perform() takes for undone.
RetriedMeansUndone ==
  /\ X!RetriedMeansUndone
  /\ Is("errors") => E!RetriedRightly(case.codes, case.attempts)

\* pipeline.hxx:33-58 - see Pipeline!InOrder.
PipelineInOrder == P!InOrder

\* cursor.hxx - see Cursor!PositionKept and CursorStream!BlocksShown.
CursorsInPlace == C!PositionKept /\ S!BlocksShown

\* blob.hxx, largeobject.hxx - see Blobs!BlobsWhole and ObjectStreams!StreamsFaithful.
ObjectsWhole == B!BlobsWhole /\ O!StreamsFaithful

\* connection.cxx:401-614, 648-673 - see Connection!ReceiversServed and
\* Connection!HandlersAttached.
ReceiversServed == K!ReceiversServed /\ K!HandlersAttached
=============================================================================
