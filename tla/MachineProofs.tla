--------------------------- MODULE MachineProofs ----------------------------
(***************************************************************************)
(* What is proved of the parts of libpqxx, each by itself: the ranges      *)
(* over every set of integers; the cursors, the streams over them, the     *)
(* large objects and the receivers of notifications for every number of    *)
(* rows, iterators, bytes, channels and messages. PartsProofs draws the    *)
(* theorems of MCParts from it.                                            *)
(***************************************************************************)
EXTENDS Ranges, Machines, FiniteSetTheorems, WellFoundedInduction, TLAPS

-----------------------------------------------------------------------------
(* Ranges. What range.hxx says of them: the bounds are compared case by    *)
(* case, and no case is left out.                                          *)

\* A bound is of one of three kinds, and its value is a number.
LEMMA BoundCases ==
  ASSUME NEW b \in Bound
  PROVE  /\ b = NoBound \/ \E v \in Values : b = Inclusive(v) \/ b = Exclusive(v)
         /\ b = [kind |-> b.kind, value |-> b.value]
         /\ b.kind \in {"none", "inclusive", "exclusive"}
         /\ b.value \in Int /\ b.value \in Values
  BY ValuesAssumption, SMT DEF Bound, NoBound, Inclusive, Exclusive

\* HigherBound chooses one of its bounds, and lets pass what both let pass.
LEMMA HigherBoundMeets ==
  ASSUME NEW a \in Bound, NEW b \in Bound
  PROVE  /\ HigherBound(a, b) \in {a, b}
         /\ \A x \in Values : ExtendsDownTo(HigherBound(a, b), x)
                                <=> ExtendsDownTo(a, x) /\ ExtendsDownTo(b, x)
<1>1. HigherBound(a, b) \in {a, b}
  BY SMT DEF HigherBound
<1>2. ASSUME NEW x \in Values
      PROVE  ExtendsDownTo(HigherBound(a, b), x) <=> ExtendsDownTo(a, x) /\ ExtendsDownTo(b, x)
  <2>1. x \in Int
    BY ValuesAssumption
  <2> QED
    BY <2>1, BoundCases, SMT
       DEF HigherBound, ExtendsDownTo, IsLimited, IsInclusive, IsExclusive
<1> QED
  BY <1>1, <1>2

\* LowerBound does the same for the upper side.
LEMMA LowerBoundMeets ==
  ASSUME NEW a \in Bound, NEW b \in Bound
  PROVE  /\ LowerBound(a, b) \in {a, b}
         /\ \A x \in Values : ExtendsUpTo(LowerBound(a, b), x)
                                <=> ExtendsUpTo(a, x) /\ ExtendsUpTo(b, x)
<1>1. LowerBound(a, b) \in {a, b}
  BY SMT DEF LowerBound
<1>2. ASSUME NEW x \in Values
      PROVE  ExtendsUpTo(LowerBound(a, b), x) <=> ExtendsUpTo(a, x) /\ ExtendsUpTo(b, x)
  <2>1. x \in Int
    BY ValuesAssumption
  <2> QED
    BY <2>1, BoundCases, SMT
       DEF LowerBound, ExtendsUpTo, IsLimited, IsInclusive, IsExclusive
<1> QED
  BY <1>1, <1>2

\* Bounds the wrong way round let nothing pass.
LEMMA DisorderedEmpty ==
  ASSUME NEW a \in Bound, NEW b \in Bound, NEW x \in Values, ~Ordered(a, b)
  PROVE  ~(ExtendsDownTo(a, x) /\ ExtendsUpTo(b, x))
<1>1. x \in Int
  BY ValuesAssumption
<1> QED
  BY <1>1, BoundCases, SMT
     DEF Ordered, ExtendsDownTo, ExtendsUpTo, IsLimited, IsInclusive, IsExclusive

\* The empty range is a range without values.
LEMMA EmptyRangeEmpty ==
  /\ EmptyRange \in AnyRange
  /\ \A x \in Values : ~Contains(EmptyRange, x)
<1>1. 0 \in Values /\ Exclusive(0) \in Bound
  BY ValuesAssumption DEF Bound
<1>2. EmptyRange \in AnyRange
  BY <1>1, SMT DEF EmptyRange, AnyRange, RangeOf, Ordered, Exclusive
<1>3. ASSUME NEW x \in Values PROVE ~Contains(EmptyRange, x)
  <2>1. x \in Int
    BY ValuesAssumption
  <2> QED
    BY <2>1, SMT DEF EmptyRange, RangeOf, Contains, ExtendsDownTo, ExtendsUpTo, IsExclusive,
                     IsInclusive, Exclusive
<1> QED
  BY <1>2, <1>3

\* range.hxx:339-341 - the intersection of any two ranges is a range, and has the
\* values that are in both and no other.
THEOREM IntersectionCorrect ==
  \A r, s \in AnyRange : RangesMeet(r, s)
<1> SUFFICES ASSUME NEW r \in AnyRange, NEW s \in AnyRange
             PROVE  RangesMeet(r, s)
  OBVIOUS
<1> DEFINE lower == HigherBound(r.lower, s.lower)
           upper == LowerBound(r.upper, s.upper)
<1>1. /\ r.lower \in Bound /\ r.upper \in Bound
      /\ s.lower \in Bound /\ s.upper \in Bound
  BY DEF AnyRange
<1>2. lower \in Bound /\ upper \in Bound
  BY <1>1, HigherBoundMeets, LowerBoundMeets
<1>3. ASSUME NEW x \in Values
      PROVE  ExtendsDownTo(lower, x) /\ ExtendsUpTo(upper, x) <=> Contains(r, x) /\ Contains(s, x)
  BY <1>1, HigherBoundMeets, LowerBoundMeets DEF Contains
<1>4. CASE Ordered(lower, upper)
  <2>1. Intersection(r, s) = RangeOf(lower, upper)
    BY <1>4 DEF Intersection
  <2>2. RangeOf(lower, upper) \in AnyRange
    BY <1>2, <1>4 DEF AnyRange, RangeOf
  <2>3. \A x \in Values : Contains(RangeOf(lower, upper), x)
                            <=> ExtendsDownTo(lower, x) /\ ExtendsUpTo(upper, x)
    BY DEF RangeOf, Contains
  <2> QED
    BY <2>1, <2>2, <2>3, <1>3 DEF RangesMeet
<1>5. CASE ~Ordered(lower, upper)
  <2>1. Intersection(r, s) = EmptyRange
    BY <1>5 DEF Intersection
  <2>2. ASSUME NEW x \in Values PROVE ~(Contains(r, x) /\ Contains(s, x))
    BY <1>2, <1>3, <1>5, DisorderedEmpty
  <2> QED
    BY <2>1, <2>2, EmptyRangeEmpty DEF RangesMeet
<1> QED
  BY <1>4, <1>5

\* A range that says it is empty has no value.
LEMMA EmptyHasNone ==
  ASSUME NEW r \in AnyRange, Empty(r), NEW x \in Values
  PROVE  ~Contains(r, x)
<1>1. r.lower \in Bound /\ r.upper \in Bound /\ x \in Int
  BY ValuesAssumption DEF AnyRange
<1> QED
  BY <1>1, BoundCases, SMT
     DEF Empty, Contains, ExtendsDownTo, ExtendsUpTo, IsLimited, IsInclusive, IsExclusive

\* range.hxx:318-326 - a range that encompasses another has every value of it.
THEOREM EncompassesCorrect ==
  \A r, s \in AnyRange : RangesHold(r, s)
<1> SUFFICES ASSUME NEW r \in AnyRange, NEW s \in AnyRange, Encompasses(r, s),
                    NEW x \in Values, Contains(s, x)
             PROVE  Contains(r, x)
  BY DEF RangesHold
<1>1. RangesMeet(r, s)
  BY IntersectionCorrect
<1>2. Intersection(r, s) = s
  <2>1. ~Empty(s)
    BY EmptyHasNone
  <2> QED
    BY <2>1 DEF Encompasses, Equal
<1> QED
  BY <1>1, <1>2 DEF RangesMeet

\* range.hxx:411-514 - every range is read back from its text as an equal range.
THEOREM TextCorrect ==
  \A r \in AnyRange : RangeKept(r)
<1> SUFFICES ASSUME NEW r \in AnyRange
             PROVE  Equal(FromString(IntoBuf(r)), r)
  BY DEF RangeKept
<1>1. CASE Empty(r)
  <2>1. FromString(IntoBuf(r)) = EmptyRange
    BY <1>1 DEF FromString, IntoBuf
  <2>2. Empty(EmptyRange)
    BY SMT DEF Empty, EmptyRange, RangeOf, Exclusive, IsExclusive, IsLimited
  <2> QED
    BY <1>1, <2>1, <2>2 DEF Equal
<1>2. CASE ~Empty(r)
  <2> DEFINE side(b, closed, opened) == Bracket(IF IsInclusive(b) THEN closed ELSE opened,
                                              IF IsLimited(b) THEN <<b.value>> ELSE <<>>)
             bound(sd, closed) == IF sd.value = <<>> THEN NoBound
                                  ELSE IF sd.mark = closed THEN Inclusive(sd.value[1])
                                  ELSE Exclusive(sd.value[1])
  <2>1. r.lower \in Bound /\ r.upper \in Bound /\ r = RangeOf(r.lower, r.upper)
    BY DEF AnyRange, RangeOf
  <2>2. IntoBuf(r) = <<side(r.lower, "[", "("), side(r.upper, "]", ")")>>
    BY <1>2 DEF IntoBuf
  <2>3. ASSUME NEW b \in Bound, NEW closed, NEW opened, closed # opened
        PROVE  bound(side(b, closed, opened), closed) = b
    <3>1. b = NoBound \/ \E v \in Values : b = Inclusive(v) \/ b = Exclusive(v)
      BY BoundCases
    <3>2. CASE b = NoBound
      BY <3>2 DEF NoBound, Bracket, IsLimited
    <3>3. CASE \E v \in Values : b = Inclusive(v)
      BY <3>3 DEF Inclusive, Bracket, IsLimited, IsInclusive
    <3>4. CASE \E v \in Values : b = Exclusive(v)
      BY <3>4, <2>3 DEF Exclusive, Bracket, IsLimited, IsInclusive
    <3> QED
      BY <3>1, <3>2, <3>3, <3>4
  <2>4. FromString(IntoBuf(r)) = RangeOf(bound(side(r.lower, "[", "("), "["),
                                         bound(side(r.upper, "]", ")"), "]"))
    BY <2>2 DEF FromString
  <2>5. "[" # "(" /\ "]" # ")"
    OBVIOUS
  <2> HIDE DEF side, bound
  <2>6. /\ bound(side(r.lower, "[", "("), "[") = r.lower
        /\ bound(side(r.upper, "]", ")"), "]") = r.upper
    BY <2>1, <2>3, <2>5
  <2>7. FromString(IntoBuf(r)) = r
    BY <2>1, <2>4, <2>6
  <2> QED
    BY <2>7 DEF Equal
<1> QED
  BY <1>1, <1>2

-----------------------------------------------------------------------------
(* Cursors: what the library knows of one is true.                         *)

CursorBounds == MaxRows \in Nat /\ MaxStride \in Nat

\* What the library knows of a cursor is true: the position if it knows one, the end
\* if it has found it, and whether it stands before the first row or behind the last.
Sound(c) ==
  /\ c.at \in 0..rows + 1 /\ c.pos \in {C!Unknown, c.at} /\ c.endpos \in {C!Unknown, rows + 1}
  /\ c.pos = C!Unknown => c.endpos = C!Unknown
  /\ c.end \in {-1, 0, 1}
  /\ c.end = -1 => c.at = 0
  /\ c.end = 1 => c.at = rows + 1
  /\ c.pos # C!Unknown => (c.at = 0 => c.end = -1) /\ (c.at = rows + 1 => c.end = 1)
  /\ c.thrown = FALSE

Cursors == [at : Int, pos : Int, endpos : Int, end : Int, thrown : BOOLEAN, read : Seq(Int)]

\* What retrieve brought is what was asked for; down from one row beyond the end, it is
\* one row more than that.
CursorInv ==
  /\ rows \in 0..MaxRows
  /\ C!Here \in Cursors /\ Sound(C!Here) /\ thrown = FALSE
  /\ asked # C!Nothing =>
       given = C!Wanted(asked[1], IF asked[1] = rows /\ asked[2] \in 0..rows - 1
                                THEN asked[2] - 1 ELSE asked[2])

\* How many rows a movement passes.
Count(from, n) ==
  IF n > 0 THEN IF from + n > rows THEN IF from > rows THEN 0 ELSE rows - from ELSE n
  ELSE IF from + n < 1 THEN IF from = 0 THEN 0 ELSE from - 1 ELSE -n

\* The rows a movement passes, as a function of how many they are.
LEMMA PassedLemma ==
  ASSUME rows \in Nat, NEW from \in 0..rows + 1, NEW n \in Int
  PROVE  /\ C!RowsPassed(from, n) \in Seq(Int)
         /\ Len(C!RowsPassed(from, n)) = Count(from, n)
         /\ C!RowsPassed(from, n) = [i \in 1..Count(from, n) |-> IF n > 0 THEN from + i ELSE from - i]
         /\ Count(from, n) \in Nat
<1>1. Count(from, n) \in Nat
  BY DEF Count
<1>2. C!RowsPassed(from, n) = [i \in 1..Count(from, n) |-> IF n > 0 THEN from + i ELSE from - i]
  <2>1. CASE n > 0
    BY <2>1 DEF Count, C!RowsPassed
  <2>2. CASE ~(n > 0)
    BY <2>2 DEF Count, C!RowsPassed
  <2> QED BY <2>1, <2>2
<1>3. PICK k \in Nat : k = Count(from, n)
  BY <1>1
<1>4. /\ [i \in 1..k |-> IF n > 0 THEN from + i ELSE from - i] \in Seq(Int)
      /\ Len([i \in 1..k |-> IF n > 0 THEN from + i ELSE from - i]) = k
  OBVIOUS
<1> QED BY <1>1, <1>2, <1>3, <1>4

\* A movement leaves a sound account, of the place the server came to.
LEMMA MovedLemma ==
  ASSUME rows \in Nat, NEW c \in Cursors, Sound(c), NEW n \in Int
  PROVE  /\ C!Moved(c, n) \in Cursors /\ Sound(C!Moved(c, n))
         /\ n # 0 => C!Moved(c, n).at = C!PlaceReached(c.at, n) /\ C!Moved(c, n).read = C!RowsPassed(c.at, n)
         /\ n = 0 => C!Moved(c, n).at = c.at /\ C!Moved(c, n).pos = c.pos /\ C!Moved(c, n).endpos = c.endpos
         /\ c.pos # C!Unknown => C!Moved(c, n).pos # C!Unknown
         /\ c.endpos # C!Unknown => C!Moved(c, n).endpos # C!Unknown
         /\ c.pos # C!Unknown /\ n > rows + 1 => C!Moved(c, n).endpos = rows + 1
<1>1. CASE n = 0
  <2>1. C!Moved(c, n) = [c EXCEPT !.read = <<>>]
    BY <1>1 DEF C!Moved
  <2>2. <<>> \in Seq(Int)
    OBVIOUS
  <2> DEFINE m == C!Moved(c, n)
  <2>3. /\ m \in Cursors /\ m.at = c.at /\ m.pos = c.pos /\ m.endpos = c.endpos /\ m.end = c.end
        /\ m.thrown = c.thrown
    BY <2>1, <2>2 DEF Cursors
  <2> HIDE DEF m
  <2>4. Sound(m)
    BY <2>3 DEF Sound
  <2> QED BY <1>1, <2>3, <2>4 DEF Sound, m
<1>2. CASE n # 0
  <2> DEFINE passed == C!RowsPassed(c.at, n)
             k == Count(c.at, n)
             b == [c EXCEPT !.at = C!PlaceReached(c.at, n), !.read = passed]
             r == C!Adjust(b, n, k)
  <2>1. passed \in Seq(Int) /\ Len(passed) = k /\ k \in Nat
    BY PassedLemma DEF Sound
  <2>2. C!Moved(c, n) = r
    BY <1>2, <2>1 DEF C!Moved
  <2> HIDE DEF passed
  <2>a. C!PlaceReached(c.at, n) \in Int
    BY DEF C!PlaceReached, Sound
  <2>3. b \in Cursors /\ b.at = C!PlaceReached(c.at, n) /\ b.read = passed
        /\ b.pos = c.pos /\ b.endpos = c.endpos /\ b.end = c.end /\ b.thrown = FALSE
    BY <2>1, <2>a DEF Cursors, Sound
  <2> HIDE DEF b
  <2>4. c.at \in 0..rows + 1 /\ c.pos \in Int /\ c.endpos \in Int /\ c.end \in {-1, 0, 1} /\ b.at \in Int
    BY <2>3 DEF Sound, Cursors
  <2> DEFINE d     == IF n < 0 THEN -1 ELSE 1
             short == k # d * n
             moved == IF short /\ b.end # d THEN k + 1 ELSE k
             from  == IF short /\ d = -1 /\ b.pos = C!Unknown THEN moved ELSE b.pos
             to    == IF from = C!Unknown THEN C!Unknown ELSE from + d * moved
             last  == short /\ d = 1
  <2>5. /\ r = [b EXCEPT !.end = IF short THEN d ELSE 0,
                         !.pos = to,
                         !.endpos = IF last THEN to ELSE @,
                         !.thrown = \/ @
                                    \/ short /\ d = -1 /\ from # moved
                                    \/ last /\ b.endpos # C!Unknown /\ to # b.endpos]
    BY DEF C!Adjust
  <2>6. /\ r.at = b.at /\ r.read = b.read /\ r.end = (IF short THEN d ELSE 0) /\ r.pos = to
        /\ r.endpos = (IF last THEN to ELSE b.endpos)
        /\ r.thrown <=> \/ short /\ d = -1 /\ from # moved
                        \/ last /\ b.endpos # C!Unknown /\ to # b.endpos
    <3>1. /\ r.at = b.at /\ r.read = b.read /\ r.end = (IF short THEN d ELSE 0) /\ r.pos = to
          /\ r.endpos = (IF last THEN to ELSE b.endpos)
          /\ r.thrown = \/ b.thrown
                        \/ short /\ d = -1 /\ from # moved
                        \/ last /\ b.endpos # C!Unknown /\ to # b.endpos
      BY <2>3, <2>5 DEF Cursors
    <3> HIDE DEF short, d, last, to, from, moved
    <3> QED BY <2>3, <3>1
  <2>7. d \in {-1, 1} /\ moved \in Nat /\ from \in Int /\ to \in Int
    BY <2>1, <2>3, <2>4 DEF C!Unknown
  <2>8. r \in Cursors
    <3>1. /\ (IF short THEN d ELSE 0) \in Int /\ (IF last THEN to ELSE b.endpos) \in Int
          /\ (\/ b.thrown
              \/ short /\ d = -1 /\ from # moved
              \/ last /\ b.endpos # C!Unknown /\ to # b.endpos) \in BOOLEAN
      BY <2>3, <2>4, <2>7
    <3> HIDE DEF short, d, last, to, from, moved
    <3> QED BY <2>3, <2>5, <2>7, <3>1 DEF Cursors
  <2> HIDE DEF r
  <2>9. CASE n > 0
    <3>1. d = 1 /\ d * n = n
      BY <2>9
    <3>2. /\ short <=> c.at + n > rows
          /\ short => k = (IF c.at > rows THEN 0 ELSE rows - c.at)
          /\ ~short => k = n
          /\ b.at = IF short THEN rows + 1 ELSE c.at + n
      BY <2>3, <2>4, <2>9, <3>1 DEF Count, C!PlaceReached
    <3>a. moved = (IF short /\ c.end # 1 THEN k + 1 ELSE k) /\ from = c.pos
          /\ to = (IF c.pos = C!Unknown THEN C!Unknown ELSE c.pos + moved)
      BY <2>3, <3>1, <2>7
    <3>3. c.pos # C!Unknown => to = b.at
      <4> HIDE DEF to, from, moved, short, d
      <4>1. SUFFICES ASSUME c.pos # C!Unknown PROVE to = b.at
        OBVIOUS
      <4>2. c.pos = c.at /\ (c.end = 1 <=> c.at = rows + 1) /\ to = c.at + moved
        BY <4>1, <3>a, <2>4 DEF Sound
      <4>3. CASE short
        BY <4>2, <4>3, <2>4, <3>2, <3>a
      <4>4. CASE ~short
        BY <4>2, <4>4, <2>4, <3>2, <3>a
      <4> QED BY <4>3, <4>4
    <3>4. c.pos = C!Unknown => to = C!Unknown
      BY <2>3, <3>1
    <3> HIDE DEF to, from, moved, short, d
    <3>5. r.end = (IF short THEN 1 ELSE 0) /\ r.endpos = (IF short THEN to ELSE b.endpos)
          /\ (r.thrown <=> short /\ b.endpos # C!Unknown /\ to # b.endpos)
      <4>1. last <=> short
        BY <3>1
      <4> HIDE DEF last
      <4> QED BY <2>6, <3>1, <4>1
    <3>6. b.at \in 1..rows + 1 /\ (b.at = rows + 1 <=> short)
      BY <2>4, <2>9, <3>2
    <3>7. r.thrown = FALSE
      <4>1. ~(short /\ b.endpos # C!Unknown /\ to # b.endpos)
        BY <2>3, <3>2, <3>3 DEF Sound
      <4> QED BY <2>8, <3>5, <4>1 DEF Cursors
    <3>8. Sound(r)
      BY <2>3, <2>6, <3>2, <3>3, <3>4, <3>5, <3>6, <3>7 DEF Sound, C!Unknown
    <3>9. n > rows + 1 => short
      BY <2>4, <3>2
    <3> QED
      BY <1>2, <2>2, <2>3, <2>6, <2>8, <3>2, <3>3, <3>4, <3>5, <3>6, <3>8, <3>9 DEF Sound, C!Unknown, passed
  <2>10. CASE n < 0
    <3>1. d = -1 /\ d * n = -n
      BY <2>10
    <3>2. /\ short <=> c.at + n < 1
          /\ short => k = (IF c.at = 0 THEN 0 ELSE c.at - 1)
          /\ ~short => k = -n
          /\ b.at = IF short THEN 0 ELSE c.at + n
      BY <2>3, <2>4, <2>10, <3>1 DEF Count, C!PlaceReached
    <3>3. c.pos # C!Unknown => to = b.at /\ (short => from = moved)
      BY <2>1, <2>3, <2>4, <2>10, <3>1, <3>2 DEF Sound, C!Unknown
    <3>4. c.pos = C!Unknown => IF short THEN to = 0 /\ from = moved ELSE to = C!Unknown
      BY <2>1, <2>3, <2>4, <2>10, <3>1, <3>2 DEF Sound, C!Unknown
    <3> HIDE DEF to, from, moved, short, d
    <3>5. r.end = (IF short THEN -1 ELSE 0) /\ r.endpos = b.endpos
          /\ (r.thrown <=> short /\ from # moved)
      <4>1. ~last
        BY <3>1
      <4> HIDE DEF last
      <4> QED BY <2>6, <3>1, <4>1
    <3>6. b.at \in 0..rows /\ (b.at = 0 <=> short)
      BY <2>4, <2>10, <3>2
    <3>7. r.thrown = FALSE
      <4>1. ~(short /\ from # moved)
        BY <3>3, <3>4
      <4> QED BY <2>8, <3>5, <4>1 DEF Cursors
    <3>8. Sound(r)
      BY <2>3, <2>6, <3>2, <3>3, <3>4, <3>5, <3>6, <3>7 DEF Sound, C!Unknown
    <3> QED
      BY <1>2, <2>2, <2>3, <2>6, <2>8, <2>10, <3>3, <3>4, <3>5, <3>6, <3>8 DEF Sound, C!Unknown, passed
  <2> QED BY <1>2, <2>9, <2>10
<1> QED BY <1>1, <1>2

\* What the cursor becomes is sound where the movement's account is.
LEMMA BecomesLemma ==
  ASSUME NEW c \in Cursors, Sound(c), C!Becomes(c), rows \in 0..MaxRows
  PROVE  /\ rows' \in 0..MaxRows /\ rows' = rows
         /\ C!Here' \in Cursors /\ Sound(C!Here)' /\ thrown' = FALSE
<1>1. rows' = rows /\ at' = c.at /\ m_pos' = c.pos /\ m_endpos' = c.endpos /\ m_at_end' = c.end
      /\ thrown' = FALSE
  BY DEF C!Becomes, Sound
<1>2. /\ at' \in Int /\ m_pos' \in Int /\ m_endpos' \in Int /\ m_at_end' \in Int
  BY <1>1 DEF Cursors
<1>3. PICK h : h = C!Here'
  OBVIOUS
<1>4. <<>> \in Seq(Int)
  OBVIOUS
<1>5. h \in Cursors /\ h.at = c.at /\ h.pos = c.pos /\ h.endpos = c.endpos /\ h.end = c.end
      /\ h.thrown = FALSE
  BY <1>1, <1>2, <1>3, <1>4 DEF C!Here, Cursors
<1>6. Sound(C!Here)'
  BY <1>1, <1>3, <1>5 DEF Sound
<1> QED BY <1>1, <1>3, <1>5, <1>6

\* A call that retrieves nothing keeps the account.
LEMMA CursorMoves ==
  ASSUME CursorBounds, CursorInv, NEW n \in Int, C!Becomes(C!Moved(C!Here, n)), asked' = C!Nothing
  PROVE  CursorInv'
<1>1. C!Here \in Cursors /\ Sound(C!Here) /\ rows \in 0..MaxRows
  BY DEF CursorInv
<1>2. C!Moved(C!Here, n) \in Cursors /\ Sound(C!Moved(C!Here, n))
  BY <1>1, MovedLemma DEF CursorBounds
<1>3. PICK m \in Cursors : m = C!Moved(C!Here, n)
  BY <1>2
<1>4. /\ rows' \in 0..MaxRows /\ C!Here' \in Cursors /\ Sound(C!Here)' /\ thrown' = FALSE
  BY <1>1, <1>2, <1>3, BecomesLemma
<1> QED BY <1>4 DEF CursorInv

\* A cursor that knows its place comes to any other.
LEMMA Comes ==
  ASSUME rows \in Nat, NEW c \in Cursors, Sound(c), c.pos # C!Unknown, NEW p \in Int
  PROVE  C!Moved(c, p - c.pos).at = IF p > rows THEN rows + 1 ELSE IF p < 1 THEN 0 ELSE p
<1>1. c.pos = c.at /\ c.at \in 0..rows + 1 /\ p - c.pos \in Int
  BY DEF Sound
<1>2. PICK n \in Int : n = p - c.pos
  BY <1>1
<1>3. c.at + n = p
  BY <1>1, <1>2
<1>4. CASE n = 0
  <2>1. C!Moved(c, n).at = c.at
    BY <1>4, MovedLemma
  <2>2. c.at = p
    BY <1>1, <1>3, <1>4
  <2> QED BY <1>1, <1>2, <2>1, <2>2
<1>5. CASE n # 0
  <2>1. C!Moved(c, n).at = C!PlaceReached(c.at, n)
    BY <1>5, MovedLemma
  <2> QED BY <1>2, <1>3, <2>1 DEF C!PlaceReached
<1> QED BY <1>4, <1>5

\* What the two movements of retrieve pass, is what was asked for.
LEMMA RetrievesWanted ==
  ASSUME rows \in Nat, NEW b \in 0..rows, NEW e \in Int, e >= -2, NEW end \in Int,
         end = (CASE e < -1 -> -1 [] e > rows -> rows [] OTHER -> e), b # end,
         NEW from \in Int,
         LET p == b + 1 - (IF b < end THEN 1 ELSE -1)
         IN  from = IF p > rows THEN rows + 1 ELSE IF p < 1 THEN 0 ELSE p
  PROVE  C!RowsPassed(from, end - b) = C!Wanted(b, IF b = rows /\ e \in 0..rows - 1 THEN e - 1 ELSE e)
<1>0. PICK n \in Int : n = end - b
  OBVIOUS
<1>1. CASE b < end
  <2>1. from = b /\ end <= rows /\ n > 0 /\ ~(from + n > rows)
    BY <1>0, <1>1
  <2>2. C!RowsPassed(from, n) = [i \in 1..n |-> b + i]
    BY <2>1 DEF C!RowsPassed
  <2>3. b # rows /\ b < e /\ (IF e < rows THEN e ELSE rows) - b = n
    BY <1>0, <1>1
  <2>4. C!Wanted(b, e) = [i \in 1..n |-> b + i]
    BY <2>3 DEF C!Wanted
  <2> QED BY <1>0, <2>2, <2>3, <2>4
<1>2. CASE ~(b < end)
  <2>1. ~(n > 0) /\ end >= -1 /\ end < b /\ e < rows /\ ~(b < e) /\ end = (IF e < -1 THEN -1 ELSE e)
    BY <1>0, <1>2
  <2>2. CASE b = rows
    <3> DEFINE f == IF b = rows /\ e \in 0..rows - 1 THEN e - 1 ELSE e
    <3>1. PICK k \in Int : k = IF end = -1 THEN rows ELSE rows - end
      OBVIOUS
    <3>2. from = rows + 1
      BY <1>2, <2>2
    <3>3. (IF from + n < 1 THEN IF from = 0 THEN 0 ELSE from - 1 ELSE -n) = k
      BY <1>0, <2>1, <2>2, <3>1, <3>2
    <3>4. C!RowsPassed(from, n) = [i \in 1..k |-> from - i]
      BY <2>1, <3>3 DEF C!RowsPassed
    <3>5. f \in Int /\ ~(b < f) /\ rows - (IF f < -1 THEN 0 ELSE f + 1) = k
      BY <2>1, <2>2, <3>1
    <3> HIDE DEF f
    <3>6. C!Wanted(b, f) = [i \in 1..k |-> rows + 1 - i]
      BY <2>2, <3>5 DEF C!Wanted
    <3> QED BY <1>0, <3>2, <3>4, <3>6 DEF f
  <2>3. CASE b < rows
    <3>1. from = b + 2 /\ ~(from + n < 1)
      BY <1>0, <1>2, <2>1, <2>3
    <3>2. PICK k \in Int : k = b - end
      OBVIOUS
    <3>3. C!RowsPassed(from, n) = [i \in 1..-n |-> from - i]
      BY <2>1, <3>1 DEF C!RowsPassed
    <3>4. -n = k /\ (b + 1) - (IF e < -1 THEN 0 ELSE e + 1) = k
      BY <1>0, <2>1, <3>2
    <3>5. C!Wanted(b, e) = [i \in 1..(b + 1) - (IF e < -1 THEN 0 ELSE e + 1) |-> (b + 1) + 1 - i]
      BY <2>1, <2>3 DEF C!Wanted
    <3>6. \A i \in Int : (b + 1) + 1 - i = from - i
      BY <3>1
    <3>7. C!Wanted(b, e) = [i \in 1..k |-> from - i]
      BY <3>4, <3>5, <3>6
    <3>8. (IF b = rows /\ e \in 0..rows - 1 THEN e - 1 ELSE e) = e
      BY <2>3
    <3>9. C!RowsPassed(from, n) = C!Wanted(b, e)
      BY ONLY <3>3, <3>4, <3>7
    <3> QED BY ONLY <1>0, <3>8, <3>9
  <2> QED BY <2>2, <2>3
<1> QED BY <1>1, <1>2

\* Where nothing is fetched, nothing was asked for.
LEMMA NothingWanted ==
  ASSUME rows \in Nat, NEW b \in 0..rows, NEW e \in Int, e >= -2,
         b = (CASE e < -1 -> -1 [] e > rows -> rows [] OTHER -> e)
  PROVE  C!Wanted(b, IF b = rows /\ e \in 0..rows - 1 THEN e - 1 ELSE e) = <<>>
<1>1. b = e \/ (b = rows /\ e > rows)
  OBVIOUS
<1> QED BY <1>1 DEF C!Wanted

\* The invariant of cursors holds where a cursor is opened or adopted.
LEMMA CursorInit == CursorBounds /\ C!Init => CursorInv
<1> SUFFICES ASSUME CursorBounds, C!Init PROVE CursorInv
  OBVIOUS
<1>1. /\ rows \in 0..MaxRows /\ at \in 0..rows + 1 /\ m_pos \in {C!Unknown, at} /\ m_endpos = C!Unknown
      /\ m_at_end \in {-1, 0} /\ thrown = FALSE /\ asked = C!Nothing
      /\ (m_at_end = -1 <=> m_pos # C!Unknown) /\ (m_at_end = -1 => at = 0)
  BY DEF C!Init, C!Unknown, CursorBounds
<1>2. at \in Int /\ m_pos \in Int /\ m_endpos \in Int /\ m_at_end \in Int /\ <<>> \in Seq(Int)
  BY <1>1 DEF CursorBounds, C!Unknown
<1>3. PICK h : h = C!Here
  OBVIOUS
<1>4. h \in Cursors /\ h.at = at /\ h.pos = m_pos /\ h.endpos = m_endpos /\ h.end = m_at_end
      /\ h.thrown = FALSE
  BY <1>2, <1>3 DEF C!Here, Cursors
<1>5. Sound(h)
  BY <1>1, <1>4 DEF Sound, CursorBounds, C!Unknown
<1> QED BY <1>1, <1>3, <1>4, <1>5 DEF CursorInv

\* Every call of a cursor keeps what the library knows of it true.
LEMMA CursorNext == CursorBounds /\ CursorInv /\ [C!Next]_C!vars => CursorInv'
<1> SUFFICES ASSUME CursorBounds, CursorInv, [C!Next]_C!vars PROVE CursorInv'
  OBVIOUS
<1>1. CASE C!Move
  <2>1. C!Stride \subseteq Int
    BY DEF C!Stride, C!All, CursorBounds
  <2> QED BY <1>1, <2>1, CursorMoves DEF C!Move
<1>2. CASE C!Adopt
  <2>1. -C!All \in Int
    BY DEF C!All, CursorBounds
  <2> QED BY <1>2, <2>1, CursorMoves DEF C!Adopt
<1>3. CASE C!Retrieve
  <2>1. C!Here \in Cursors /\ Sound(C!Here) /\ rows \in 0..MaxRows /\ rows \in Nat /\ C!All \in Int /\ C!All > rows + 1
    BY DEF CursorInv, CursorBounds, C!All
  <2>2. m_pos # C!Unknown /\ C!Here.pos # C!Unknown /\ C!Here.endpos = m_endpos
    BY <1>3 DEF C!Retrieve, C!Here
  <2> DEFINE c == C!Measured(C!Here)
  <2>3. c \in Cursors /\ Sound(c) /\ c.pos # C!Unknown /\ c.endpos = rows + 1
    <3>1. CASE C!Here.endpos = C!Unknown
      BY <2>1, <2>2, <3>1, MovedLemma DEF C!Measured
    <3>2. CASE C!Here.endpos # C!Unknown
      BY <2>1, <2>2, <3>2 DEF C!Measured, Sound
    <3> QED BY <3>1, <3>2
  <2> HIDE DEF c
  <2>4. PICK b \in 0..MaxRows, e \in -2..MaxRows + 1 :
          LET size == c.endpos - 1
              end  == CASE e < -1 -> -1 [] e > size -> size [] OTHER -> e
              d    == IF b < end THEN 1 ELSE -1
              r    == C!Moved(C!Moved(c, (b - d) - (c.pos - 1)), end - b)
          IN  /\ b <= size
              /\ asked' = <<b, e>>
              /\ IF b = end THEN given' = <<>> /\ C!Becomes(c)
                            ELSE given' = r.read /\ C!Becomes(r)
    BY <1>3 DEF C!Retrieve, c
  <2>5. c.endpos - 1 = rows /\ b \in Nat /\ b \in Int /\ e \in Int /\ e >= -2
    BY <2>1, <2>3, <2>4 DEF CursorBounds
  <2> DEFINE end == CASE e < -1 -> -1 [] e > rows -> rows [] OTHER -> e
             d   == IF b < end THEN 1 ELSE -1
             q   == C!Moved(c, (b - d) - (c.pos - 1))
             r   == C!Moved(q, end - b)
             f   == IF b = rows /\ e \in 0..rows - 1 THEN e - 1 ELSE e
  <2>6. /\ b <= rows /\ asked' = <<b, e>>
        /\ IF b = end THEN given' = <<>> /\ C!Becomes(c)
                      ELSE given' = r.read /\ C!Becomes(r)
    BY <2>4, <2>5
  <2>7. b \in 0..rows /\ end \in Int
    BY <2>1, <2>5, <2>6
  <2>8. (rows' \in 0..MaxRows /\ rows' = rows /\ C!Here' \in Cursors /\ Sound(C!Here)' /\ thrown' = FALSE)
        /\ given' = C!Wanted(b, f)
    <3>1. CASE b = end
      <4>1. C!Wanted(b, f) = <<>>
        BY <2>1, <2>5, <2>7, <3>1, NothingWanted
      <4> HIDE DEF f, end, r
      <4> QED BY <2>1, <2>3, <2>6, <3>1, <4>1, BecomesLemma
    <3>2. CASE b # end
      <4>1. PICK p \in Int : p = b + 1 - d
        BY <2>5
      <4>2. (b - d) - (c.pos - 1) = p - c.pos /\ c.pos \in Int
        <5>1. c.pos \in Int /\ d \in Int /\ b \in Int
          BY <2>3, <2>5 DEF Cursors
        <5> HIDE DEF d
        <5> QED BY ONLY <4>1, <5>1
      <4>3. q = C!Moved(c, p - c.pos) /\ p - c.pos \in Int
        BY <4>2
      <4>4. q.at = IF p > rows THEN rows + 1 ELSE IF p < 1 THEN 0 ELSE p
        BY <2>1, <2>3, <4>3, Comes
      <4>5. q \in Cursors /\ Sound(q) /\ q.at \in Int
        BY <2>1, <2>3, <4>3, MovedLemma DEF Cursors
      <4>6. C!RowsPassed(q.at, end - b) = C!Wanted(b, f)
        BY <2>1, <2>5, <2>7, <3>2, <4>1, <4>4, <4>5, RetrievesWanted
      <4> HIDE DEF q
      <4>7. end - b \in Int /\ end - b # 0
        BY <2>5, <2>7, <3>2
      <4>8. r \in Cursors /\ Sound(r) /\ r.read = C!RowsPassed(q.at, end - b)
        BY <2>1, <4>5, <4>7, MovedLemma
      <4> HIDE DEF f, end, r
      <4> QED BY <2>1, <2>6, <3>2, <4>6, <4>8, BecomesLemma
    <3> QED BY <3>1, <3>2
  <2> HIDE DEF end, r, q
  <2>9. /\ asked'[1] = b /\ asked'[2] = e
    BY <2>6
  <2>10. C!Wanted(b, f)' = C!Wanted(b, f)
    BY <2>8 DEF C!Wanted
  <2> QED BY <2>6, <2>8, <2>9 DEF CursorInv, C!Wanted
<1>4. CASE UNCHANGED C!vars
  BY <1>4 DEF CursorInv, C!vars, C!Here, Sound, Cursors, C!Wanted, C!Unknown, C!Nothing
<1> QED BY <1>1, <1>2, <1>3, <1>4 DEF C!Next

\* What the run checks of cursors follows from their invariant.
LEMMA CursorKept == CursorInv => C!PositionKept
<1> SUFFICES ASSUME CursorInv PROVE C!PositionKept
  OBVIOUS
<1>1. PICK h : h = C!Here
  OBVIOUS
<1>2. h.at = at /\ h.pos = m_pos /\ h.endpos = m_endpos /\ Sound(h) /\ thrown = FALSE
  BY <1>1 DEF CursorInv, C!Here
<1>3. asked # C!Nothing /\ ~(asked[1] = rows /\ asked[2] \in 0..rows - 1) =>
        given = C!Wanted(asked[1], asked[2])
  BY DEF CursorInv
<1> QED BY <1>2, <1>3 DEF Sound, C!PositionKept

-----------------------------------------------------------------------------
(* Streams of blocks over a cursor: the linked list of iterators, and      *)
(* what each of them shows.                                                *)

\* Induction over the natural numbers, for a set of them.
LEMMA NatSet ==
  ASSUME NEW set, 0 \in set, \A n \in Nat : n \in set => n + 1 \in set
  PROVE  Nat \subseteq set
<1> SUFFICES ASSUME Nat \ set # {} PROVE FALSE
  OBVIOUS
<1> DEFINE less == {ss \in Nat \X Nat : ss[1] < ss[2]}
<1>1. IsWellFoundedOn(less, Nat)
  BY NatLessThanWellFounded DEF OpToRel
<1> HIDE DEF less
<1>2. PICK m \in Nat \ set : \A k \in Nat \ set : ~ (<<k, m>> \in less)
  BY <1>1, WFMin
<1>3. \A k \in Nat \ set : ~ (k < m)
  BY <1>2 DEF less
<1>4. m # 0 /\ m - 1 \in Nat /\ m - 1 < m
  OBVIOUS
<1>5. QED BY <1>3, <1>4

\* The instances count a set as FiniteSets does.
LEMMA SameCardinality ==
  ASSUME NEW s
  PROVE  S!Cardinality(s) = Cardinality(s) /\ K!Cardinality(s) = Cardinality(s)
<1>1. K!Cardinality(s) = Cardinality(s)
  BY Zenon DEF K!Cardinality, Cardinality
<1>2. S!Cardinality(s) = Cardinality(s)
  BY Zenon DEF S!Cardinality, Cardinality
<1> QED BY <1>1, <1>2

StreamBounds == S!Nullptr \notin Iter /\ StreamRows \in Nat /\ MaxStep \in Nat

Iterators == [alive : BOOLEAN, attached : BOOLEAN, here : SUBSET Int, pos : Int,
              prev : Iter \cup {S!Nullptr}, next : Iter \cup {S!Nullptr}, late : BOOLEAN]

\* The iterators a list links, both ways and in a row without a circle.
On(f) == {i \in Iter : f[i].attached}

Rising(f, rank) == \A i \in On(f) : f[i].next # S!Nullptr => rank[i] < rank[f[i].next]

Linked(head, f) ==
  /\ head \in On(f) \cup {S!Nullptr}
  /\ \A i \in Iter : ~f[i].attached => f[i].prev = S!Nullptr /\ f[i].next = S!Nullptr
  /\ \A i \in On(f) :
       /\ f[i].prev = S!Nullptr <=> i = head
       /\ f[i].next # S!Nullptr => f[i].next \in On(f) /\ f[f[i].next].prev = i
       /\ f[i].prev # S!Nullptr => f[i].prev \in On(f) /\ f[f[i].prev].next = i
  /\ \E rank \in [Iter -> Nat] : Rising(f, rank)

\* What an iterator shows, and that it is a number of strides from where the next one
\* to move will come.
Shows(x) ==
  x.attached =>
    /\ x.alive
    /\ x.here \in {{}, S!Block(x.pos)}
    /\ x.pos < m_realpos /\ ~x.late => x.here = S!Block(x.pos)
    /\ \E k \in Int : m_reqpos = x.pos + k * m_stride

StreamInv ==
  /\ m_stride \in 1..MaxStep /\ m_realpos \in Int /\ m_reqpos \in Int
  /\ it \in [Iter -> Iterators]
  /\ Linked(m_iterators, it)
  /\ \A i \in Iter : Shows(it[i])

\* Two iterators that differ at most in their links.
Alike(x, y) ==
  /\ x.alive = y.alive /\ x.attached = y.attached /\ x.here = y.here /\ x.pos = y.pos
  /\ x.late = y.late

\* A stride is the least distance between two places that are strides apart.
LEMMA Strides ==
  ASSUME NEW s \in Nat, s > 0, NEW k \in Int, NEW m \in Int, NEW x \in Int, NEW y \in Int,
         x + k * s = y + m * s, x < y
  PROVE  x + s <= y
<1>1. PICK d \in Int : d = k - m
  OBVIOUS
<1>2. k * s - m * s = d * s
  BY <1>1
<1>3. k * s \in Int /\ m * s \in Int /\ d * s \in Int
  OBVIOUS
<1>4. d * s = y - x
  BY <1>2, <1>3
<1>5. d > 0
  <2>1. SUFFICES ASSUME d <= 0 PROVE FALSE
    OBVIOUS
  <2>2. d * s <= 0
    BY <2>1
  <2> QED BY <1>4, <2>2
<1>6. d * s >= s
  BY <1>5
<1> QED BY <1>4, <1>6

\* A list of iterators, however they are placed, stays linked.
LEMMA SameLinks ==
  ASSUME NEW head, NEW f, Linked(head, f), NEW g,
         \A j \in Iter : g[j].attached = f[j].attached /\ g[j].prev = f[j].prev /\ g[j].next = f[j].next
  PROVE  Linked(head, g) /\ On(g) = On(f)
<1>1. On(g) = On(f)
  BY DEF On
<1>2. On(f) \subseteq Iter
  BY DEF On
<1>3. \A rank : Rising(f, rank) => Rising(g, rank)
  BY <1>1, <1>2 DEF Rising
<1> QED BY <1>1, <1>2, <1>3 DEF Linked

\* An iterator that comes to the list stands at its head.
LEMMA Inserted ==
  ASSUME StreamBounds, NEW f \in [Iter -> Iterators], NEW head, Linked(head, f),
         NEW i \in Iter, ~f[i].attached,
         NEW x \in Iterators, x.attached, x.prev = S!Nullptr, x.next = S!Nullptr,
         NEW l, l.head = head, l.it = [f EXCEPT ![i] = x]
  PROVE  LET g == S!InsertIterator(l, i) IN
         /\ g.it \in [Iter -> Iterators] /\ Linked(g.head, g.it)
         /\ \A j \in Iter : Alike(g.it[j], IF j = i THEN x ELSE f[j])
<1> DEFINE g == S!InsertIterator(l, i).it
<1>1. S!InsertIterator(l, i).head = i
  BY DEF S!InsertIterator
<1>2. head \in Iter \cup {S!Nullptr} /\ head # i
  BY DEF Linked, On, StreamBounds
<1>3. g = [j \in Iter |-> IF j = i THEN [x EXCEPT !.next = head]
                          ELSE IF j = head THEN [f[j] EXCEPT !.prev = i] ELSE f[j]]
  BY DEF S!InsertIterator
<1>4. ASSUME NEW j \in Iter PROVE
        /\ g[j] \in Iterators /\ Alike(g[j], IF j = i THEN x ELSE f[j])
        /\ g[j].prev = (IF j = i THEN S!Nullptr ELSE IF j = head THEN i ELSE f[j].prev)
        /\ g[j].next = (IF j = i THEN head ELSE f[j].next)
  <2>1. g[j] = IF j = i THEN [x EXCEPT !.next = head]
               ELSE IF j = head THEN [f[j] EXCEPT !.prev = i] ELSE f[j]
    BY <1>3
  <2>2. f[j] \in Iterators
    OBVIOUS
  <2> HIDE DEF g
  <2> QED BY <1>2, <2>1, <2>2 DEF Iterators, Alike
<1>5. g \in [Iter -> Iterators]
  BY <1>3, <1>4
<1> HIDE DEF g
<1>6. On(g) = On(f) \cup {i} /\ i \notin On(f) /\ On(f) \subseteq Iter
  BY <1>4 DEF On, Alike
<1>7. Linked(i, g)
  <2>1. \A j \in Iter : ~g[j].attached => g[j].prev = S!Nullptr /\ g[j].next = S!Nullptr
    <3>1. SUFFICES ASSUME NEW j \in Iter, ~g[j].attached
                   PROVE  g[j].prev = S!Nullptr /\ g[j].next = S!Nullptr
      OBVIOUS
    <3>2. j # i /\ ~f[j].attached
      BY <1>4, <3>1 DEF Alike
    <3>3. f[j].prev = S!Nullptr /\ f[j].next = S!Nullptr /\ j # head
      BY <3>2 DEF Linked, On, StreamBounds
    <3> QED BY <1>4, <3>2, <3>3
  <2>2. ASSUME NEW j \in On(g) PROVE
          /\ g[j].prev = S!Nullptr <=> j = i
          /\ g[j].next # S!Nullptr => g[j].next \in On(g) /\ g[g[j].next].prev = j
          /\ g[j].prev # S!Nullptr => g[j].prev \in On(g) /\ g[g[j].prev].next = j
    <3>1. CASE j = i
      BY <1>2, <1>4, <1>6, <3>1 DEF Linked, StreamBounds
    <3>2. CASE j # i
      <4>1. j \in On(f) /\ j \in Iter
        BY <1>6, <3>2
      <4>2. g[j].prev = (IF j = head THEN i ELSE f[j].prev) /\ g[j].next = f[j].next
        BY <1>4, <3>2, <4>1
      <4>3. g[j].prev # S!Nullptr
        BY <4>1, <4>2 DEF Linked, StreamBounds
      <4>4. g[j].next # S!Nullptr => g[j].next \in On(g) /\ g[g[j].next].prev = j
        <5>1. SUFFICES ASSUME f[j].next # S!Nullptr PROVE f[j].next \in On(g) /\ g[f[j].next].prev = j
          BY <4>2
        <5>2. f[j].next \in On(f) /\ f[f[j].next].prev = j /\ j # S!Nullptr
          BY <4>1, <5>1 DEF Linked, StreamBounds
        <5>3. f[j].next # i /\ f[j].next # head /\ f[j].next \in Iter
          BY <1>6, <5>2 DEF Linked
        <5> QED BY <1>4, <1>6, <5>2, <5>3
      <4>5. g[j].prev \in On(g) /\ g[g[j].prev].next = j
        <5>1. CASE j = head
          BY <1>4, <1>6, <4>2, <5>1
        <5>2. CASE j # head
          <6>1. f[j].prev \in On(f) /\ f[f[j].prev].next = j
            BY <4>1, <4>2, <4>3, <5>2 DEF Linked
          <6>2. f[j].prev # i /\ f[j].prev \in Iter
            BY <1>6, <6>1
          <6> QED BY <1>4, <1>6, <4>2, <5>2, <6>1, <6>2
        <5> QED BY <5>1, <5>2
      <4> QED BY <3>2, <4>3, <4>4, <4>5
    <3> QED BY <3>1, <3>2
  <2>3. PICK rank \in [Iter -> Nat] : Rising(f, rank)
    BY DEF Linked
  <2> DEFINE s == [j \in Iter |-> IF j = i THEN 0 ELSE rank[j] + 1]
  <2>4. s \in [Iter -> Nat] /\ \A j \in Iter : s[j] = IF j = i THEN 0 ELSE rank[j] + 1
    OBVIOUS
  <2> HIDE DEF s
  <2>5. Rising(g, s)
    <3>1. SUFFICES ASSUME NEW j \in On(g), g[j].next # S!Nullptr PROVE s[j] < s[g[j].next]
      BY DEF Rising
    <3>2. g[j].next \in On(f) /\ g[j].next # i /\ g[j].next \in Iter /\ j \in Iter
      BY <1>2, <1>4, <1>6, <3>1 DEF Linked
    <3>3. CASE j = i
      BY <2>3, <2>4, <3>2, <3>3
    <3>4. CASE j # i
      <4>1. rank[j] < rank[f[j].next] /\ g[j].next = f[j].next
        BY <1>4, <1>6, <2>3, <3>1, <3>2, <3>4 DEF Rising
      <4>2. s[j] = rank[j] + 1 /\ s[g[j].next] = rank[g[j].next] + 1 /\ rank[j] \in Nat /\ rank[g[j].next] \in Nat
        BY <2>3, <2>4, <3>2, <3>4
      <4> QED BY <4>1, <4>2
    <3> QED BY <3>3, <3>4
  <2> QED BY <1>6, <2>1, <2>2, <2>4, <2>5 DEF Linked
<1> QED BY <1>1, <1>4, <1>5, <1>7 DEF g

\* One that leaves it joins the two that it stood between.
LEMMA Removed ==
  ASSUME StreamBounds, NEW f \in [Iter -> Iterators], NEW head, Linked(head, f),
         NEW i \in Iter, f[i].attached,
         NEW x \in Iterators, ~x.attached, x.prev = S!Nullptr, x.next = S!Nullptr,
         NEW l, l.head = head, l.it = f
  PROVE  LET g == [S!RemoveIterator(l, i).it EXCEPT ![i] = x] IN
         /\ g \in [Iter -> Iterators] /\ Linked(S!RemoveIterator(l, i).head, g)
         /\ \A j \in Iter : Alike(g[j], IF j = i THEN x ELSE f[j])
<1> DEFINE after  == f[i].next
           before == IF i = head THEN S!Nullptr ELSE f[i].prev
           new    == IF i = head THEN after ELSE head
           r      == S!RemoveIterator(l, i).it
           g      == [r EXCEPT ![i] = x]
<1>1. S!RemoveIterator(l, i).head = new
  BY DEF S!RemoveIterator
<1>2. r = [j \in Iter |->
              IF j = i THEN [f[i] EXCEPT !.prev = S!Nullptr, !.next = S!Nullptr]
              ELSE IF j = after THEN [f[j] EXCEPT !.prev = before]
              ELSE IF j = before THEN [f[j] EXCEPT !.next = after] ELSE f[j]]
  BY DEF S!RemoveIterator
<1>3. /\ before = f[i].prev /\ i \in On(f) /\ On(f) \subseteq Iter
      /\ before \in Iter \cup {S!Nullptr} /\ after \in Iter \cup {S!Nullptr}
      /\ (before = S!Nullptr <=> i = head)
      /\ after # S!Nullptr => after \in On(f) /\ f[after].prev = i
      /\ before # S!Nullptr => before \in On(f) /\ f[before].next = i
  BY DEF Linked, On, Iterators
<1>4. PICK rank \in [Iter -> Nat] : Rising(f, rank)
  BY DEF Linked
<1>5. /\ after # S!Nullptr => rank[i] < rank[after]
      /\ before # S!Nullptr => rank[before] < rank[i]
      /\ \A j \in Iter : rank[j] \in Nat
  <2>1. \A j \in Iter : rank[j] \in Nat
    BY <1>4
  <2>2. after # S!Nullptr => rank[i] < rank[after]
    BY <1>3, <1>4 DEF Rising
  <2>3. before # S!Nullptr => rank[before] < rank[i]
    <3>1. SUFFICES ASSUME before # S!Nullptr PROVE rank[before] < rank[i]
      OBVIOUS
    <3>2. before \in On(f) /\ f[before].next = i /\ i # S!Nullptr
      BY <1>3, <3>1 DEF StreamBounds
    <3> HIDE DEF before
    <3> QED BY <1>4, <3>2 DEF Rising
  <2> QED BY <2>1, <2>2, <2>3
<1>6. before # i /\ after # i /\ (before # S!Nullptr => before # after)
  BY <1>3, <1>5 DEF StreamBounds
<1>7. ASSUME NEW j \in Iter PROVE
        /\ g[j] \in Iterators /\ Alike(g[j], IF j = i THEN x ELSE f[j])
        /\ g[j].prev = (IF j = i THEN S!Nullptr ELSE IF j = after THEN before ELSE f[j].prev)
        /\ g[j].next = (IF j = i THEN S!Nullptr ELSE IF j = before THEN after ELSE f[j].next)
  <2>1. g[j] = IF j = i THEN x
               ELSE IF j = after THEN [f[j] EXCEPT !.prev = before]
               ELSE IF j = before THEN [f[j] EXCEPT !.next = after] ELSE f[j]
    BY <1>2
  <2>2. f[j] \in Iterators
    OBVIOUS
  <2> HIDE DEF g, after, before
  <2> QED BY <1>3, <1>6, <2>1, <2>2 DEF Iterators, Alike, StreamBounds
<1>8. g \in [Iter -> Iterators]
  BY <1>2, <1>7
<1> HIDE DEF g
<1>9. On(g) = On(f) \ {i}
  BY <1>7 DEF On, Alike
<1>10. Linked(new, g)
  <2>1. \A j \in Iter : ~g[j].attached => g[j].prev = S!Nullptr /\ g[j].next = S!Nullptr
    <3>1. SUFFICES ASSUME NEW j \in Iter, ~g[j].attached, j # i
                   PROVE  g[j].prev = S!Nullptr /\ g[j].next = S!Nullptr
      BY <1>7
    <3>2. j \notin On(f) /\ f[j].prev = S!Nullptr /\ f[j].next = S!Nullptr
      BY <1>7, <3>1 DEF Linked, Alike, On
    <3>3. j # after /\ j # before
      BY <1>3, <3>2 DEF StreamBounds
    <3> QED BY <1>7, <3>1, <3>2, <3>3
  <2>2. new \in On(g) \cup {S!Nullptr}
    BY <1>3, <1>6, <1>9 DEF Linked
  <2>3. ASSUME NEW j \in On(g) PROVE
          /\ g[j].prev = S!Nullptr <=> j = new
          /\ g[j].next # S!Nullptr => g[j].next \in On(g) /\ g[g[j].next].prev = j
          /\ g[j].prev # S!Nullptr => g[j].prev \in On(g) /\ g[g[j].prev].next = j
    <3>1. j \in Iter /\ j \in On(f) /\ j # i /\ j # S!Nullptr
      BY <1>3, <1>9 DEF StreamBounds
    <3>2. /\ g[j].prev = (IF j = after THEN before ELSE f[j].prev)
          /\ g[j].next = (IF j = before THEN after ELSE f[j].next)
      BY <1>7, <3>1
    <3>3. /\ f[j].prev = S!Nullptr <=> j = head
          /\ f[j].next # S!Nullptr => f[j].next \in On(f) /\ f[f[j].next].prev = j
          /\ f[j].prev # S!Nullptr => f[j].prev \in On(f) /\ f[f[j].prev].next = j
      BY <3>1 DEF Linked
    <3>4. (f[j].next = i => j = before) /\ (f[j].prev = i => j = after)
      BY <1>3, <3>1, <3>3 DEF StreamBounds
    <3> HIDE DEF after, before
    <3>5. g[j].prev = S!Nullptr <=> j = new
      <4>1. CASE j = after
        <5>1. f[j].prev = i /\ j # head
          BY <1>3, <3>1, <3>3, <4>1 DEF StreamBounds
        <5> QED BY <1>3, <3>2, <4>1, <5>1 DEF after
      <4>2. CASE j # after
        BY <1>3, <3>1, <3>2, <3>3, <4>2 DEF after
      <4> QED BY <4>1, <4>2
    <3>6. g[j].next # S!Nullptr => g[j].next \in On(g) /\ g[g[j].next].prev = j
      <4>1. CASE j = before
        BY <1>3, <1>6, <1>7, <1>9, <3>1, <3>2, <4>1
      <4>2. CASE j # before
        <5>1. SUFFICES ASSUME f[j].next # S!Nullptr PROVE f[j].next \in On(g) /\ g[f[j].next].prev = j
          BY <3>2, <4>2
        <5>2. f[j].next \in On(f) /\ f[f[j].next].prev = j /\ f[j].next # i /\ f[j].next \in Iter
          BY <1>3, <3>3, <3>4, <4>2, <5>1
        <5>3. f[j].next # after
          BY <1>3, <3>1, <5>2 DEF StreamBounds
        <5> QED BY <1>7, <1>9, <5>2, <5>3
      <4> QED BY <4>1, <4>2
    <3>7. g[j].prev # S!Nullptr => g[j].prev \in On(g) /\ g[g[j].prev].next = j
      <4>1. CASE j = after
        BY <1>3, <1>6, <1>7, <1>9, <3>1, <3>2, <4>1
      <4>2. CASE j # after
        <5>1. SUFFICES ASSUME f[j].prev # S!Nullptr PROVE f[j].prev \in On(g) /\ g[f[j].prev].next = j
          BY <3>2, <4>2
        <5>2. f[j].prev \in On(f) /\ f[f[j].prev].next = j /\ f[j].prev # i /\ f[j].prev \in Iter
          BY <1>3, <3>3, <3>4, <4>2, <5>1
        <5>3. f[j].prev # before
          BY <1>3, <3>1, <5>2 DEF StreamBounds
        <5> QED BY <1>7, <1>9, <5>2, <5>3
      <4> QED BY <4>1, <4>2
    <3> QED BY <3>5, <3>6, <3>7
  <2>4. Rising(g, rank)
    <3>1. SUFFICES ASSUME NEW j \in On(g), g[j].next # S!Nullptr PROVE rank[j] < rank[g[j].next]
      BY DEF Rising
    <3>2. j \in Iter /\ j \in On(f) /\ j # i
      BY <1>3, <1>9
    <3>3. g[j].next = (IF j = before THEN after ELSE f[j].next)
      BY <1>7, <3>2
    <3> HIDE DEF after, before
    <3>4. CASE j = before
      <4>1. after # S!Nullptr /\ g[j].next = after /\ before # S!Nullptr
        BY <3>1, <3>2, <3>3, <3>4 DEF StreamBounds
      <4>2. rank[before] < rank[i] /\ rank[i] < rank[after] /\ before \in Iter /\ after \in Iter
        BY <1>3, <1>5, <4>1
      <4>3. rank[before] \in Nat /\ rank[i] \in Nat /\ rank[after] \in Nat
        BY <1>5, <4>2
      <4> QED BY <3>4, <4>1, <4>2, <4>3
    <3>5. CASE j # before
      BY <1>4, <3>1, <3>2, <3>3, <3>5 DEF Rising
    <3> QED BY <3>4, <3>5
  <2> HIDE DEF new, after, before
  <2> QED BY <1>4, <2>1, <2>2, <2>3, <2>4 DEF Linked
<1> HIDE DEF new, r
<1>11. /\ g \in [Iter -> Iterators] /\ Linked(S!RemoveIterator(l, i).head, g)
       /\ \A j \in Iter : Alike(g[j], IF j = i THEN x ELSE f[j])
  BY <1>1, <1>7, <1>8, <1>10
<1> QED BY <1>11 DEF g, r

\* What an iterator shows does not depend on its links.
LEMMA ShowsAlike ==
  ASSUME NEW x, NEW y, Alike(x, y), Shows(y)
  PROVE  Shows(x)
BY DEF Alike, Shows

\* One that comes to the stream stands where the next one to move will come to.
LEMMA ShowsNew ==
  ASSUME m_stride \in Int, m_reqpos \in Int, m_realpos \in Int,
         NEW x \in Iterators, x.alive, x.here = {}, x.pos = m_reqpos, x.late <=> m_reqpos < m_realpos
  PROVE  Shows(x)
<1>1. m_reqpos = x.pos + 0 * m_stride
  OBVIOUS
<1> QED BY <1>1 DEF Shows

\* What holds of an iterator holds of the copy, and of what stands on no stream.
LEMMA ShowsCopy ==
  ASSUME NEW i \in Iter, NEW j \in Iter, it \in [Iter -> Iterators], Shows(it[j])
  PROVE  /\ S!Copied(i, j) \in Iterators /\ Shows(S!Copied(i, j)) /\ Alike(S!Copied(i, j), it[j])
         /\ S!Copied(i, j).prev = it[i].prev /\ S!Copied(i, j).next = it[i].next
<1>1. it[i] \in Iterators /\ it[j] \in Iterators
  OBVIOUS
<1>2. /\ S!Copied(i, j) \in Iterators /\ Alike(S!Copied(i, j), it[j])
      /\ S!Copied(i, j).prev = it[i].prev /\ S!Copied(i, j).next = it[i].next
  BY <1>1 DEF S!Copied, Iterators, Alike
<1> QED BY <1>2, ShowsAlike

\* A stream is opened with no iterator on it.
LEMMA StreamInit == StreamBounds /\ S!Init => StreamInv
<1> SUFFICES ASSUME StreamBounds, S!Init PROVE StreamInv
  OBVIOUS
<1>1. S!NoIterator \in Iterators
  BY DEF S!NoIterator, Iterators
<1>2. it = [i \in Iter |-> S!NoIterator] /\ \A i \in Iter : it[i] = S!NoIterator
  BY DEF S!Init
<1>3. S!NoIterator.attached = FALSE /\ S!NoIterator.prev = S!Nullptr /\ S!NoIterator.next = S!Nullptr
  BY DEF S!NoIterator
<1>4. On(it) = {}
  BY <1>2, <1>3 DEF On
<1>5. [i \in Iter |-> 0] \in [Iter -> Nat] /\ Rising(it, [i \in Iter |-> 0])
  BY <1>4 DEF Rising
<1>6. Linked(m_iterators, it)
  BY <1>2, <1>3, <1>4, <1>5 DEF Linked, S!Init
<1>7. \A i \in Iter : Shows(it[i])
  BY <1>2, <1>3 DEF Shows
<1> QED BY <1>1, <1>2, <1>6, <1>7 DEF StreamInv, S!Init

\* The actions of an iterator on the list leave the stream where it is: then the
\* invariant is that of the new list.
LEMMA StreamList ==
  ASSUME StreamInv, S!Same, it' \in [Iter -> Iterators], Linked(m_iterators', it'),
         \A i \in Iter : Shows(it'[i])
  PROVE  StreamInv'
<1>1. /\ m_stride' = m_stride /\ m_realpos' = m_realpos /\ m_reqpos' = m_reqpos
  BY DEF S!Same
<1>2. PICK f : f = it'
  OBVIOUS
<1>3. \A i \in Iter : Shows(f[i])
  BY <1>2
<1>4. \A i \in Iter : Shows(f[i])'
  BY <1>1, <1>3 DEF Shows, S!Block
<1>5. Linked(m_iterators, it)'
  BY DEF Linked, On, Rising
<1> QED BY <1>1, <1>2, <1>4, <1>5 DEF StreamInv

\* Calls of the stream itself come while no iterator is on it, and put none there.
LEMMA StreamIdle ==
  ASSUME StreamBounds, StreamInv, S!Get \/ S!Ignore \/ S!SetStride
  PROVE  StreamInv'
<1>1. S!Attached = {} /\ it' = it /\ m_iterators' = m_iterators /\ m_reqpos' = m_reqpos
  BY DEF S!Get, S!Ignore, S!SetStride
<1>2. m_stride' \in 1..MaxStep /\ m_realpos' \in Int
  BY DEF S!Get, S!Ignore, S!SetStride, S!Least, StreamInv, StreamBounds
<1>3. \A i \in Iter : ~it[i].attached
  BY <1>1 DEF S!Attached
<1>4. \A i \in Iter : Shows(it[i])'
  BY <1>1, <1>3 DEF Shows
<1>5. Linked(m_iterators, it)'
  BY <1>1 DEF StreamInv, Linked, On, Rising
<1> QED BY <1>1, <1>2, <1>4, <1>5 DEF StreamInv

\* A new iterator on the stream stands at its head.
LEMMA StreamConstruct ==
  ASSUME StreamBounds, StreamInv, NEW i \in Iter, S!ConstructEnd(i) \/ S!Construct(i)
  PROVE  StreamInv'
<1>1. /\ it \in [Iter -> Iterators] /\ Linked(m_iterators, it) /\ \A j \in Iter : Shows(it[j])
      /\ m_stride \in Int /\ m_reqpos \in Int /\ m_realpos \in Int
  BY DEF StreamInv
<1>2. ~it[i].alive /\ ~it[i].attached /\ it[i].prev = S!Nullptr /\ it[i].next = S!Nullptr
  BY <1>1 DEF S!ConstructEnd, S!Construct, Shows, Linked
<1>3. S!NoIterator \in Iterators
  BY DEF S!NoIterator, Iterators
<1>4. CASE S!ConstructEnd(i)
  <2> DEFINE x == [S!NoIterator EXCEPT !.alive = TRUE]
  <2>1. x \in Iterators /\ ~x.attached /\ x.prev = S!Nullptr /\ x.next = S!Nullptr
    BY <1>3 DEF S!NoIterator, Iterators
  <2>2. it' = [it EXCEPT ![i] = x] /\ m_iterators' = m_iterators /\ S!Same
    BY <1>4 DEF S!ConstructEnd
  <2> HIDE DEF x
  <2>3. it' \in [Iter -> Iterators] /\ \A j \in Iter : it'[j] = IF j = i THEN x ELSE it[j]
    BY <1>1, <2>1, <2>2
  <2>4. \A j \in Iter : Shows(it'[j])
    BY <1>1, <2>1, <2>3 DEF Shows
  <2>5. PICK g : g = it'
    OBVIOUS
  <2>6. \A j \in Iter : g[j].attached = it[j].attached /\ g[j].prev = it[j].prev /\ g[j].next = it[j].next
    <3>1. it[i].attached = FALSE /\ x.attached = FALSE
      BY <1>1, <1>2, <2>1 DEF Iterators
    <3> QED BY <1>2, <2>1, <2>3, <2>5, <3>1
  <2>7. Linked(m_iterators, g)
    BY <1>1, <2>6, SameLinks
  <2> QED BY <2>2, <2>3, <2>4, <2>5, <2>7, StreamList
<1>5. CASE S!Construct(i)
  <2> DEFINE v == m_reqpos < m_realpos
             x == [S!NoIterator EXCEPT !.alive = TRUE, !.attached = TRUE, !.pos = m_reqpos, !.late = v]
             l == [S!List EXCEPT !.it[i] = x]
  <2>2. S!Becomes(S!InsertIterator(l, i)) /\ S!Same
    BY <1>5 DEF S!Construct
  <2>a. v \in BOOLEAN
    OBVIOUS
  <2> HIDE DEF v
  <2>1. /\ x \in Iterators /\ x.attached /\ x.prev = S!Nullptr /\ x.next = S!Nullptr
        /\ x.alive /\ x.here = {} /\ x.pos = m_reqpos /\ x.late = v
    BY <1>1, <1>3, <2>a DEF S!NoIterator, Iterators
  <2> HIDE DEF x
  <2>3. l.head = m_iterators /\ l.it = [it EXCEPT ![i] = x]
    BY DEF S!List
  <2> HIDE DEF l
  <2>4. PICK g : g = S!InsertIterator(l, i)
    OBVIOUS
  <2>5. /\ g.it \in [Iter -> Iterators] /\ Linked(g.head, g.it)
        /\ \A j \in Iter : Alike(g.it[j], IF j = i THEN x ELSE it[j])
    BY <1>1, <1>2, <2>1, <2>3, <2>4, Inserted
  <2>6. Shows(x)
    BY <1>1, <2>1, ShowsNew DEF v
  <2>7. \A j \in Iter : Shows(g.it[j])
    BY <1>1, <2>5, <2>6, ShowsAlike
  <2>8. it' = g.it /\ m_iterators' = g.head
    BY <2>2, <2>4 DEF S!Becomes
  <2> QED BY <2>2, <2>5, <2>7, <2>8, StreamList
<1> QED BY <1>4, <1>5

\* A copy of an iterator stands where the original does, and shows what it shows.
LEMMA StreamCopy ==
  ASSUME StreamBounds, StreamInv, NEW i \in Iter, NEW j \in Iter, S!Copy(i, j)
  PROVE  StreamInv'
<1>1. /\ it \in [Iter -> Iterators] /\ Linked(m_iterators, it) /\ \A k \in Iter : Shows(it[k])
  BY DEF StreamInv
<1>2. ~it[i].alive /\ ~it[i].attached /\ it[i].prev = S!Nullptr /\ it[i].next = S!Nullptr
  BY <1>1 DEF S!Copy, Shows, Linked
<1> DEFINE x == S!Copied(i, j)
           l == [S!List EXCEPT !.it[i] = x]
<1>3. /\ x \in Iterators /\ Shows(x) /\ Alike(x, it[j]) /\ x.prev = S!Nullptr /\ x.next = S!Nullptr
  BY <1>1, <1>2, ShowsCopy
<1>4. S!Becomes(IF it[j].attached THEN S!InsertIterator(l, i) ELSE l) /\ S!Same
  BY DEF S!Copy
<1> HIDE DEF x
<1>5. l.head = m_iterators /\ l.it = [it EXCEPT ![i] = x]
  BY DEF S!List
<1> HIDE DEF l
<1>6. CASE it[j].attached
  <2>1. PICK g : g = S!InsertIterator(l, i)
    OBVIOUS
  <2>2. /\ g.it \in [Iter -> Iterators] /\ Linked(g.head, g.it)
        /\ \A k \in Iter : Alike(g.it[k], IF k = i THEN x ELSE it[k])
    <3>1. x.attached
      BY <1>3, <1>6 DEF Alike
    <3> QED BY <1>1, <1>2, <1>3, <1>5, <2>1, <3>1, Inserted
  <2>3. \A k \in Iter : Shows(g.it[k])
    BY <1>1, <1>3, <2>2, ShowsAlike
  <2>4. it' = g.it /\ m_iterators' = g.head
    BY <1>4, <1>6, <2>1 DEF S!Becomes
  <2> QED BY <1>4, <2>2, <2>3, <2>4, StreamList
<1>7. CASE ~it[j].attached
  <2>1. it' = [it EXCEPT ![i] = x] /\ m_iterators' = m_iterators
    BY <1>4, <1>5, <1>7 DEF S!Becomes
  <2>2. PICK g : g = it'
    OBVIOUS
  <2>3. g \in [Iter -> Iterators] /\ \A k \in Iter : g[k] = IF k = i THEN x ELSE it[k]
    BY <1>1, <1>3, <2>1, <2>2
  <2>4. x.attached = FALSE /\ it[i].attached = FALSE
    BY <1>1, <1>2, <1>3, <1>7 DEF Alike, Iterators
  <2>5. \A k \in Iter : g[k].attached = it[k].attached /\ g[k].prev = it[k].prev /\ g[k].next = it[k].next
    BY <1>2, <1>3, <2>3, <2>4
  <2>6. Linked(m_iterators, g)
    BY <1>1, <2>5, SameLinks
  <2>7. \A k \in Iter : Shows(g[k])
    BY <1>1, <1>3, <2>3
  <2> QED BY <1>4, <2>1, <2>2, <2>3, <2>6, <2>7, StreamList
<1> QED BY <1>6, <1>7

\* An assignment takes the iterator off one list and puts it on the other.
LEMMA StreamAssign ==
  ASSUME StreamBounds, StreamInv, NEW i \in Iter, NEW j \in Iter, S!Assign(i, j)
  PROVE  StreamInv'
<1>1. /\ it \in [Iter -> Iterators] /\ Linked(m_iterators, it) /\ \A k \in Iter : Shows(it[k])
  BY DEF StreamInv
<1>2. it[i] \in Iterators /\ it[j] \in Iterators /\ S!Same /\ i # j
  BY <1>1 DEF S!Assign
<1> DEFINE x == S!Copied(i, j)
           l == [S!List EXCEPT !.it[i] = x]
<1>3. /\ x \in Iterators /\ Shows(x) /\ Alike(x, it[j]) /\ x.prev = it[i].prev /\ x.next = it[i].next
  BY <1>1, ShowsCopy
<1>4. l.head = m_iterators /\ l.it = [it EXCEPT ![i] = x]
  BY DEF S!List
<1>5. CASE it[i].attached = it[j].attached
  <2>1. it' = [it EXCEPT ![i] = x] /\ m_iterators' = m_iterators
    BY <1>4, <1>5 DEF S!Assign, S!Becomes
  <2> HIDE DEF x, l
  <2>2. PICK g : g = it'
    OBVIOUS
  <2>3. g \in [Iter -> Iterators] /\ \A k \in Iter : g[k] = IF k = i THEN x ELSE it[k]
    BY <1>1, <1>3, <2>1, <2>2
  <2>4. \A k \in Iter : g[k].attached = it[k].attached /\ g[k].prev = it[k].prev /\ g[k].next = it[k].next
    BY <1>3, <1>5, <2>3 DEF Alike
  <2>5. Linked(m_iterators, g)
    BY <1>1, <2>4, SameLinks
  <2>6. \A k \in Iter : Shows(g[k])
    BY <1>1, <1>3, <2>3
  <2> QED BY <1>2, <2>1, <2>2, <2>3, <2>5, <2>6, StreamList
<1>6. CASE it[i].attached # it[j].attached /\ it[i].attached
  <2> DEFINE y == [it[j] EXCEPT !.prev = S!Nullptr, !.next = S!Nullptr]
             r == S!RemoveIterator(S!List, i)
  <2>1. ~it[j].attached
    BY <1>2, <1>6 DEF Iterators
  <2>2. y \in Iterators /\ ~y.attached /\ y.prev = S!Nullptr /\ y.next = S!Nullptr
    BY <1>2, <2>1 DEF Iterators
  <2>3. it' = [r EXCEPT !.it[i] = y].it /\ m_iterators' = [r EXCEPT !.it[i] = y].head
    BY <1>6 DEF S!Assign, S!Becomes
  <2> HIDE DEF y
  <2>4. S!List.head = m_iterators /\ S!List.it = it
    BY DEF S!List
  <2>5. it' = [r.it EXCEPT ![i] = y] /\ m_iterators' = r.head
    BY <2>3 DEF S!RemoveIterator
  <2>6. PICK g : g = [r.it EXCEPT ![i] = y]
    OBVIOUS
  <2>7. /\ g \in [Iter -> Iterators] /\ Linked(r.head, g)
        /\ \A k \in Iter : Alike(g[k], IF k = i THEN y ELSE it[k])
    BY <1>1, <1>6, <2>2, <2>4, <2>6, Removed
  <2>8. Shows(y)
    BY <2>2 DEF Shows
  <2>9. \A k \in Iter : Shows(g[k])
    BY <1>1, <2>7, <2>8, ShowsAlike
  <2> QED BY <1>2, <2>5, <2>6, <2>7, <2>9, StreamList
<1>7. CASE it[i].attached # it[j].attached /\ ~it[i].attached
  <2>1. S!Becomes(S!InsertIterator(l, i))
    BY <1>7 DEF S!Assign
  <2>2. x.attached /\ x.prev = S!Nullptr /\ x.next = S!Nullptr
    BY <1>1, <1>2, <1>3, <1>7 DEF Alike, Iterators, Linked
  <2> HIDE DEF x, l
  <2>3. PICK g : g = S!InsertIterator(l, i)
    OBVIOUS
  <2>4. /\ g.it \in [Iter -> Iterators] /\ Linked(g.head, g.it)
        /\ \A k \in Iter : Alike(g.it[k], IF k = i THEN x ELSE it[k])
    BY <1>1, <1>3, <1>4, <1>7, <2>2, <2>3, Inserted
  <2>5. \A k \in Iter : Shows(g.it[k])
    BY <1>1, <1>3, <2>4, ShowsAlike
  <2>6. it' = g.it /\ m_iterators' = g.head
    BY <2>1, <2>3 DEF S!Becomes
  <2> QED BY <1>2, <2>4, <2>5, <2>6, StreamList
<1> QED BY <1>5, <1>6, <1>7

\* An iterator that is destroyed is on no list.
LEMMA StreamDestroy ==
  ASSUME StreamBounds, StreamInv, NEW i \in Iter, S!Destroy(i)
  PROVE  StreamInv'
<1>1. /\ it \in [Iter -> Iterators] /\ Linked(m_iterators, it) /\ \A k \in Iter : Shows(it[k])
  BY DEF StreamInv
<1>2. S!NoIterator \in Iterators /\ ~S!NoIterator.attached /\ S!NoIterator.attached = FALSE
      /\ S!NoIterator.prev = S!Nullptr /\ S!NoIterator.next = S!Nullptr
  BY DEF S!NoIterator, Iterators
<1>3. S!Same /\ Shows(S!NoIterator)
  BY <1>2 DEF S!Destroy, Shows
<1>4. S!List.head = m_iterators /\ S!List.it = it
  BY DEF S!List
<1>5. CASE it[i].attached
  <2> DEFINE r == S!RemoveIterator(S!List, i)
  <2>1. it' = [r EXCEPT !.it[i] = S!NoIterator].it /\ m_iterators' = [r EXCEPT !.it[i] = S!NoIterator].head
    BY <1>5 DEF S!Destroy, S!Becomes
  <2>2. it' = [r.it EXCEPT ![i] = S!NoIterator] /\ m_iterators' = r.head
    BY <2>1 DEF S!RemoveIterator
  <2>3. PICK g : g = [r.it EXCEPT ![i] = S!NoIterator]
    OBVIOUS
  <2>4. /\ g \in [Iter -> Iterators] /\ Linked(r.head, g)
        /\ \A k \in Iter : Alike(g[k], IF k = i THEN S!NoIterator ELSE it[k])
    BY <1>1, <1>2, <1>4, <1>5, <2>3, Removed
  <2>5. \A k \in Iter : Shows(g[k])
    BY <1>1, <1>3, <2>4, ShowsAlike
  <2> QED BY <1>3, <2>2, <2>3, <2>4, <2>5, StreamList
<1>6. CASE ~it[i].attached
  <2>1. it' = [it EXCEPT ![i] = S!NoIterator] /\ m_iterators' = m_iterators
    BY <1>6 DEF S!Destroy, S!Becomes, S!List
  <2>2. PICK g : g = it'
    OBVIOUS
  <2>3. g \in [Iter -> Iterators] /\ \A k \in Iter : g[k] = IF k = i THEN S!NoIterator ELSE it[k]
    BY <1>1, <1>2, <2>1, <2>2
  <2>4. it[i].attached = FALSE /\ it[i].prev = S!Nullptr /\ it[i].next = S!Nullptr
    BY <1>1, <1>6 DEF Iterators, Linked
  <2>5. \A k \in Iter : g[k].attached = it[k].attached /\ g[k].prev = it[k].prev /\ g[k].next = it[k].next
    BY <1>2, <2>3, <2>4
  <2>6. Linked(m_iterators, g)
    BY <1>1, <2>5, SameLinks
  <2>7. \A k \in Iter : Shows(g[k])
    BY <1>1, <1>3, <2>3
  <2> QED BY <1>3, <2>1, <2>2, <2>3, <2>6, <2>7, StreamList
<1> QED BY <1>5, <1>6

\* When the next place to move to goes on by strides, what is shown stays.
LEMMA ShowsOn ==
  ASSUME NEW n \in Nat, m_stride \in Int, m_reqpos \in Int,
         m_reqpos' = m_reqpos + n * m_stride, m_stride' = m_stride, m_realpos' = m_realpos,
         NEW x \in Iterators, Shows(x)
  PROVE  \A y : y = x => Shows(y)'
<1>1. SUFFICES ASSUME NEW y, y = x PROVE Shows(y)'
  OBVIOUS
<1>2. ASSUME NEW k \in Int, m_reqpos = x.pos + k * m_stride
      PROVE  m_reqpos' = x.pos + (k + n) * m_stride
  <2>1. k * m_stride \in Int /\ n * m_stride \in Int /\ x.pos \in Int
    BY DEF Iterators
  <2>2. (k + n) * m_stride = k * m_stride + n * m_stride
    OBVIOUS
  <2> QED BY <1>2, <2>1, <2>2
<1>3. \A k \in Int : k + n \in Int
  OBVIOUS
<1> QED BY <1>1, <1>2, <1>3 DEF Shows, S!Block

\* One that is moved comes to the next place.
LEMMA ShowsMoved ==
  ASSUME NEW y, y.attached, y.alive, y.here = {}, y.pos = m_reqpos', y.late <=> y.pos < m_realpos,
         y.pos \in Int, m_stride \in Int, m_stride' = m_stride, m_realpos' = m_realpos
  PROVE  \A z : Alike(z, y) => Shows(z)'
<1>1. y.pos = y.pos + 0 * m_stride
  OBVIOUS
<1>2. ASSUME NEW z, Alike(z, y) PROVE Shows(z)'
  BY <1>1, <1>2 DEF Shows, Alike
<1> QED BY <1>2

\* An iterator that moves on comes to the end of what was asked of the stream.
LEMMA StreamAdvance ==
  ASSUME StreamBounds, StreamInv, NEW i \in Iter, NEW n \in 1..2, S!Advance(i, n)
  PROVE  StreamInv'
<1>1. /\ it \in [Iter -> Iterators] /\ Linked(m_iterators, it) /\ \A k \in Iter : Shows(it[k])
      /\ m_stride \in 1..MaxStep /\ m_reqpos \in Int /\ m_realpos \in Int /\ m_stride \in Nat
  BY DEF StreamInv, StreamBounds
<1> DEFINE v == m_reqpos' < m_realpos
           x == [it[i] EXCEPT !.pos = m_reqpos', !.here = {}, !.late = v]
<1>2. /\ m_reqpos' = m_reqpos + n * m_stride /\ it' = [it EXCEPT ![i] = x]
      /\ m_stride' = m_stride /\ m_realpos' = m_realpos /\ m_iterators' = m_iterators /\ it[i].attached
  BY DEF S!Advance
<1>3. m_reqpos' \in Int /\ n \in Nat
  BY <1>1, <1>2
<1>4. v \in BOOLEAN /\ (v <=> m_reqpos' < m_realpos)
  OBVIOUS
<1> HIDE DEF v
<1>5. it[i] \in Iterators /\ it[i].alive
  BY <1>1, <1>2 DEF Shows
<1>6. /\ x \in Iterators /\ x.attached = it[i].attached /\ x.prev = it[i].prev /\ x.next = it[i].next
      /\ \A z : Alike(z, x) => Shows(z)'
  <2>1. PICK y : y = x
    OBVIOUS
  <2>2. /\ x \in Iterators /\ x.attached = it[i].attached /\ x.prev = it[i].prev /\ x.next = it[i].next
        /\ x.alive = it[i].alive /\ x.here = {} /\ x.pos = m_reqpos' /\ x.late = v
    BY <1>3, <1>4, <1>5 DEF Iterators
  <2> HIDE DEF x
  <2>3. y.late <=> y.pos < m_realpos
    BY <1>4, <2>1, <2>2
  <2>4. /\ y.attached /\ y.alive /\ y.here = {} /\ y.pos = m_reqpos' /\ y.pos \in Int /\ m_stride \in Int
        /\ m_stride' = m_stride /\ m_realpos' = m_realpos
    BY <1>1, <1>2, <1>3, <1>5, <2>1, <2>2
  <2>5. \A z : Alike(z, y) => Shows(z)'
    BY ONLY <2>3, <2>4, ShowsMoved
  <2> QED BY <2>1, <2>2, <2>5
<1> HIDE DEF x
<1>7. PICK g : g = it'
  OBVIOUS
<1>8. g \in [Iter -> Iterators] /\ \A k \in Iter : g[k] = IF k = i THEN x ELSE it[k]
  BY <1>1, <1>2, <1>6, <1>7
<1>9. \A k \in Iter : g[k].attached = it[k].attached /\ g[k].prev = it[k].prev /\ g[k].next = it[k].next
  BY <1>6, <1>8
<1>10. Linked(m_iterators, g)
  BY <1>1, <1>9, SameLinks
<1>11. ASSUME NEW k \in Iter PROVE Shows(g[k])'
  <2>1. PICK y : y = g[k]
    OBVIOUS
  <2>2. CASE k = i
    <3>1. Alike(y, x)
      BY <1>8, <2>1, <2>2 DEF Alike
    <3>2. Shows(y)'
      BY <1>6, <3>1
    <3> QED BY <2>1, <3>2 DEF Shows, S!Block
  <2>3. CASE k # i
    <3>1. y = it[k] /\ it[k] \in Iterators /\ Shows(it[k])
      BY <1>1, <1>8, <2>1, <2>3
    <3>2. Shows(y)'
      BY <1>1, <1>2, <1>3, <3>1, ShowsOn
    <3> QED BY <2>1, <3>2 DEF Shows, S!Block
  <2> QED BY <2>2, <2>3
<1>12. Linked(m_iterators, it)'
  BY <1>2, <1>7, <1>10 DEF Linked, On, Rising
<1>13. ASSUME NEW k \in Iter PROVE Shows(it[k])'
  BY <1>7, <1>11 DEF Shows
<1> QED BY <1>1, <1>2, <1>3, <1>7, <1>8, <1>12, <1>13 DEF StreamInv

\* it++ leaves a copy behind and moves the iterator on.
LEMMA StreamPostIncrement ==
  ASSUME StreamBounds, StreamInv, NEW i \in Iter, NEW j \in Iter, S!PostIncrement(i, j)
  PROVE  StreamInv'
<1>1. /\ it \in [Iter -> Iterators] /\ Linked(m_iterators, it) /\ \A k \in Iter : Shows(it[k])
      /\ m_stride \in 1..MaxStep /\ m_reqpos \in Int /\ m_realpos \in Int /\ m_stride \in Nat
  BY DEF StreamInv, StreamBounds
<1> DEFINE v == m_reqpos' < m_realpos
           x == [it[i] EXCEPT !.pos = m_reqpos', !.here = {}, !.late = v]
           y == S!Copied(j, i)
           z == [y EXCEPT !.alive = TRUE]
           l == [S!List EXCEPT !.it[i] = x, !.it[j] = z]
<1>2. /\ m_reqpos' = m_reqpos + m_stride /\ S!Becomes(S!InsertIterator(l, j))
      /\ m_stride' = m_stride /\ m_realpos' = m_realpos /\ it[i].attached /\ ~it[j].alive
  BY DEF S!PostIncrement
<1>3. m_reqpos' \in Int /\ m_reqpos' = m_reqpos + 1 * m_stride
  BY <1>1, <1>2
<1>4. v \in BOOLEAN /\ (v <=> m_reqpos' < m_realpos)
  OBVIOUS
<1> HIDE DEF v
<1>5. it[i] \in Iterators /\ it[i].alive
  BY <1>1, <1>2 DEF Shows
<1>6. /\ x \in Iterators /\ x.attached = it[i].attached /\ x.prev = it[i].prev /\ x.next = it[i].next
      /\ \A w : Alike(w, x) => Shows(w)'
  <2>1. PICK w : w = x
    OBVIOUS
  <2>2. /\ x \in Iterators /\ x.attached = it[i].attached /\ x.prev = it[i].prev /\ x.next = it[i].next
        /\ x.alive = it[i].alive /\ x.here = {} /\ x.pos = m_reqpos' /\ x.late = v
    BY <1>3, <1>4, <1>5 DEF Iterators
  <2> HIDE DEF x
  <2>3. w.late <=> w.pos < m_realpos
    BY <1>4, <2>1, <2>2
  <2>4. /\ w.attached /\ w.alive /\ w.here = {} /\ w.pos = m_reqpos' /\ w.pos \in Int /\ m_stride \in Int
        /\ m_stride' = m_stride /\ m_realpos' = m_realpos
    BY <1>1, <1>2, <1>3, <1>5, <2>1, <2>2
  <2>5. \A u : Alike(u, w) => Shows(u)'
    BY ONLY <2>3, <2>4, ShowsMoved
  <2> QED BY <2>1, <2>2, <2>5
<1>7. ~it[j].attached /\ it[j].prev = S!Nullptr /\ it[j].next = S!Nullptr /\ i # j
  BY <1>1, <1>2 DEF Shows, Linked
<1>8. /\ y \in Iterators /\ Shows(y) /\ Alike(y, it[i]) /\ y.prev = S!Nullptr /\ y.next = S!Nullptr
  BY <1>1, <1>7, ShowsCopy
<1>9. z \in Iterators /\ z.attached /\ z.prev = S!Nullptr /\ z.next = S!Nullptr /\ Alike(z, y)
  BY <1>2, <1>5, <1>8 DEF Alike, Iterators
<1> HIDE DEF x, y
<1> DEFINE f == [it EXCEPT ![i] = x]
<1>10. l.head = m_iterators /\ l.it = [f EXCEPT ![j] = z]
  BY DEF S!List
<1>11. f \in [Iter -> Iterators] /\ \A k \in Iter : f[k] = IF k = i THEN x ELSE it[k]
  BY <1>1, <1>6
<1> HIDE DEF f, l, z
<1>12. \A k \in Iter : f[k].attached = it[k].attached /\ f[k].prev = it[k].prev /\ f[k].next = it[k].next
  BY <1>6, <1>11
<1>13. Linked(m_iterators, f) /\ ~f[j].attached
  BY <1>1, <1>7, <1>12, SameLinks
<1>14. PICK g : g = S!InsertIterator(l, j)
  OBVIOUS
<1>15. /\ g.it \in [Iter -> Iterators] /\ Linked(g.head, g.it)
       /\ \A k \in Iter : Alike(g.it[k], IF k = j THEN z ELSE f[k])
  BY <1>9, <1>10, <1>11, <1>13, <1>14, Inserted
<1>16. it' = g.it /\ m_iterators' = g.head
  BY <1>2, <1>14 DEF S!Becomes
<1>17. ASSUME NEW k \in Iter PROVE \A w : w = g.it[k] => Shows(w)'
  <2>1. PICK w : w = g.it[k]
    OBVIOUS
  <2>2. CASE k = i
    <3>1. Alike(w, x)
      BY <1>7, <1>11, <1>15, <2>1, <2>2
    <3> QED BY <1>6, <2>1, <3>1
  <2>3. CASE k # i
    <3>1. \E u \in Iterators : Shows(u) /\ Alike(w, u)
      <4>1. CASE k = j
        BY <1>8, <1>9, <1>15, <2>1, <4>1, ShowsAlike
      <4>2. CASE k # j
        BY <1>1, <1>11, <1>15, <2>1, <2>3, <4>2
      <4> QED BY <4>1, <4>2
    <3>2. w \in Iterators /\ Shows(w)
      BY <1>15, <2>1, <3>1, ShowsAlike
    <3> QED BY <1>1, <1>2, <1>3, <2>1, <3>2, ShowsOn
  <2> QED BY <2>2, <2>3
<1>18. ASSUME NEW k \in Iter PROVE Shows(it[k])'
  <2>1. PICK w : w = g.it[k]
    OBVIOUS
  <2>2. Shows(w)' /\ it'[k] = w
    BY <1>16, <1>17, <2>1
  <2> QED BY <2>2 DEF Shows, S!Block
<1>19. Linked(m_iterators, it)'
  BY <1>15, <1>16 DEF Linked, On, Rising
<1> QED BY <1>1, <1>2, <1>3, <1>15, <1>16, <1>18, <1>19 DEF StreamInv

\* A read serves every iterator that waits for a block up to this one.
LEMMA StreamRefresh ==
  ASSUME StreamBounds, StreamInv, NEW i \in Iter, S!Refresh(i)
  PROVE  StreamInv'
<1>1. /\ it \in [Iter -> Iterators] /\ Linked(m_iterators, it) /\ \A k \in Iter : Shows(it[k])
      /\ m_stride \in 1..MaxStep /\ m_reqpos \in Int /\ m_realpos \in Int /\ m_stride \in Nat /\ m_stride > 0
      /\ StreamRows \in Int
  BY DEF StreamInv, StreamBounds
<1>2. PICK p \in Int : p = it[i].pos
  BY <1>1 DEF Iterators
<1>3. /\ m_realpos' = S!Served(p).real /\ it' = S!Served(p).it /\ it[i].attached
      /\ m_stride' = m_stride /\ m_reqpos' = m_reqpos /\ m_iterators' = m_iterators
  BY <1>2 DEF S!Refresh
<1>4. CASE p < m_realpos
  <2>1. m_realpos' = m_realpos /\ it' = it
    BY <1>3, <1>4 DEF S!Served
  <2>2. Linked(m_iterators, it)'
    BY <1>1, <1>3, <2>1 DEF Linked, On, Rising
  <2>3. ASSUME NEW k \in Iter PROVE Shows(it[k])'
    <3>1. Shows(it[k])
      BY <1>1
    <3> QED BY <1>3, <2>1, <3>1 DEF Shows, S!Block
  <2> QED BY <1>1, <1>3, <2>1, <2>2, <2>3 DEF StreamInv
<1>5. CASE ~(p < m_realpos)
  <2> DEFINE waits(k) == it[k].attached /\ m_realpos <= it[k].pos /\ it[k].pos <= p
  <2>1. /\ m_realpos' = S!Least(p + m_stride, StreamRows)
        /\ it' = [k \in Iter |-> IF waits(k) THEN [it[k] EXCEPT !.here = S!Block(it[k].pos)] ELSE it[k]]
    BY <1>3, <1>5 DEF S!Served
  <2>2. m_realpos' \in Int /\ m_realpos' <= p + m_stride
    BY <1>1, <2>1 DEF S!Least
  <2>3. PICK g : g = it'
    OBVIOUS
  <2>4. ASSUME NEW k \in Iter PROVE
          /\ g[k] \in Iterators /\ g[k].attached = it[k].attached /\ g[k].prev = it[k].prev
          /\ g[k].next = it[k].next /\ g[k].alive = it[k].alive /\ g[k].pos = it[k].pos
          /\ g[k].late = it[k].late
          /\ g[k].here = IF waits(k) THEN S!Block(it[k].pos) ELSE it[k].here
    <3>1. g[k] = IF waits(k) THEN [it[k] EXCEPT !.here = S!Block(it[k].pos)] ELSE it[k]
      BY <2>1, <2>3
    <3>2. it[k] \in Iterators /\ S!Block(it[k].pos) \subseteq Int
      BY <1>1 DEF S!Block
    <3> HIDE DEF waits
    <3> QED BY <3>1, <3>2 DEF Iterators
  <2>5. g \in [Iter -> Iterators]
    BY <2>1, <2>3, <2>4
  <2>6. Linked(m_iterators, g)
    BY <1>1, <2>4, SameLinks
  <2>7. ASSUME NEW k \in Iter PROVE Shows(g[k])'
    <3>1. SUFFICES ASSUME it[k].attached PROVE Shows(g[k])'
      <4>1. ~it[k].attached => ~g[k].attached
        BY <2>4
      <4>2. PICK h : h = g[k]
        OBVIOUS
      <4>3. ~h.attached => Shows(h)'
        BY DEF Shows
      <4> QED BY <2>3, <4>1, <4>2, <4>3 DEF Shows, S!Block
    <3>2. PICK h : h = g[k]
      OBVIOUS
    <3>3. h.alive /\ h.pos = it[k].pos /\ h.pos \in Int /\ h.late = it[k].late
          /\ h.here = IF waits(k) THEN S!Block(h.pos) ELSE it[k].here
      BY <1>1, <2>4, <3>1, <3>2 DEF Shows, Iterators
    <3>4. \A q : S!Block(q)' = S!Block(q)
      BY <1>3 DEF S!Block
    <3>5. h.here \in {{}, S!Block(h.pos)}
      BY <1>1, <3>1, <3>3 DEF Shows
    <3>6. h.pos < m_realpos' /\ ~h.late => h.here = S!Block(h.pos)
      <4>1. SUFFICES ASSUME h.pos < m_realpos', ~h.late, ~waits(k) PROVE h.here = S!Block(h.pos)
        BY <3>3
      <4>2. CASE h.pos < m_realpos
        BY <1>1, <3>1, <3>3, <4>1, <4>2 DEF Shows
      <4>3. CASE ~(h.pos < m_realpos)
        <5>1. p < h.pos
          BY <1>1, <1>2, <3>1, <3>3, <4>1, <4>3
        <5>2. PICK a \in Int : m_reqpos = p + a * m_stride
          BY <1>1, <1>2, <1>3 DEF Shows
        <5>3. PICK b \in Int : m_reqpos = h.pos + b * m_stride
          BY <1>1, <3>1, <3>3 DEF Shows
        <5>4. p + m_stride <= h.pos
          <6>1. PICK q \in Int : q = h.pos
            BY <3>3
          <6> QED BY <1>1, <5>1, <5>2, <5>3, <6>1, Strides
        <5> QED BY <1>1, <2>2, <3>3, <4>1, <5>4
      <4> QED BY <4>2, <4>3
    <3>7. \E a \in Int : m_reqpos = h.pos + a * m_stride
      BY <1>1, <3>1, <3>3 DEF Shows
    <3>8. Shows(h)'
      BY <1>3, <3>3, <3>4, <3>5, <3>6, <3>7 DEF Shows
    <3> QED BY <3>2, <3>8 DEF Shows, S!Block
  <2>8. Linked(m_iterators, it)'
    BY <1>3, <2>3, <2>6 DEF Linked, On, Rising
  <2>9. ASSUME NEW k \in Iter PROVE Shows(it[k])'
    BY <2>3, <2>7 DEF Shows
  <2> QED BY <1>1, <1>3, <2>2, <2>3, <2>5, <2>8, <2>9 DEF StreamInv
<1> QED BY <1>4, <1>5

\* Every call of the stream and of its iterators keeps the invariant.
LEMMA StreamNext == StreamBounds /\ StreamInv /\ [S!Next]_S!vars => StreamInv'
<1> SUFFICES ASSUME StreamBounds, StreamInv, [S!Next]_S!vars PROVE StreamInv'
  OBVIOUS
<1>1. CASE S!Get \/ S!Ignore \/ S!SetStride
  BY <1>1, StreamIdle
<1>2. ASSUME NEW i \in Iter,
             \/ S!ConstructEnd(i) \/ S!Construct(i) \/ S!Destroy(i) \/ S!Refresh(i)
             \/ \E n \in 1..2 : S!Advance(i, n)
             \/ \E j \in Iter : S!Copy(i, j) \/ S!Assign(i, j) \/ S!PostIncrement(i, j)
      PROVE  StreamInv'
  BY <1>2, StreamConstruct, StreamDestroy, StreamRefresh, StreamAdvance, StreamCopy, StreamAssign,
     StreamPostIncrement
<1>3. CASE UNCHANGED S!vars
  <2>1. /\ m_stride' = m_stride /\ m_realpos' = m_realpos /\ m_reqpos' = m_reqpos
        /\ m_iterators' = m_iterators /\ it' = it
    BY <1>3 DEF S!vars
  <2>2. Linked(m_iterators, it)'
    BY <2>1 DEF StreamInv, Linked, On, Rising
  <2>3. ASSUME NEW k \in Iter PROVE Shows(it[k])'
    <3>1. Shows(it[k])
      BY DEF StreamInv
    <3> QED BY <2>1, <3>1 DEF Shows, S!Block
  <2> QED BY <2>1, <2>2, <2>3 DEF StreamInv
<1> QED BY <1>1, <1>2, <1>3 DEF S!Next

\* Where iterators are linked, the list has a first one.
LEMMA Headed ==
  ASSUME StreamBounds, NEW f, NEW head, Linked(head, f), On(f) # {}
  PROVE  head \in On(f)
<1>1. PICK rank \in [Iter -> Nat] : Rising(f, rank)
  BY DEF Linked
<1>2. PICK i \in On(f) : TRUE
  OBVIOUS
<1> DEFINE free == {n \in Nat : \A j \in On(f) : rank[j] # n}
<1>3. SUFFICES ASSUME head \notin On(f) PROVE FALSE
  OBVIOUS
<1> DEFINE set == {n \in Nat : \A m \in 0..n : m \in free}
<1>4. ASSUME NEW n \in Nat, \A m \in Nat : m < n => m \in free PROVE n \in free
  <2>1. SUFFICES ASSUME NEW j \in On(f), rank[j] = n PROVE FALSE
    OBVIOUS
  <2>2. j # head /\ f[j].prev # S!Nullptr
    BY <1>3 DEF Linked
  <2>3. f[j].prev \in On(f) /\ f[f[j].prev].next = j /\ j # S!Nullptr
    BY <2>2 DEF Linked, On, StreamBounds
  <2>4. PICK k \in On(f) : f[k].next = j
    BY <2>3
  <2>5. rank[k] < rank[j] /\ rank[k] \in Nat
    BY <1>1, <2>3, <2>4 DEF Rising, On
  <2> QED BY <1>4, <2>1, <2>5
<1> HIDE DEF free
<1>5. 0 \in set
  <2>1. 0 \in free
    BY <1>4
  <2> QED BY <2>1
<1>6. ASSUME NEW n \in Nat, n \in set PROVE n + 1 \in set
  <2>1. \A m \in Nat : m < n + 1 => m \in free
    BY <1>6
  <2>2. n + 1 \in free
    BY <1>4, <2>1
  <2> QED BY <2>1, <2>2
<1> HIDE DEF set
<1>7. Nat \subseteq set
  BY <1>5, <1>6, NatSet
<1>8. rank[i] \in Nat /\ rank[i] \in 0..rank[i]
  BY <1>1, <1>2 DEF On
<1>9. rank[i] \in free
  BY <1>7, <1>8 DEF set
<1> QED BY <1>2, <1>9 DEF free

\* What the run checks of streams follows from their invariant.
LEMMA StreamKept == StreamBounds /\ StreamInv => S!BlocksShown
<1> SUFFICES ASSUME StreamBounds, StreamInv PROVE S!BlocksShown
  OBVIOUS
<1>1. On(it) = S!Attached /\ Linked(m_iterators, it) /\ \A i \in Iter : Shows(it[i])
  BY DEF On, S!Attached, StreamInv
<1>2. \A i \in S!Attached :
        /\ it[i].here \in {{}, S!Block(it[i].pos)}
        /\ it[i].pos < m_realpos /\ ~it[i].late => it[i].here = S!Block(it[i].pos)
  BY <1>1 DEF Shows, S!Attached
<1>3. \A i \in S!Attached :
        /\ (it[i].prev = S!Nullptr) = (i = m_iterators)
        /\ it[i].next # S!Nullptr => it[i].next \in S!Attached /\ it[it[i].next].prev = i
        /\ it[i].prev # S!Nullptr => it[i].prev \in S!Attached /\ it[it[i].prev].next = i
  BY <1>1 DEF Linked
<1>4. Cardinality({i \in S!Attached : it[i].prev = S!Nullptr}) = IF S!Attached = {} THEN 0 ELSE 1
  <2> DEFINE first == {i \in S!Attached : it[i].prev = S!Nullptr}
  <2>1. CASE S!Attached = {}
    <3>1. first = {}
      BY <2>1
    <3> QED BY <2>1, <3>1, FS_EmptySet
  <2>2. CASE S!Attached # {}
    <3>1. m_iterators \in S!Attached
      BY <1>1, <2>2, Headed
    <3>2. first = {m_iterators}
      BY <1>3, <3>1
    <3> HIDE DEF first
    <3>3. Cardinality(first) = 1
      BY <3>2, FS_Singleton
    <3> QED BY <2>2, <3>3 DEF first
  <2> QED BY <2>1, <2>2
<1>5. {m_iterators} \subseteq S!Attached \cup {S!Nullptr}
  BY <1>1 DEF Linked
<1>6. S!Cardinality({i \in S!Attached : it[i].prev = S!Nullptr}) = IF S!Attached = {} THEN 0 ELSE 1
  BY <1>4, SameCardinality
<1> QED BY <1>2, <1>3, <1>5, <1>6 DEF S!BlocksShown

-----------------------------------------------------------------------------
(* Notifications and notices. First what Chosen keeps of a sequence.       *)

\* The recursive definition of Chosen has a solution.
LEMMA ChosenExists ==
  ASSUME NEW v, NEW s \in Seq(v), NEW set
  PROVE  \E g : g = [n \in 0..Len(s) |->
                       IF n = 0 THEN <<>>
                       ELSE IF s[n] \in set THEN Append(g[n - 1], s[n]) ELSE g[n - 1]]
<1> DEFINE Next1(e, n) == IF s[n] \in set THEN Append(e, s[n]) ELSE e
           Upto(g, k) == g = [n \in 0..k |-> IF n = 0 THEN <<>> ELSE Next1(g[n - 1], n)]
           good == {k \in Nat : \E g : Upto(g, k)}
<1> HIDE DEF Next1
<1>1. 0 \in good
  <2> DEFINE g == [n \in 0..0 |-> IF n = 0 THEN <<>> ELSE Next1(<<>>, n)]
  <2>1. \A n \in 0..0 : n = 0
    OBVIOUS
  <2>2. Upto(g, 0)
    BY <2>1
  <2> QED BY <2>2
<1>2. ASSUME NEW k \in Nat, k \in good PROVE k + 1 \in good
  <2>1. PICK g : Upto(g, k)
    BY <1>2
  <2> DEFINE h == [n \in 0..k + 1 |-> IF n = k + 1 THEN Next1(g[k], n) ELSE g[n]]
  <2>2. ASSUME NEW n \in 0..k + 1 PROVE h[n] = IF n = 0 THEN <<>> ELSE Next1(h[n - 1], n)
    <3>1. CASE n = k + 1
      <4>1. k \in 0..k + 1 /\ k # k + 1 /\ n # 0 /\ n - 1 = k
        BY <3>1
      <4>2. h[k] = g[k] /\ h[n] = Next1(g[k], n)
        BY <3>1, <4>1
      <4> HIDE DEF h
      <4> QED BY <4>1, <4>2
    <3>2. CASE n # k + 1
      <4>1. /\ n \in 0..k /\ (n = 0 \/ (n - 1 \in 0..k + 1 /\ n - 1 # k + 1))
        BY <3>2
      <4>2. h[n] = g[n] /\ (n # 0 => h[n - 1] = g[n - 1])
        BY <3>2, <4>1
      <4>3. g[n] = IF n = 0 THEN <<>> ELSE Next1(g[n - 1], n)
        BY <2>1, <4>1
      <4> HIDE DEF h
      <4> QED BY <4>2, <4>3
    <3> QED BY <3>1, <3>2
  <2>3. h = [n \in 0..k + 1 |-> h[n]]
    OBVIOUS
  <2> HIDE DEF h
  <2>4. Upto(h, k + 1)
    BY <2>2, <2>3
  <2> HIDE DEF Upto
  <2> QED BY <2>4
<1> HIDE DEF good
<1>3. Nat \subseteq good
  BY <1>1, <1>2, NatSet
<1>4. Len(s) \in good
  BY <1>3
<1> QED BY <1>4 DEF good, Next1

\* c has the elements of s that are in set, all of them, in their order.
Keeps(c, s, set) ==
  /\ \A i \in 1..Len(c) : c[i] \in set
  /\ \A i \in 1..Len(c) : \E a \in 1..Len(s) : c[i] = s[a]
  /\ \A i, j \in 1..Len(c) : i < j =>
       \E a, b \in 1..Len(s) : a < b /\ c[i] = s[a] /\ c[j] = s[b]
  /\ \A a \in 1..Len(s) : s[a] \in set => \E i \in 1..Len(c) : c[i] = s[a]

\* Chosen keeps them.
LEMMA ChosenKeeps ==
  ASSUME NEW v, NEW s \in Seq(v), NEW set
  PROVE  K!Chosen(s, set) \in Seq(v) /\ Keeps(K!Chosen(s, set), s, set)
<1>1. PICK g : g = [n \in 0..Len(s) |->
                       IF n = 0 THEN <<>>
                       ELSE IF s[n] \in set THEN Append(g[n - 1], s[n]) ELSE g[n - 1]]
  BY ChosenExists
<1> DEFINE kept == CHOOSE f : f = [n \in 0..Len(s) |->
                       IF n = 0 THEN <<>>
                       ELSE IF s[n] \in set THEN Append(f[n - 1], s[n]) ELSE f[n - 1]]
<1>2. kept = [n \in 0..Len(s) |->
                       IF n = 0 THEN <<>>
                       ELSE IF s[n] \in set THEN Append(kept[n - 1], s[n]) ELSE kept[n - 1]]
  BY <1>1, Zenon
<1>3. K!Chosen(s, set) = kept[Len(s)]
  BY Zenon DEF K!Chosen
<1> HIDE DEF kept
<1>4. Len(s) \in Nat /\ \A n \in 1..Len(s) : s[n] \in v
  OBVIOUS
<1>5. kept[0] = <<>>
  BY <1>2, <1>4
<1>6. \A n \in Nat : n + 1 <= Len(s) =>
        kept[n + 1] = IF s[n + 1] \in set THEN Append(kept[n], s[n + 1]) ELSE kept[n]
  <2>1. \A n \in Nat : n + 1 <= Len(s) => n + 1 \in 0..Len(s) /\ n + 1 # 0 /\ (n + 1) - 1 = n
    BY <1>4
  <2> QED BY <1>2, <2>1
<1> DEFINE Good(c, n) ==
             /\ c \in Seq(v)
             /\ \A i \in 1..Len(c) : c[i] \in set
             /\ \A i \in 1..Len(c) : \E a \in 1..n : c[i] = s[a]
             /\ \A i, j \in 1..Len(c) : i < j =>
                  \E a, b \in 1..n : a < b /\ c[i] = s[a] /\ c[j] = s[b]
             /\ \A a \in 1..n : s[a] \in set => \E i \in 1..Len(c) : c[i] = s[a]
           good == {n \in Nat : n <= Len(s) => Good(kept[n], n)}
<1>7. 0 \in good
  <2>1. /\ <<>> \in Seq(v) /\ 1..Len(<<>>) = {} /\ 1..0 = {}
    OBVIOUS
  <2>2. Good(<<>>, 0)
    BY <2>1
  <2> HIDE DEF Good
  <2> QED BY <1>5, <2>2
<1>8. ASSUME NEW n \in Nat, n \in good PROVE n + 1 \in good
  <2> SUFFICES ASSUME n + 1 <= Len(s) PROVE Good(kept[n + 1], n + 1)
    BY <1>8
  <2>1. n <= Len(s) /\ n + 1 \in 1..Len(s) /\ s[n + 1] \in v
    BY <1>4
  <2> DEFINE c == kept[n]
             d == kept[n + 1]
  <2>2. Good(c, n)
    BY <1>8, <2>1
  <2>3. d = IF s[n + 1] \in set THEN Append(c, s[n + 1]) ELSE c
    BY <1>6
  <2> HIDE DEF c, d
  <2>4. \A a \in 1..n + 1 : a \in 1..n \/ a = n + 1
    OBVIOUS
  <2>5. CASE s[n + 1] \notin set
    <3>1. d = c
      BY <2>3, <2>5
    <3>2. \A a \in 1..n : a \in 1..n + 1
      OBVIOUS
    <3> QED
      BY <2>2, <2>4, <2>5, <3>1, <3>2 DEF d
  <2>6. CASE s[n + 1] \in set
    <3>1. /\ d \in Seq(v) /\ Len(d) = Len(c) + 1 /\ d[Len(d)] = s[n + 1]
          /\ \A i \in 1..Len(c) : d[i] = c[i] /\ i \in 1..Len(d)
          /\ Len(d) \in 1..Len(d)
          /\ \A i \in 1..Len(d) : i \in 1..Len(c) \/ i = Len(d)
          /\ \A i, j \in 1..Len(d) : i < j => i \in 1..Len(c)
      BY <2>1, <2>2, <2>3, <2>6
    <3>2. /\ \A a \in 1..n : a \in 1..n + 1 /\ a < n + 1
          /\ n + 1 \in 1..n + 1
      OBVIOUS
    <3>3. \A i \in 1..Len(d) : d[i] \in set
      BY <2>2, <2>6, <3>1
    <3>4. \A i \in 1..Len(d) : \E a \in 1..n + 1 : d[i] = s[a]
      <4>1. \A i \in 1..Len(c) : \E a \in 1..n : d[i] = s[a]
        BY <2>2, <3>1
      <4> QED BY <3>1, <3>2, <4>1
    <3>5. ASSUME NEW i \in 1..Len(d), NEW j \in 1..Len(d), i < j
          PROVE  \E a, b \in 1..n + 1 : a < b /\ d[i] = s[a] /\ d[j] = s[b]
      <4>1. i \in 1..Len(c) /\ d[i] = c[i]
        BY <3>1, <3>5
      <4>2. CASE j = Len(d)
        <5>1. PICK a \in 1..n : c[i] = s[a]
          BY <2>2, <4>1
        <5> QED BY <3>1, <3>2, <4>1, <4>2, <5>1
      <4>3. CASE j \in 1..Len(c)
        <5>1. PICK a \in 1..n, b \in 1..n : a < b /\ c[i] = s[a] /\ c[j] = s[b]
          BY <2>2, <3>5, <4>1, <4>3
        <5> QED BY <3>1, <3>2, <4>1, <4>3, <5>1
      <4> QED BY <3>1, <4>2, <4>3
    <3>6. \A a \in 1..n + 1 : s[a] \in set => \E i \in 1..Len(d) : d[i] = s[a]
      BY <2>2, <2>4, <3>1
    <3> QED
      BY <3>1, <3>3, <3>4, <3>5, <3>6 DEF d
  <2> QED BY <2>5, <2>6
<1> HIDE DEF Good, good
<1>9. Nat \subseteq good
  BY <1>7, <1>8, NatSet
<1>10. Good(kept[Len(s)], Len(s))
  BY <1>4, <1>9 DEF good
<1> QED BY <1>3, <1>10 DEF Good, Keeps


-----------------------------------------------------------------------------
(* Receivers and handlers.                                                 *)

Notification == [channel : Channel, number : Nat]

ConnectionTyped ==
  /\ channel \in [Receiver -> Channel \cup {None}]
  /\ handlers \in Seq(Handler)
  /\ inbox \in Seq(Notification) /\ sent \in Nat
  /\ heard \in [Receiver -> Seq(Nat)] /\ due \in [Receiver -> SUBSET Nat]

\* A receiver's channel is listened to.
Listens == \A r \in Receiver : channel[r] # None => channel[r] \in wanted \cup lost

\* What was sent comes in its order, and what was delivered was sent before
\* what was not.
InOrder ==
  /\ \A i, j \in 1..Len(inbox) : i < j => inbox[i].number < inbox[j].number
  /\ \A i \in 1..Len(inbox) : inbox[i].number <= sent
  /\ \A r \in Receiver :
       /\ \A i, j \in 1..Len(heard[r]) : i < j => heard[r][i] < heard[r][j]
       /\ \A i \in 1..Len(heard[r]) :
            heard[r][i] <= sent /\ \A j \in 1..Len(inbox) : heard[r][i] < inbox[j].number

Heard(r, m) == \E i \in 1..Len(heard[r]) : heard[r][i] = m
Waits(c, m) == \E i \in 1..Len(inbox) : inbox[i].channel = c /\ inbox[i].number = m

\* What is due to a receiver it was called for, or waits for it.
Awaited ==
  \A r \in Receiver : channel[r] # None => \A m \in due[r] : Heard(r, m) \/ Waits(channel[r], m)

\* The list of handlers has each once.
HandlersOnce ==
  /\ \A i, j \in 1..Len(handlers) : handlers[i] = handlers[j] => i = j
  /\ home = {handlers[i] : i \in 1..Len(handlers)}
  /\ processor = (home # {})

ConnectionInv == ConnectionTyped /\ Listens /\ InOrder /\ Awaited /\ HandlersOnce

\* Of the notifications chosen from the inbox the numbers rise, and all of them are there.
LEMMA ChosenNumbers ==
  ASSUME ConnectionTyped, InOrder, NEW set
  PROVE  LET c == K!Chosen(inbox, set)
             d == [i \in DOMAIN c |-> c[i].number]
         IN  /\ d \in Seq(Nat)
             /\ \A i, j \in 1..Len(d) : i < j => d[i] < d[j]
             /\ \A i \in 1..Len(d) : \E a \in 1..Len(inbox) : d[i] = inbox[a].number
             /\ \A a \in 1..Len(inbox) : inbox[a] \in set => \E i \in 1..Len(d) : d[i] = inbox[a].number
<1> DEFINE c == K!Chosen(inbox, set)
           d == [i \in DOMAIN c |-> c[i].number]
<1>1. /\ c \in Seq(Notification)
      /\ \A i \in 1..Len(c) : \E a \in 1..Len(inbox) : c[i] = inbox[a]
      /\ \A i, j \in 1..Len(c) : i < j =>
              \E a, b \in 1..Len(inbox) : a < b /\ c[i] = inbox[a] /\ c[j] = inbox[b]
      /\ \A a \in 1..Len(inbox) : inbox[a] \in set => \E i \in 1..Len(c) : c[i] = inbox[a]
  <2>1. inbox \in Seq(Notification)
    BY DEF ConnectionTyped
  <2>2. c \in Seq(Notification) /\ Keeps(c, inbox, set)
    BY <2>1, ChosenKeeps
  <2> HIDE DEF c
  <2> QED BY <2>2 DEF Keeps
<1> HIDE DEF c
<1>2. DOMAIN c = 1..Len(c) /\ \A i \in 1..Len(c) : c[i].number \in Nat
  <2>1. DOMAIN c = 1..Len(c) /\ \A i \in 1..Len(c) : c[i] \in Notification
    BY <1>1
  <2> QED BY <2>1 DEF Notification
<1>3. d \in Seq(Nat) /\ Len(d) = Len(c) /\ \A i \in 1..Len(c) : d[i] = c[i].number
  BY <1>1, <1>2
<1> HIDE DEF d
<1>4. ASSUME NEW i \in 1..Len(d), NEW j \in 1..Len(d), i < j PROVE d[i] < d[j]
  <2>1. PICK a \in 1..Len(inbox), b \in 1..Len(inbox) : a < b /\ c[i] = inbox[a] /\ c[j] = inbox[b]
    BY <1>1, <1>3, <1>4
  <2>2. inbox[a].number < inbox[b].number
    BY <2>1 DEF InOrder
  <2> QED BY <1>3, <2>1, <2>2
<1>5. \A i \in 1..Len(d) : \E a \in 1..Len(inbox) : d[i] = inbox[a].number
  <2> SUFFICES ASSUME NEW i \in 1..Len(d)
               PROVE  \E a \in 1..Len(inbox) : d[i] = inbox[a].number
    OBVIOUS
  <2>1. PICK a \in 1..Len(inbox) : c[i] = inbox[a]
    BY <1>1, <1>3
  <2> QED BY <1>3, <2>1
<1>6. \A a \in 1..Len(inbox) : inbox[a] \in set => \E i \in 1..Len(d) : d[i] = inbox[a].number
  <2> SUFFICES ASSUME NEW a \in 1..Len(inbox), inbox[a] \in set
               PROVE  \E i \in 1..Len(d) : d[i] = inbox[a].number
    OBVIOUS
  <2>1. PICK i \in 1..Len(c) : c[i] = inbox[a]
    BY <1>1
  <2> QED BY <1>3, <2>1
<1> QED BY <1>3, <1>4, <1>5, <1>6 DEF c, d

\* Two sequences of numbers, the second after the first.
LEMMA AppendedOrder ==
  ASSUME NEW s \in Seq(Nat), NEW t \in Seq(Nat),
         \A i, j \in 1..Len(s) : i < j => s[i] < s[j],
         \A i, j \in 1..Len(t) : i < j => t[i] < t[j],
         \A i \in 1..Len(s) : \A j \in 1..Len(t) : s[i] < t[j]
  PROVE  /\ s \o t \in Seq(Nat)
         /\ \A i, j \in 1..Len(s \o t) : i < j => (s \o t)[i] < (s \o t)[j]
         /\ \A i \in 1..Len(s \o t) : \/ \E a \in 1..Len(s) : (s \o t)[i] = s[a]
                                      \/ \E a \in 1..Len(t) : (s \o t)[i] = t[a]
         /\ \A a \in 1..Len(s) : \E i \in 1..Len(s \o t) : (s \o t)[i] = s[a]
         /\ \A a \in 1..Len(t) : \E i \in 1..Len(s \o t) : (s \o t)[i] = t[a]
<1> DEFINE u == s \o t
<1>1. /\ u \in Seq(Nat) /\ Len(u) = Len(s) + Len(t) /\ Len(s) \in Nat /\ Len(t) \in Nat
      /\ \A i \in 1..Len(s) : u[i] = s[i] /\ s[i] \in Nat
      /\ \A i \in 1..Len(t) : u[i + Len(s)] = t[i] /\ t[i] \in Nat
  OBVIOUS
<1> HIDE DEF u
<1>2. \A i \in 1..Len(u) : \/ i \in 1..Len(s)
                           \/ \E a \in 1..Len(t) : i = a + Len(s)
  <2>1. ASSUME NEW m \in Nat, NEW n \in Nat, NEW i \in 1..m + n
        PROVE  i \in 1..m \/ \E a \in 1..n : i = a + m
    <3>1. CASE i <= m
      BY <3>1
    <3>2. CASE ~ (i <= m)
      <4>1. i - m \in 1..n /\ i = (i - m) + m
        BY <3>2
      <4> QED BY <4>1
    <3> QED BY <3>1, <3>2
  <2>2. Len(s) \in Nat /\ Len(t) \in Nat /\ Len(u) = Len(s) + Len(t)
    BY <1>1
  <2>3. \A i \in 1..Len(s) + Len(t) : i \in 1..Len(s) \/ \E a \in 1..Len(t) : i = a + Len(s)
    BY ONLY <2>1, <2>2
  <2> QED BY ONLY <2>2, <2>3
<1>3. /\ \A a \in 1..Len(s) : a \in 1..Len(u)
      /\ \A a \in 1..Len(t) : a + Len(s) \in 1..Len(u)
  <2>1. ASSUME NEW m \in Nat, NEW n \in Nat
        PROVE  /\ \A a \in 1..m : a \in 1..m + n
               /\ \A a \in 1..n : a + m \in 1..m + n
    OBVIOUS
  <2> QED BY <1>1, <2>1
<1>4. ASSUME NEW i \in 1..Len(u), NEW j \in 1..Len(u), i < j PROVE u[i] < u[j]
  <2>1. CASE i \in 1..Len(s) /\ j \in 1..Len(s)
    BY <1>1, <1>4, <2>1
  <2>2. ASSUME i \in 1..Len(s), NEW b \in 1..Len(t), j = b + Len(s) PROVE u[i] < u[j]
    <3>1. u[j] = t[b] /\ u[i] = s[i]
      BY <1>1, <2>2
    <3> QED BY <2>2, <3>1
  <2>3. ASSUME NEW a \in 1..Len(t), NEW b \in 1..Len(t), i = a + Len(s), j = b + Len(s)
        PROVE  u[i] < u[j]
    <3>1. u[j] = t[b] /\ u[i] = t[a]
      BY <1>1, <2>3
    <3>2. a < b
      <4>1. ASSUME NEW m \in Nat, a + m < b + m PROVE a < b
        BY <4>1
      <4> QED BY <1>1, <1>4, <2>3, <4>1
    <3> QED BY <2>3, <3>1, <3>2
  <2>4. ASSUME NEW a \in 1..Len(t), i = a + Len(s), j \in 1..Len(s) PROVE FALSE
    <3>1. ASSUME NEW m \in Nat, NEW k \in 1..m, a + m < k PROVE FALSE
      BY <3>1
    <3> QED BY <1>1, <1>4, <2>4, <3>1
  <2> QED BY <1>2, <2>1, <2>2, <2>3, <2>4
<1>5. /\ \A i \in 1..Len(u) : \/ \E a \in 1..Len(s) : u[i] = s[a]
                              \/ \E a \in 1..Len(t) : u[i] = t[a]
      /\ \A a \in 1..Len(s) : \E i \in 1..Len(u) : u[i] = s[a]
      /\ \A a \in 1..Len(t) : \E i \in 1..Len(u) : u[i] = t[a]
  BY <1>1, <1>2, <1>3
<1> QED BY <1>1, <1>4, <1>5 DEF u

\* A delivery calls each receiver in the order of sending, and for all that is due to it.
LEMMA DeliverLemma ==
  ASSUME ConnectionTyped, InOrder, NEW ch \in [Receiver -> Channel \cup {None}], K!Delivered(ch),
         sent' = sent
  PROVE  /\ inbox' \in Seq(Notification) /\ heard' \in [Receiver -> Seq(Nat)]
         /\ InOrder'
         /\ \A r \in Receiver : \A m : Heard(r, m) \/ Waits(ch[r], m)
                                         => Heard(r, m)' \/ Waits(ch[r], m)'
<1>1. CASE m_trans # "none"
  BY <1>1 DEF K!Delivered, ConnectionTyped, InOrder, Heard, Waits
<1>2. CASE m_trans = "none"
  <2> DEFINE its(r) == K!Chosen(inbox, {n \in K!ToSet(inbox) : n.channel = ch[r]})
             numbers(r) == [i \in DOMAIN its(r) |-> its(r)[i].number]
  <2>1. inbox' = <<>> /\ heard' = [r \in Receiver |-> heard[r] \o numbers(r)]
    BY <1>2 DEF K!Delivered
  <2>2. ASSUME NEW r \in Receiver
        PROVE  /\ numbers(r) \in Seq(Nat)
               /\ \A i, j \in 1..Len(numbers(r)) : i < j => numbers(r)[i] < numbers(r)[j]
               /\ \A i \in 1..Len(numbers(r)) :
                    \E a \in 1..Len(inbox) : numbers(r)[i] = inbox[a].number
               /\ \A a \in 1..Len(inbox) : inbox[a].channel = ch[r] =>
                    \E i \in 1..Len(numbers(r)) : numbers(r)[i] = inbox[a].number
    <3>1. \A a \in 1..Len(inbox) : inbox[a] \in K!ToSet(inbox)
      BY DEF K!ToSet, ConnectionTyped
    <3>2. /\ numbers(r) \in Seq(Nat)
          /\ \A i, j \in 1..Len(numbers(r)) : i < j => numbers(r)[i] < numbers(r)[j]
          /\ \A i \in 1..Len(numbers(r)) :
               \E a \in 1..Len(inbox) : numbers(r)[i] = inbox[a].number
          /\ \A a \in 1..Len(inbox) : inbox[a] \in {n \in K!ToSet(inbox) : n.channel = ch[r]} =>
               \E i \in 1..Len(numbers(r)) : numbers(r)[i] = inbox[a].number
      BY ChosenNumbers
    <3> HIDE DEF numbers
    <3> QED BY <3>1, <3>2
  <2> HIDE DEF numbers
  <2>3. \A r \in Receiver : heard[r] \in Seq(Nat) /\ heard'[r] = heard[r] \o numbers(r)
    BY <2>1 DEF ConnectionTyped
  <2>4. ASSUME NEW r \in Receiver
        PROVE  /\ heard'[r] \in Seq(Nat)
               /\ \A i, j \in 1..Len(heard'[r]) : i < j => heard'[r][i] < heard'[r][j]
               /\ \A i \in 1..Len(heard'[r]) : \/ Heard(r, heard'[r][i])
                                               \/ \E a \in 1..Len(inbox) : heard'[r][i] = inbox[a].number
               /\ \A m : Heard(r, m) \/ Waits(ch[r], m) => Heard(r, m)'
    <3> DEFINE s == heard[r]
               t == numbers(r)
    <3>1. s \in Seq(Nat) /\ t \in Seq(Nat)
      BY <2>2, <2>3
    <3>2. \A i, j \in 1..Len(s) : i < j => s[i] < s[j]
      BY DEF InOrder
    <3>3. \A i, j \in 1..Len(t) : i < j => t[i] < t[j]
      BY <2>2
    <3>4. \A i \in 1..Len(s) : \A j \in 1..Len(t) : s[i] < t[j]
      BY <2>2 DEF InOrder
    <3> HIDE DEF s, t
    <3>5. /\ s \o t \in Seq(Nat)
          /\ \A i, j \in 1..Len(s \o t) : i < j => (s \o t)[i] < (s \o t)[j]
          /\ \A i \in 1..Len(s \o t) : \/ \E a \in 1..Len(s) : (s \o t)[i] = s[a]
                                       \/ \E a \in 1..Len(t) : (s \o t)[i] = t[a]
          /\ \A a \in 1..Len(s) : \E i \in 1..Len(s \o t) : (s \o t)[i] = s[a]
          /\ \A a \in 1..Len(t) : \E i \in 1..Len(s \o t) : (s \o t)[i] = t[a]
      BY <3>1, <3>2, <3>3, <3>4, AppendedOrder
    <3>6. s \o t = heard'[r]
      BY <2>3 DEF s, t
    <3>7. \A i \in 1..Len(t) : \E a \in 1..Len(inbox) : t[i] = inbox[a].number
      BY <2>2 DEF t
    <3>8. \A a \in 1..Len(s) : Heard(r, s[a])
      BY DEF Heard, s
    <3>9. ASSUME NEW m, Heard(r, m) \/ Waits(ch[r], m) PROVE Heard(r, m)'
      <4>1. (\E a \in 1..Len(s) : s[a] = m) \/ \E a \in 1..Len(t) : t[a] = m
        BY <2>2, <3>9 DEF Heard, Waits, s, t
      <4>2. \E i \in 1..Len(heard'[r]) : heard'[r][i] = m
        BY <3>5, <3>6, <4>1
      <4> QED BY <4>2 DEF Heard
    <3>10. ASSUME NEW i \in 1..Len(heard'[r])
           PROVE  Heard(r, heard'[r][i]) \/ \E a \in 1..Len(inbox) : heard'[r][i] = inbox[a].number
      <4>1. (\E a \in 1..Len(s) : heard'[r][i] = s[a]) \/ \E a \in 1..Len(t) : heard'[r][i] = t[a]
        BY <3>5, <3>6
      <4> HIDE DEF Heard
      <4> QED BY <3>7, <3>8, <4>1
    <3>11. /\ heard'[r] \in Seq(Nat)
           /\ \A i, j \in 1..Len(heard'[r]) : i < j => heard'[r][i] < heard'[r][j]
      BY <3>5, <3>6
    <3> QED BY <3>9, <3>10, <3>11
  <2>5. inbox' \in Seq(Notification) /\ 1..Len(inbox') = {} /\ sent' = sent
    BY <2>1
  <2>6. heard' \in [Receiver -> Seq(Nat)]
    BY <2>1, <2>3, <2>4
  <2>7. ASSUME NEW r \in Receiver, NEW i \in 1..Len(heard'[r]) PROVE heard'[r][i] <= sent
    <3>1. \A m : Heard(r, m) => m <= sent
      BY DEF Heard, InOrder
    <3> QED BY <2>4, <3>1 DEF InOrder
  <2>8. InOrder'
    BY <2>4, <2>5, <2>7 DEF InOrder
  <2> QED BY <2>4, <2>5, <2>6, <2>8
<1> QED BY <1>1, <1>2

\* A new handler is the last; one that goes leaves the others.
LEMMA RegisterLemma ==
  ASSUME ConnectionTyped, HandlersOnce, NEW h \in Handler, K!Register(h) \/ K!Unregister(h)
  PROVE  handlers' \in Seq(Handler) /\ HandlersOnce'
<1>0. handlers \in Seq(Handler)
  BY DEF ConnectionTyped
<1>1. CASE K!Register(h)
  <2>1. /\ handlers' = Append(handlers, h) /\ home' = home \cup {h} /\ processor' = TRUE /\ h \notin home
    BY <1>1 DEF K!Register
  <2>2. /\ handlers' \in Seq(Handler) /\ Len(handlers') = Len(handlers) + 1
        /\ handlers'[Len(handlers')] = h
        /\ \A i \in 1..Len(handlers) : handlers'[i] = handlers[i] /\ i \in 1..Len(handlers')
        /\ \A i \in 1..Len(handlers') : i \in 1..Len(handlers) \/ i = Len(handlers')
        /\ Len(handlers') \in 1..Len(handlers')
    BY <1>0, <2>1
  <2>3. \A i \in 1..Len(handlers) : handlers[i] \in home
    BY DEF HandlersOnce
  <2>4. \A i, j \in 1..Len(handlers') : handlers'[i] = handlers'[j] => i = j
    BY <2>1, <2>2, <2>3 DEF HandlersOnce
  <2>5. home' = {handlers'[i] : i \in 1..Len(handlers')}
    <3>1. ASSUME NEW x \in home' PROVE \E i \in 1..Len(handlers') : x = handlers'[i]
      BY <2>1, <2>2, <3>1 DEF HandlersOnce
    <3>2. ASSUME NEW i \in 1..Len(handlers') PROVE handlers'[i] \in home'
      BY <2>1, <2>2, <2>3
    <3> QED BY <3>1, <3>2
  <2> QED BY <2>1, <2>2, <2>4, <2>5 DEF HandlersOnce
<1>2. CASE K!Unregister(h)
  <2>1. /\ handlers' = K!Chosen(handlers, Handler \ {h}) /\ home' = home \ {h}
        /\ processor' = (handlers' # <<>> /\ processor)
    BY <1>2 DEF K!Unregister
  <2>2. /\ handlers' \in Seq(Handler)
        /\ \A i \in 1..Len(handlers') : handlers'[i] \in Handler \ {h}
        /\ \A i \in 1..Len(handlers') : \E a \in 1..Len(handlers) : handlers'[i] = handlers[a]
        /\ \A i, j \in 1..Len(handlers') : i < j =>
             \E a, b \in 1..Len(handlers) : a < b /\ handlers'[i] = handlers[a] /\ handlers'[j] = handlers[b]
        /\ \A a \in 1..Len(handlers) : handlers[a] \in Handler \ {h} =>
             \E i \in 1..Len(handlers') : handlers'[i] = handlers[a]
    <3>0. PICK others : others = Handler \ {h}
      OBVIOUS
    <3> DEFINE c == K!Chosen(handlers, others)
    <3>1. c \in Seq(Handler) /\ Keeps(c, handlers, others)
      BY <1>0, ChosenKeeps DEF ConnectionTyped
    <3>2. handlers' = c
      BY <2>1, <3>0
    <3> HIDE DEF c
    <3> QED BY <3>0, <3>1, <3>2 DEF Keeps
  <2>3. ASSUME NEW i \in 1..Len(handlers'), NEW j \in 1..Len(handlers'), i < j
        PROVE  handlers'[i] # handlers'[j]
    <3>1. PICK a \in 1..Len(handlers), b \in 1..Len(handlers) :
            a < b /\ handlers'[i] = handlers[a] /\ handlers'[j] = handlers[b]
      BY <2>2, <2>3
    <3> QED BY <3>1 DEF HandlersOnce
  <2>4. \A i, j \in 1..Len(handlers') : handlers'[i] = handlers'[j] => i = j
    <3>1. \A i, j \in 1..Len(handlers') : i < j \/ j < i \/ i = j
      BY <2>2
    <3> QED BY <2>3, <3>1
  <2>5. home' = {handlers'[i] : i \in 1..Len(handlers')}
    <3>1. ASSUME NEW x \in home' PROVE \E i \in 1..Len(handlers') : x = handlers'[i]
      <4>1. PICK a \in 1..Len(handlers) : x = handlers[a]
        BY <2>1, <3>1 DEF HandlersOnce
      <4>2. handlers[a] \in Handler \ {h}
        BY <1>0, <2>1, <3>1, <4>1
      <4> QED BY <2>2, <4>1, <4>2
    <3>2. ASSUME NEW i \in 1..Len(handlers') PROVE handlers'[i] \in home'
      <4>1. PICK a \in 1..Len(handlers) : handlers'[i] = handlers[a]
        BY <2>2
      <4>2. handlers[a] \in home
        BY DEF HandlersOnce
      <4> QED BY <2>1, <2>2, <4>1, <4>2
    <3> QED BY <3>1, <3>2
  <2>6. handlers' = <<>> <=> home' = {}
    <3>1. handlers' # <<>> => 1 \in 1..Len(handlers')
      BY <2>2
    <3>2. handlers' = <<>> => 1..Len(handlers') = {}
      OBVIOUS
    <3> QED BY <2>5, <3>1, <3>2
  <2>7. home' # {} => home # {}
    BY <2>1
  <2> QED BY <2>1, <2>2, <2>4, <2>5, <2>6, <2>7 DEF HandlersOnce
<1> QED BY <1>1, <1>2

\* A new connection has no receiver, no handler and no message.
LEMMA ConnectionInit == K!Init => ConnectionInv
<1> SUFFICES ASSUME K!Init PROVE ConnectionInv
  OBVIOUS
<1>1. ConnectionTyped /\ Listens /\ Awaited
  BY DEF K!Init, ConnectionTyped, Listens, Awaited
<1>2. \A r \in Receiver : 1..Len(heard[r]) = {} /\ 1..Len(inbox) = {}
  BY DEF K!Init
<1>3. InOrder
  BY <1>2 DEF K!Init, InOrder
<1>4. HandlersOnce
  <2>1. 1..Len(handlers) = {} /\ home = {} /\ processor = FALSE
    BY DEF K!Init
  <2> QED BY <2>1 DEF HandlersOnce
<1> QED BY <1>1, <1>3, <1>4 DEF ConnectionInv

\* A call that leaves alone what was sent.
LEMMA Undisturbed ==
  ASSUME ConnectionInv, UNCHANGED <<inbox, sent, heard, due>>, UNCHANGED channel
  PROVE  InOrder' /\ Awaited'
BY DEF ConnectionInv, InOrder, Awaited, Heard, Waits

\* What the server sends comes behind all that was sent before.
LEMMA NotifyLemma ==
  ASSUME ConnectionInv, NEW c \in Channel, K!Notify(c)
  PROVE  ConnectionInv'
<1> DEFINE n == [channel |-> c, number |-> sent + 1]
<1>0. ConnectionTyped /\ Listens /\ InOrder /\ Awaited /\ HandlersOnce
  BY DEF ConnectionInv
<1>1. /\ sent' = sent + 1 /\ inbox' = Append(inbox, n)
      /\ due' = [r \in Receiver |-> IF channel[r] = c THEN due[r] \cup {sent + 1} ELSE due[r]]
      /\ UNCHANGED <<channel, handlers, home, processor, heard, lost, wanted>>
  BY DEF K!Notify, K!server, K!notices
<1>2. n \in Notification /\ sent \in Nat /\ inbox \in Seq(Notification)
  BY <1>0 DEF ConnectionTyped, Notification
<1> HIDE DEF n
<1>3. /\ inbox' \in Seq(Notification) /\ Len(inbox') = Len(inbox) + 1 /\ Len(inbox) \in Nat
      /\ \A i \in 1..Len(inbox) : inbox'[i] = inbox[i] /\ i \in 1..Len(inbox')
      /\ inbox'[Len(inbox) + 1] = n /\ Len(inbox) + 1 \in 1..Len(inbox')
  BY <1>1, <1>2
<1>4. \A i \in 1..Len(inbox') : i \in 1..Len(inbox) \/ i = Len(inbox) + 1
  BY ONLY <1>3
<1>5. n.number = sent + 1 /\ n.channel = c
  BY DEF n
<1>6. ConnectionTyped'
  <2>1. due' \in [Receiver -> SUBSET Nat]
    BY <1>0, <1>1, <1>2 DEF ConnectionTyped
  <2> QED BY <1>0, <1>1, <1>2, <1>3, <2>1 DEF ConnectionTyped
<1>7. InOrder'
  <2>1. \A i \in 1..Len(inbox) : inbox[i].number \in Nat
    <3>1. \A i \in 1..Len(inbox) : inbox[i] \in Notification
      BY <1>2
    <3> QED BY <3>1 DEF Notification
  <2>2. \A i, j \in 1..Len(inbox') : i < j => i \in 1..Len(inbox)
    BY ONLY <1>3
  <2>3. \A i, j \in 1..Len(inbox') : i < j => inbox'[i].number < inbox'[j].number
    BY <1>0, <1>2, <1>3, <1>4, <1>5, <2>1, <2>2 DEF InOrder
  <2>4. \A i \in 1..Len(inbox') : inbox'[i].number <= sent'
    BY <1>0, <1>1, <1>2, <1>3, <1>4, <1>5, <2>1 DEF InOrder
  <2>5. ASSUME NEW r \in Receiver
        PROVE  /\ \A i, j \in 1..Len(heard'[r]) : i < j => heard'[r][i] < heard'[r][j]
               /\ \A i \in 1..Len(heard'[r]) :
                    heard'[r][i] <= sent' /\ \A j \in 1..Len(inbox') : heard'[r][i] < inbox'[j].number
    <3>1. heard[r] \in Seq(Nat) /\ heard' = heard
      BY <1>0, <1>1 DEF ConnectionTyped
    <3>2. \A i \in 1..Len(heard[r]) : heard[r][i] \in Nat /\ heard[r][i] <= sent
      BY <1>0, <3>1 DEF InOrder
    <3> QED BY <1>0, <1>1, <1>2, <1>3, <1>4, <1>5, <3>1, <3>2 DEF InOrder
  <2> QED BY <2>3, <2>4, <2>5 DEF InOrder
<1>8. Awaited'
  <2>1. \A r, m : (Heard(r, m) => Heard(r, m)') /\ (Waits(channel[r], m) => Waits(channel[r], m)')
    BY <1>1, <1>3 DEF Heard, Waits
  <2>2. \A m : m = sent + 1 => Waits(c, m)'
    BY <1>3, <1>5 DEF Waits
  <2>3. \A r \in Receiver : \A m \in due'[r] : m \in due[r] \/ (channel[r] = c /\ m = sent + 1)
    BY <1>1
  <2> HIDE DEF Heard, Waits
  <2> QED BY <1>0, <1>1, <2>1, <2>2, <2>3 DEF Awaited
<1>9. Listens' /\ HandlersOnce'
  BY <1>0, <1>1 DEF Listens, HandlersOnce
<1> QED BY <1>6, <1>7, <1>8, <1>9 DEF ConnectionInv

\* Delivering to receivers who are all still there, or to those who are left.
LEMMA GetNotifsLemma ==
  ASSUME ConnectionInv, K!GetNotifs
  PROVE  ConnectionInv'
<1>0. ConnectionTyped /\ Listens /\ InOrder /\ Awaited /\ HandlersOnce
  BY DEF ConnectionInv
<1>1. /\ K!Delivered(channel) /\ UNCHANGED <<channel, handlers, home, processor, wanted, sent, due, lost>>
  BY DEF K!GetNotifs, K!notices, K!server
<1>2. /\ inbox' \in Seq(Notification) /\ heard' \in [Receiver -> Seq(Nat)]
      /\ InOrder'
      /\ \A r \in Receiver : \A m : Heard(r, m) \/ Waits(channel[r], m)
                                      => Heard(r, m)' \/ Waits(channel[r], m)'
  BY <1>0, <1>1, DeliverLemma DEF ConnectionTyped
<1>3. ConnectionTyped'
  BY <1>0, <1>1, <1>2 DEF ConnectionTyped
<1>4. Awaited'
  BY <1>0, <1>1, <1>2 DEF Awaited
<1>5. Listens' /\ HandlersOnce'
  BY <1>0, <1>1 DEF Listens, HandlersOnce
<1> QED BY <1>2, <1>3, <1>4, <1>5 DEF ConnectionInv

\* For the first receiver of a channel LISTEN is sent.
LEMMA AddReceiverLemma ==
  ASSUME None \notin Channel, ConnectionInv,
         NEW r \in Receiver, NEW c \in Channel, K!AddReceiver(r, c)
  PROVE  ConnectionInv'
<1>0. ConnectionTyped /\ Listens /\ InOrder /\ Awaited /\ HandlersOnce
  BY DEF ConnectionInv
<1>1. /\ channel' = [channel EXCEPT ![r] = c]
      /\ heard' = [heard EXCEPT ![r] = <<>>] /\ due' = [due EXCEPT ![r] = {}]
      /\ UNCHANGED <<handlers, home, processor, inbox, sent>>
  BY DEF K!AddReceiver, K!notices
<1>2. ConnectionTyped'
  <2>1. <<>> \in Seq(Nat) /\ {} \in SUBSET Nat
    OBVIOUS
  <2> QED BY <1>0, <1>1, <2>1 DEF ConnectionTyped
<1>3. Listens'
  <2>1. CASE K!On(c) = {}
    <3>1. wanted' = wanted \cup {c} /\ lost' = lost \ {c}
      BY <2>1 DEF K!AddReceiver, K!ServerListens
    <3>2. \A s \in Receiver : channel[s] # c
      BY <2>1 DEF K!On
    <3> QED BY <1>0, <1>1, <3>1, <3>2 DEF Listens, ConnectionTyped
  <2>2. CASE K!On(c) # {}
    <3>1. wanted' = wanted /\ lost' = lost
      BY <2>2 DEF K!AddReceiver, K!server
    <3>2. \E s \in Receiver : channel[s] = c
      BY <2>2 DEF K!On
    <3> QED BY <1>0, <1>1, <3>1, <3>2 DEF Listens, ConnectionTyped
  <2> QED BY <2>1, <2>2
<1>4. InOrder'
  <2>1. 1..Len(heard'[r]) = {}
    BY <1>0, <1>1 DEF ConnectionTyped
  <2>2. \A s \in Receiver \ {r} : heard'[s] = heard[s]
    BY <1>0, <1>1 DEF ConnectionTyped
  <2> QED BY <1>0, <1>1, <2>1, <2>2 DEF InOrder
<1>5. Awaited'
  <2>1. due'[r] = {} /\ \A s \in Receiver \ {r} : due'[s] = due[s] /\ channel'[s] = channel[s] /\ heard'[s] = heard[s]
    BY <1>0, <1>1 DEF ConnectionTyped
  <2>2. \A s \in Receiver \ {r} : \A m : (Heard(s, m) => Heard(s, m)') /\ (Waits(channel[s], m) => Waits(channel[s], m)')
    BY <1>1, <2>1 DEF Heard, Waits
  <2>3. \A s \in Receiver \ {r} : \A m : Waits(channel[s], m)' <=> \E i \in 1..Len(inbox') : inbox'[i].channel = channel'[s] /\ inbox'[i].number = m
    BY DEF Waits
  <2> HIDE DEF Heard, Waits
  <2>4. ASSUME NEW s \in Receiver, channel'[s] # None, NEW m \in due'[s]
        PROVE  Heard(s, m)' \/ Waits(channel[s], m)'
    BY <1>0, <2>1, <2>2, <2>4 DEF Awaited
  <2> QED BY <2>4 DEF Awaited
<1>6. HandlersOnce'
  BY <1>0, <1>1 DEF HandlersOnce
<1> QED BY <1>2, <1>3, <1>4, <1>5, <1>6 DEF ConnectionInv

\* Only with the last receiver of a channel UNLISTEN is sent.
LEMMA RemoveReceiverLemma ==
  ASSUME ConnectionInv, NEW r \in Receiver, K!RemoveReceiver(r)
  PROVE  ConnectionInv'
<1>0. ConnectionTyped /\ Listens /\ InOrder /\ Awaited /\ HandlersOnce
  BY DEF ConnectionInv
<1>1. /\ channel[r] # None /\ channel' = [channel EXCEPT ![r] = None]
      /\ UNCHANGED <<handlers, home, processor, sent, due, lost>>
  BY DEF K!RemoveReceiver, K!notices
<1>2. /\ channel' \in [Receiver -> Channel \cup {None}] /\ channel'[r] = None
      /\ \A s \in Receiver \ {r} : channel'[s] = channel[s]
  BY <1>0, <1>1 DEF ConnectionTyped
<1>3. Listens'
  <2>1. CASE K!On(channel[r]) = {r} /\ m_trans # "failed"
    <3>1. wanted' = wanted \ {channel[r]}
      BY <2>1 DEF K!RemoveReceiver, K!ServerListens
    <3>2. \A s \in Receiver \ {r} : channel[s] # channel[r]
      BY <2>1 DEF K!On
    <3> QED BY <1>0, <1>1, <1>2, <3>1, <3>2 DEF Listens
  <2>2. CASE ~(K!On(channel[r]) = {r} /\ m_trans # "failed")
    <3>1. wanted' = wanted
      BY <2>2 DEF K!RemoveReceiver, K!server
    <3> QED BY <1>0, <1>1, <1>2, <3>1 DEF Listens
  <2> QED BY <2>1, <2>2
<1>4. /\ inbox' \in Seq(Notification) /\ heard' \in [Receiver -> Seq(Nat)]
      /\ InOrder'
      /\ \A s \in Receiver : \A m : Heard(s, m) \/ Waits(channel'[s], m)
                                      => Heard(s, m)' \/ \E i \in 1..Len(inbox') : inbox'[i].channel = channel'[s] /\ inbox'[i].number = m
  <2>1. CASE K!On(channel[r]) = {r} /\ m_trans # "failed"
    <3>1. K!Delivered(channel')
      BY <2>1 DEF K!RemoveReceiver
    <3>2. PICK ch : ch = channel'
      OBVIOUS
    <3>3. ch \in [Receiver -> Channel \cup {None}] /\ K!Delivered(ch)
      BY <1>2, <3>1, <3>2
    <3>4. /\ inbox' \in Seq(Notification) /\ heard' \in [Receiver -> Seq(Nat)]
          /\ InOrder'
          /\ \A s \in Receiver : \A m : Heard(s, m) \/ Waits(ch[s], m) => Heard(s, m)' \/ Waits(ch[s], m)'
      BY <1>0, <1>1, <3>3, DeliverLemma
    <3> QED BY <3>2, <3>4 DEF Waits
  <2>2. CASE ~(K!On(channel[r]) = {r} /\ m_trans # "failed")
    <3>1. inbox' = inbox /\ heard' = heard
      BY <2>2 DEF K!RemoveReceiver
    <3> QED BY <1>0, <1>1, <3>1 DEF InOrder, ConnectionTyped, Heard, Waits
  <2> QED BY <2>1, <2>2
<1>5. Awaited'
  <2>1. ASSUME NEW s \in Receiver, channel'[s] # None, NEW m \in due'[s]
        PROVE  Heard(s, m)' \/ \E i \in 1..Len(inbox') : inbox'[i].channel = channel'[s] /\ inbox'[i].number = m
    <3>1. s # r /\ channel'[s] = channel[s] /\ m \in due[s]
      BY <1>1, <1>2, <2>1
    <3> HIDE DEF Heard, Waits
    <3> QED BY <1>0, <1>4, <2>1, <3>1 DEF Awaited
  <2> QED BY <2>1 DEF Awaited, Waits
<1>6. ConnectionTyped'
  BY <1>0, <1>1, <1>2, <1>4 DEF ConnectionTyped
<1>7. HandlersOnce'
  BY <1>0, <1>1 DEF HandlersOnce
<1> QED BY <1>3, <1>4, <1>5, <1>6, <1>7 DEF ConnectionInv

\* Every call of the connection, and every message, keeps the invariant.
LEMMA ConnectionNext ==
  ASSUME None \notin Channel, ConnectionInv, [K!Next]_K!vars
  PROVE  ConnectionInv'
<1>0. ConnectionTyped /\ Listens /\ InOrder /\ Awaited /\ HandlersOnce
  BY DEF ConnectionInv
<1>1. CASE (\E kind \in {"non", "work"} : K!Begin(kind)) \/ K!Fail \/ K!Commit \/ UNCHANGED K!vars
  <2>1. UNCHANGED <<channel, wanted, handlers, home, processor, inbox, sent, heard, due, lost>>
    BY <1>1 DEF K!Begin, K!Fail, K!Commit, K!vars, K!server, K!notices, K!calls
  <2>2. InOrder' /\ Awaited'
    BY <2>1, Undisturbed
  <2>3. ConnectionTyped'
    BY <1>0, <2>1 DEF ConnectionTyped
  <2>4. Listens' /\ HandlersOnce'
    BY <1>0, <2>1 DEF Listens, HandlersOnce
  <2> QED BY <2>2, <2>3, <2>4 DEF ConnectionInv
<1>2. CASE K!Rollback
  <2>1. UNCHANGED <<channel, handlers, home, processor, inbox, sent, heard, due>>
    BY <1>2 DEF K!Rollback, K!notices, K!calls
  <2>2. Listens'
    <3>1. wanted' = listening /\ lost' = lost \cup ({c \in Channel : K!On(c) # {}} \ listening)
      BY <1>2 DEF K!Rollback
    <3>2. ASSUME NEW r \in Receiver, channel[r] # None PROVE channel[r] \in Channel /\ K!On(channel[r]) # {}
      BY <1>0, <3>2 DEF ConnectionTyped, K!On
    <3> QED BY <2>1, <3>1, <3>2 DEF Listens
  <2> QED BY <1>0, <2>1, <2>2, Undisturbed DEF ConnectionInv, ConnectionTyped, HandlersOnce
<1>3. ASSUME NEW h \in Handler, K!Register(h) \/ K!Unregister(h) PROVE ConnectionInv'
  <2>1. UNCHANGED <<channel, wanted, inbox, sent, heard, due, lost>>
    BY <1>3 DEF K!Register, K!Unregister, K!server, K!calls
  <2>2. handlers' \in Seq(Handler) /\ HandlersOnce'
    BY <1>0, <1>3, RegisterLemma
  <2> QED BY <1>0, <2>1, <2>2, Undisturbed DEF ConnectionInv, ConnectionTyped, Listens
<1>4. CASE K!Close
  <2>1. /\ channel' = [r \in Receiver |-> None] /\ handlers' = <<>> /\ home' = {} /\ processor' = FALSE
        /\ inbox' = <<>> /\ UNCHANGED <<sent, heard, due>>
    BY <1>4 DEF K!Close
  <2>2. ConnectionTyped' /\ Listens' /\ Awaited'
    BY <1>0, <2>1 DEF ConnectionTyped, Listens, Awaited
  <2>3. 1..Len(inbox') = {} /\ 1..Len(handlers') = {}
    BY <2>1
  <2>4. InOrder'
    BY <1>0, <2>1, <2>3 DEF InOrder
  <2>5. HandlersOnce'
    BY <2>1, <2>3 DEF HandlersOnce
  <2> QED BY <2>2, <2>4, <2>5 DEF ConnectionInv
<1> QED
  BY <1>1, <1>2, <1>3, <1>4, NotifyLemma, GetNotifsLemma, AddReceiverLemma, RemoveReceiverLemma DEF K!Next

\* What the run checks of receivers and handlers follows from the invariant.
LEMMA ConnectionServes == ConnectionInv => K!ReceiversServed /\ K!HandlersAttached
<1> SUFFICES ASSUME ConnectionInv PROVE K!ReceiversServed /\ K!HandlersAttached
  OBVIOUS
<1>0. ConnectionTyped /\ Listens /\ InOrder /\ Awaited /\ HandlersOnce
  BY DEF ConnectionInv
<1>1. K!ReceiversServed
  <2> SUFFICES ASSUME NEW r \in Receiver, channel[r] # None
               PROVE  /\ channel[r] \in wanted \cup lost
                      /\ \A i, j \in DOMAIN heard[r] : i < j => heard[r][i] < heard[r][j]
                      /\ due[r] \subseteq K!ToSet(heard[r]) \cup {n.number : n \in K!ToSet(inbox)}
    BY DEF K!ReceiversServed
  <2>1. DOMAIN heard[r] = 1..Len(heard[r]) /\ DOMAIN inbox = 1..Len(inbox)
    BY <1>0 DEF ConnectionTyped
  <2>2. ASSUME NEW m \in due[r] PROVE m \in K!ToSet(heard[r]) \cup {n.number : n \in K!ToSet(inbox)}
    <3>1. Heard(r, m) \/ Waits(channel[r], m)
      BY <1>0 DEF Awaited
    <3> QED BY <2>1, <3>1 DEF Heard, Waits, K!ToSet
  <2> QED BY <1>0, <2>1, <2>2 DEF Listens, InOrder
<1>2. K!HandlersAttached
  <2>1. handlers \in Seq(Handler) /\ Len(handlers) \in Nat /\ DOMAIN handlers = 1..Len(handlers)
    BY <1>0 DEF ConnectionTyped
  <2>2. K!ToSet(handlers) = home
    BY <1>0, <2>1 DEF HandlersOnce, K!ToSet
  <2>3. handlers \in [1..Len(handlers) -> home]
    <3>1. \A i \in 1..Len(handlers) : handlers[i] \in home
      BY <1>0 DEF HandlersOnce
    <3>2. handlers = [i \in 1..Len(handlers) |-> handlers[i]]
      BY <2>1
    <3> QED BY <3>1, <3>2
  <2>4. handlers \in Bijection(1..Len(handlers), home)
    BY <1>0, <2>3 DEF HandlersOnce, Bijection, Injection, Surjection, IsInjective
  <2>5. ExistsBijection(1..Len(handlers), home)
    BY <2>4 DEF ExistsBijection
  <2>6. Cardinality(home) = Len(handlers)
    BY <2>1, <2>5, FS_CountingElements
  <2>7. K!Cardinality(home) = Len(handlers)
    BY <2>6, SameCardinality
  <2> QED BY <1>0, <2>2, <2>7 DEF HandlersOnce, K!HandlersAttached
<1> QED BY <1>1, <1>2

-----------------------------------------------------------------------------
(* Blobs.                                                                  *)

Bytes == Byte \cup {0}

BlobBounds == MaxSize \in Nat

BlobInv ==
  /\ content \in Seq(Bytes) \cup {None} /\ broken \in BOOLEAN /\ buf \in Seq(Bytes)
  /\ blob \in [Blob -> [mode : {"closed", "r", "w", "rw"}, pos : Nat]]
  /\ B!BlobsWhole

\* What a beginning is, element by element.
LEMMA PrefixOf ==
  ASSUME NEW v, NEW s \in Seq(v), NEW t \in Seq(v)
  PROVE  B!IsPrefix(s, t) <=> Len(s) <= Len(t) /\ \A i \in 1..Len(s) : s[i] = t[i]
<1>1. Len(s) \in Nat /\ Len(t) \in Nat
  OBVIOUS
<1>2. SubSeq(s, 1, Len(s)) = [i \in 1..Len(s) |-> s[i]]
  OBVIOUS
<1>3. ASSUME Len(s) <= Len(t) PROVE SubSeq(t, 1, Len(s)) = [i \in 1..Len(s) |-> t[i]]
  BY <1>1, <1>3
<1>4. Len(s) <= Len(t) =>
        ([i \in 1..Len(s) |-> s[i]] = [i \in 1..Len(s) |-> t[i]] <=> \A i \in 1..Len(s) : s[i] = t[i])
  OBVIOUS
<1> QED BY <1>2, <1>3, <1>4 DEF B!IsPrefix

\* The least of two numbers.
LEMMA LeastOfTwo ==
  ASSUME NEW m \in Int, NEW n \in Int
  PROVE  B!Min({m, n}) = IF m <= n THEN m ELSE n
<1>1. CASE m <= n
  <2>1. \A k \in {m, n} : m <= k
    BY <1>1
  <2>2. \A k \in {m, n} : (\A j \in {m, n} : k <= j) => k = m
    BY <1>1
  <2> QED BY <1>1, <2>1, <2>2 DEF B!Min
<1>2. CASE ~(m <= n)
  <2>1. \A k \in {m, n} : n <= k
    BY <1>2
  <2>2. \A k \in {m, n} : (\A j \in {m, n} : k <= j) => k = n
    BY <1>2
  <2> QED BY <1>2, <2>1, <2>2 DEF B!Min
<1> QED BY <1>1, <1>2

\* What a read brings: the next of the object's bytes, as many as there are.
LEMMA ReadAtIs ==
  ASSUME NEW v, NEW c \in Seq(v), NEW p \in Nat, NEW n \in Nat
  PROVE  /\ B!ReadAt(c, p, n) \in Seq(v)
         /\ Len(B!ReadAt(c, p, n)) = IF p >= Len(c) THEN 0 ELSE IF p + n <= Len(c) THEN n ELSE Len(c) - p
         /\ \A i \in 1..Len(B!ReadAt(c, p, n)) : B!ReadAt(c, p, n)[i] = c[p + i]
<1>1. PICK m \in Nat : m = Len(c)
  OBVIOUS
<1>a. p + n \in Nat /\ (IF p + n <= m THEN p + n ELSE m) \in Nat
  OBVIOUS
<1>2. PICK e \in Nat : e = IF p + n <= m THEN p + n ELSE m
  BY <1>a
<1>3. B!Min({p + n, Len(c)}) = e
  BY <1>1, <1>2, LeastOfTwo
<1>4. B!ReadAt(c, p, n) = SubSeq(c, p + 1, e)
  BY <1>3 DEF B!ReadAt
<1>5. PICK r : r = SubSeq(c, p + 1, e)
  OBVIOUS
<1>6. e <= Len(c)
  BY <1>1, <1>2
<1>7. /\ r \in Seq(v) /\ Len(r) = (IF p + 1 <= e THEN e - p ELSE 0)
      /\ \A i \in 1..Len(r) : r[i] = c[p + i]
  <2>1. CASE p + 1 <= e
    <3>1. r \in Seq(v) /\ Len(r) = e - p
      BY <1>5, <1>6, <2>1
    <3>2. \A i \in 1..e - p : r[i] = c[p + i]
      <4>1. ASSUME NEW i \in 1..e - p PROVE r[i] = c[p + i]
        <5>1. r[i] = c[(p + 1) + i - 1] /\ (p + 1) + i - 1 = p + i
          BY <1>5, <1>6, <2>1
        <5> QED BY <5>1
      <4> QED BY <4>1
    <3> QED BY <2>1, <3>1, <3>2
  <2>2. CASE ~(p + 1 <= e)
    <3>1. r \in Seq(v) /\ Len(r) = 0
      BY <1>5, <1>6, <2>2
    <3> QED BY <2>2, <3>1
  <2> QED BY <2>1, <2>2
<1>8. (IF p + 1 <= e THEN e - p ELSE 0) = IF p >= m THEN 0 ELSE IF p + n <= m THEN n ELSE m - p
  BY <1>2
<1> QED BY <1>1, <1>4, <1>5, <1>7, <1>8

\* A beginning, with what is read from its end on, is a beginning.
LEMMA PrefixGrows ==
  ASSUME NEW v, NEW s \in Seq(v), NEW c \in Seq(v), B!IsPrefix(s, c), NEW n \in Nat
  PROVE  s \o B!ReadAt(c, Len(s), n) \in Seq(v) /\ B!IsPrefix(s \o B!ReadAt(c, Len(s), n), c)
<1>1. PICK m \in Nat : m = Len(s)
  OBVIOUS
<1>2. m <= Len(c) /\ (\A i \in 1..m : s[i] = c[i]) /\ Len(c) \in Nat
  BY <1>1, PrefixOf
<1>3. PICK r \in Seq(v) :
        /\ r = B!ReadAt(c, m, n)
        /\ Len(r) = IF m >= Len(c) THEN 0 ELSE IF m + n <= Len(c) THEN n ELSE Len(c) - m
        /\ \A i \in 1..Len(r) : r[i] = c[m + i]
  <2>1. /\ B!ReadAt(c, m, n) \in Seq(v)
        /\ Len(B!ReadAt(c, m, n)) = (IF m >= Len(c) THEN 0 ELSE IF m + n <= Len(c) THEN n ELSE Len(c) - m)
        /\ \A i \in 1..Len(B!ReadAt(c, m, n)) : B!ReadAt(c, m, n)[i] = c[m + i]
    BY ReadAtIs
  <2>2. PICK q : q = B!ReadAt(c, m, n)
    OBVIOUS
  <2>3. /\ q \in Seq(v)
        /\ Len(q) = (IF m >= Len(c) THEN 0 ELSE IF m + n <= Len(c) THEN n ELSE Len(c) - m)
        /\ \A i \in 1..Len(q) : q[i] = c[m + i]
    BY <2>1, <2>2
  <2> QED BY ONLY <2>2, <2>3
<1>4. PICK t : t = s \o r
  OBVIOUS
<1>5. t \in Seq(v) /\ Len(t) = m + Len(r)
  <2>1. s \o r \in Seq(v) /\ Len(s \o r) = Len(s) + Len(r)
    OBVIOUS
  <2> QED BY <1>1, <1>4, <2>1
<1>6. Len(r) \in Nat /\ m + Len(r) <= Len(c)
  BY <1>2, <1>3
<1>7. ASSUME NEW i \in 1..m + Len(r) PROVE t[i] = c[i]
  <2>1. CASE i <= m
    BY <1>1, <1>2, <1>3, <1>4, <2>1
  <2>2. CASE ~(i <= m)
    <3>1. t[i] = r[i - m] /\ i - m \in 1..Len(r)
      BY <1>1, <1>3, <1>4, <1>6, <2>2
    <3>2. m + (i - m) = i
      OBVIOUS
    <3> QED BY <1>3, <3>1, <3>2
  <2> QED BY <2>1, <2>2
<1>8. B!IsPrefix(t, c)
  BY <1>5, <1>6, <1>7, PrefixOf
<1> QED BY <1>1, <1>3, <1>4, <1>5, <1>8

\* A beginning without its last element is one too.
LEMMA FrontPrefix ==
  ASSUME NEW v, NEW s \in Seq(v), NEW c \in Seq(v), B!IsPrefix(s, c), s # <<>>
  PROVE  B!Front(s) \in Seq(v) /\ B!IsPrefix(B!Front(s), c)
<1>1. PICK m \in Nat : m = Len(s) /\ m > 0
  OBVIOUS
<1>2. m <= Len(c) /\ (\A i \in 1..m : s[i] = c[i]) /\ Len(c) \in Nat
  BY <1>1, PrefixOf
<1>3. PICK f : f = SubSeq(s, 1, m - 1)
  OBVIOUS
<1>4. f \in Seq(v) /\ Len(f) = m - 1 /\ \A i \in 1..m - 1 : f[i] = s[i]
  BY <1>1, <1>3
<1>5. B!IsPrefix(f, c)
  BY <1>1, <1>2, <1>4, PrefixOf
<1> QED BY <1>1, <1>3, <1>4, <1>5 DEF B!Front

\* The sequences that the calls make are sequences of bytes.
LEMMA Stretched ==
  ASSUME NEW c \in Seq(Bytes), NEW n \in Nat
  PROVE  B!Stretch(c, n) \in Seq(Bytes) /\ Len(B!Stretch(c, n)) = IF n > Len(c) THEN n ELSE Len(c)
<1>0. PICK m \in Nat : m = Len(c)
  OBVIOUS
<1>a. n - m \in Int
  OBVIOUS
<1>1. PICK k \in Int : k = n - m
  BY <1>a
<1>2. PICK gap : gap = [i \in 1..k |-> 0]
  OBVIOUS
<1>3. gap \in Seq(Bytes) /\ Len(gap) = IF k > 0 THEN k ELSE 0
  <2>1. \A i \in 1..k : 0 \in Bytes
    BY DEF Bytes
  <2>2. CASE k > 0
    BY <1>2, <2>1, <2>2
  <2>3. CASE ~(k > 0)
    <3>1. 1..k = {} /\ <<>> \in Seq(Bytes) /\ Len(<<>>) = 0
      BY <2>3
    <3>2. gap = <<>>
      BY <1>2, <3>1
    <3> QED BY <2>3, <3>1, <3>2
  <2> QED BY <2>2, <2>3
<1>4. B!Stretch(c, n) = c \o gap
  BY <1>0, <1>1, <1>2 DEF B!Stretch
<1>5. Len(c \o gap) = Len(c) + Len(gap) /\ c \o gap \in Seq(Bytes)
  BY <1>3
<1>6. PICK g \in Nat : g = Len(gap)
  BY <1>3
<1>7. m + g = IF n > m THEN n ELSE m
  BY <1>1, <1>3, <1>6
<1> QED BY <1>0, <1>4, <1>5, <1>6, <1>7

\* A buffer stretched and cut to a size holds bytes.
LEMMA Cut ==
  ASSUME NEW c \in Seq(Bytes), NEW n \in Nat
  PROVE  SubSeq(B!Stretch(c, n), 1, n) \in Seq(Bytes)
<1>1. PICK s \in Seq(Bytes) : s = B!Stretch(c, n) /\ n <= Len(s)
  BY Stretched
<1>2. SubSeq(s, 1, n) \in Seq(Bytes)
  BY <1>1
<1> QED BY <1>1, <1>2

\* A write leaves bytes in the object.
LEMMA Written ==
  ASSUME NEW c \in Seq(Bytes), NEW n \in Nat, NEW d \in Seq(Bytes)
  PROVE  B!WriteAt(c, n, d) \in Seq(Bytes)
<1>1. SubSeq(B!Stretch(c, n), 1, n) \in Seq(Bytes)
  BY Cut
<1>2. SubSeq(c, n + Len(d) + 1, Len(c)) \in Seq(Bytes)
  OBVIOUS
<1> QED BY <1>1, <1>2 DEF B!WriteAt

\* Before the first call there is no object, and no blob is open.
LEMMA BlobInit == B!Init => BlobInv
<1>1. B!Closed \in [mode : {"closed", "r", "w", "rw"}, pos : Nat]
  BY DEF B!Closed
<1>2. SUFFICES ASSUME B!Init PROVE BlobInv
  OBVIOUS
<1>3. blob \in [Blob -> [mode : {"closed", "r", "w", "rw"}, pos : Nat]]
  BY <1>1, <1>2 DEF B!Init
<1>4. content = None /\ broken = FALSE /\ buf = <<>> /\ job.kind = "none" /\ <<>> \in Seq(Bytes)
  BY <1>2 DEF B!Init, B!NoJob
<1> QED BY <1>3, <1>4 DEF BlobInv, B!BlobsWhole

\* Every call of a blob keeps the types, and what its job has done is whole.
LEMMA BlobNext == BlobBounds /\ BlobInv /\ [B!Next]_B!vars => BlobInv'
<1> SUFFICES ASSUME BlobBounds, BlobInv, [B!Next]_B!vars PROVE BlobInv'
  OBVIOUS
<1> DEFINE Handle == [mode : {"closed", "r", "w", "rw"}, pos : Nat]
<1>1. /\ content \in Seq(Bytes) \cup {None} /\ broken \in BOOLEAN /\ buf \in Seq(Bytes)
      /\ blob \in [Blob -> Handle] /\ B!BlobsWhole
  BY DEF BlobInv
<1>2. /\ B!Closed \in Handle /\ (\A mode \in {"r", "w", "rw"} : [mode |-> mode, pos |-> 0] \in Handle)
      /\ <<>> \in Seq(Bytes)
  BY DEF B!Closed
<1>3. B!Datas \subseteq Seq(Bytes) /\ 0..MaxSize \subseteq Nat
  <2>1. ASSUME NEW s \in B!Datas PROVE s \in Seq(Bytes)
    <3>1. PICK k \in 0..MaxSize : s \in [1..k -> Byte]
      BY DEF B!Datas, B!BoundedSeq, B!SeqOf
    <3>2. k \in Nat /\ s \in [1..k -> Bytes]
      BY <3>1 DEF BlobBounds, Bytes
    <3> QED BY <3>2
  <2> QED BY <2>1 DEF BlobBounds
<1>4. ASSUME NEW b \in Blob, NEW n \in Nat
      PROVE  [blob EXCEPT ![b].pos = @ + n] \in [Blob -> Handle] /\ [blob EXCEPT ![b].pos = n] \in [Blob -> Handle]
  <2>1. blob[b].pos + n \in Nat
    BY <1>1
  <2> QED BY <1>1, <2>1
<1>5. ASSUME NEW b \in Blob PROVE [blob EXCEPT ![b] = B!Closed] \in [Blob -> Handle]
  BY <1>1, <1>2
<1>6. ASSUME NEW b \in Blob, NEW h \in Handle PROVE [blob EXCEPT ![b] = h] \in [Blob -> Handle]
  BY <1>1
<1> HIDE DEF Handle
<1>7. ASSUME job'.kind \notin {"store", "new", "fetch"} PROVE B!BlobsWhole'
  BY <1>7 DEF B!BlobsWhole
<1>8. ASSUME UNCHANGED <<content, buf, job>>, broken' \/ broken' = broken PROVE B!BlobsWhole'
  BY <1>1, <1>8 DEF B!BlobsWhole, B!IsPrefix
<1>9. ASSUME B!Refused PROVE broken' = TRUE /\ content' = content
  BY <1>9 DEF B!Refused
<1>10. B!NoJob.kind = "none"
  BY DEF B!NoJob
<1>11. BlobInv' <=> /\ content' \in Seq(Bytes) \cup {None} /\ broken' \in BOOLEAN /\ buf' \in Seq(Bytes)
                    /\ blob' \in [Blob -> Handle] /\ B!BlobsWhole'
  BY DEF BlobInv, Handle
<1>12. B!Usable => content \in Seq(Bytes)
  BY <1>1 DEF B!Usable
<1>13. ASSUME NEW m, B!Becomes(m) PROVE content' = m /\ broken' = broken
  BY <1>13 DEF B!Becomes
<1>20. CASE B!Create
  <2>1. job' = B!NoJob /\ B!BlobsWhole' /\ blob' = blob /\ buf' = buf
    BY <1>20, <1>7, <1>10 DEF B!Create
  <2>2. B!Becomes(<<>>) \/ B!Refused
    BY <1>20 DEF B!Create
  <2>3. CASE B!Becomes(<<>>)
    <3>1. content' = <<>> /\ broken' = broken
      BY <2>3 DEF B!Becomes
    <3> QED BY <2>1, <3>1, <1>1, <1>2, <1>11
  <2>4. CASE B!Refused
    BY <2>1, <2>4, <1>1, <1>9, <1>11
  <2> QED BY <2>2, <2>3, <2>4
<1>21. CASE B!Unlink
  BY <1>21, <1>1, <1>7, <1>9, <1>10, <1>11, <1>13 DEF B!Unlink
<1>22. ASSUME NEW b \in Blob, NEW mode \in {"r", "w", "rw"}, B!Open(b, mode) PROVE BlobInv'
  <2>1. CASE B!Usable
    BY <1>22, <2>1, <1>1, <1>2, <1>6, <1>8, <1>11, <1>13 DEF B!Open
  <2>2. CASE ~B!Usable
    BY <1>22, <2>2, <1>1, <1>8, <1>9, <1>11 DEF B!Open
  <2> QED BY <2>1, <2>2
<1>23. ASSUME NEW b \in Blob, NEW c \in Blob \ {b}, B!Move(b, c) PROVE BlobInv'
  <2>1. [blob EXCEPT ![b] = blob[c], ![c] = B!Closed] \in [Blob -> Handle]
    BY <1>1, <1>2
  <2> QED BY <1>23, <2>1, <1>1, <1>8, <1>11 DEF B!Move
<1>24. ASSUME NEW b \in Blob, B!CloseBlob(b) PROVE BlobInv'
  BY <1>24, <1>1, <1>5, <1>8, <1>11 DEF B!CloseBlob
<1>25. ASSUME NEW b \in Blob, NEW data \in B!Datas, B!Write(b, data) PROVE BlobInv'
  <2>1. data \in Seq(Bytes) /\ Len(data) \in Nat /\ job' = B!NoJob /\ buf' = buf /\ B!BlobsWhole'
    BY <1>25, <1>3, <1>7, <1>10 DEF B!Write
  <2>2. CASE B!Usable /\ blob[b].mode \in {"w", "rw"}
    <3>1. blob[b].pos \in Nat
      BY <1>1 DEF Handle
    <3>2. B!WriteAt(content, blob[b].pos, data) \in Seq(Bytes)
      BY <2>1, <2>2, <3>1, <1>12, Written
    <3>3. /\ content' = B!WriteAt(content, blob[b].pos, data) /\ broken' = broken
          /\ blob' = [blob EXCEPT ![b].pos = @ + Len(data)]
      BY <1>25, <2>2 DEF B!Write, B!Becomes
    <3> QED BY <2>1, <3>2, <3>3, <1>1, <1>4, <1>11
  <2>3. CASE ~(B!Usable /\ blob[b].mode \in {"w", "rw"})
    BY <1>25, <2>1, <2>3, <1>1, <1>9, <1>11 DEF B!Write
  <2> QED BY <2>2, <2>3
<1>26. ASSUME NEW b \in Blob, NEW n \in Nat, B!Read(b, n) PROVE BlobInv'
  <2>1. job' = B!NoJob /\ B!BlobsWhole'
    BY <1>26, <1>7, <1>10 DEF B!Read
  <2>2. CASE B!Usable /\ blob[b].mode \in {"r", "rw"}
    <3>1. blob[b].pos \in Nat
      BY <1>1 DEF Handle
    <3>2. PICK r \in Seq(Bytes) : r = B!ReadAt(content, blob[b].pos, n)
      BY <2>2, <3>1, <1>12, ReadAtIs
    <3>3. buf' = r /\ blob' = [blob EXCEPT ![b].pos = @ + Len(r)] /\ B!Becomes(content) /\ Len(r) \in Nat
      BY <1>26, <2>2, <3>2 DEF B!Read
    <3> QED BY <2>1, <3>3, <1>1, <1>4, <1>11, <1>13
  <2>3. CASE ~(B!Usable /\ blob[b].mode \in {"r", "rw"})
    <3>1. SubSeq(B!Stretch(buf, n), 1, n) \in Seq(Bytes)
      BY <1>1, Cut
    <3> QED BY <1>26, <2>1, <2>3, <3>1, <1>1, <1>9, <1>11 DEF B!Read
  <2> QED BY <2>2, <2>3
<1>27. ASSUME NEW b \in Blob, NEW n \in Nat, B!Resize(b, n) PROVE BlobInv'
  <2>1. job' = B!NoJob /\ B!BlobsWhole' /\ blob' = blob /\ buf' = buf
    BY <1>27, <1>7, <1>10 DEF B!Resize
  <2>2. CASE B!Usable /\ blob[b].mode \in {"w", "rw"}
    <3>1. SubSeq(B!Stretch(content, n), 1, n) \in Seq(Bytes)
      BY <2>2, <1>12, Cut
    <3>2. content' = SubSeq(B!Stretch(content, n), 1, n) /\ broken' = broken
      BY <1>27, <2>2 DEF B!Resize, B!Becomes
    <3> QED BY <2>1, <3>1, <3>2, <1>1, <1>11
  <2>3. CASE ~(B!Usable /\ blob[b].mode \in {"w", "rw"})
    BY <1>27, <2>1, <2>3, <1>1, <1>9, <1>11 DEF B!Resize
  <2> QED BY <2>2, <2>3
<1>28. ASSUME NEW b \in Blob, NEW n \in Nat, B!Seek(b, n) PROVE BlobInv'
  <2>1. CASE B!Usable
    <3>1. blob' = [blob EXCEPT ![b].pos = n] /\ UNCHANGED <<content, broken, buf, job>>
      BY <1>28, <2>1 DEF B!Seek, B!Becomes
    <3> QED BY <3>1, <1>1, <1>4, <1>8, <1>11
  <2>2. CASE ~B!Usable
    BY <1>28, <2>2, <1>1, <1>8, <1>9, <1>11 DEF B!Seek
  <2> QED BY <2>1, <2>2
<1>29. ASSUME NEW data \in B!Datas, B!FromBuf(data) PROVE BlobInv'
  <2>1. data \in Seq(Bytes) /\ job'.kind = "store" /\ job'.data = data /\ blob' = blob /\ buf' = buf
    BY <1>29, <1>3 DEF B!FromBuf
  <2>2. \/ broken' = TRUE /\ content' = content
        \/ broken' = broken /\ content' \in {data, None}
        \/ broken' = TRUE /\ content' = <<>>
    BY <1>29, <1>9, <1>13 DEF B!FromBuf
  <2>3. B!BlobsWhole'
    BY <2>1, <2>2 DEF B!BlobsWhole
  <2> QED BY <2>1, <2>2, <2>3, <1>1, <1>2, <1>11
<1>30. ASSUME NEW data \in B!Datas, B!AppendFromBuf(data) PROVE BlobInv'
  <2>1. data \in Seq(Bytes) /\ job' = B!NoJob /\ B!BlobsWhole' /\ blob' = blob /\ buf' = buf
    BY <1>30, <1>3, <1>7, <1>10 DEF B!AppendFromBuf
  <2>2. CASE B!Usable
    <3>1. content \o data \in Seq(Bytes)
      BY <2>1, <2>2, <1>12
    <3>2. content' = content \o data /\ broken' = broken
      BY <1>30, <2>2 DEF B!AppendFromBuf, B!Becomes
    <3> QED BY <2>1, <3>1, <3>2, <1>1, <1>11
  <2>3. CASE ~B!Usable
    BY <1>30, <2>1, <2>3, <1>1, <1>9, <1>11 DEF B!AppendFromBuf
  <2> QED BY <2>2, <2>3
<1>31. ASSUME NEW n \in Nat, B!ToBuf(n) PROVE BlobInv'
  <2>1. blob' = blob
    BY <1>31 DEF B!ToBuf
  <2>2. CASE B!Usable /\ buf' = B!ReadAt(content, 0, n) /\ B!Becomes(content)
             /\ job' = [kind |-> "fetch", data |-> <<>>]
    <3>1. /\ <<>> \o B!ReadAt(content, Len(<<>>), n) \in Seq(Bytes)
          /\ B!IsPrefix(<<>> \o B!ReadAt(content, Len(<<>>), n), content)
      <4>1. B!IsPrefix(<<>>, content)
        <5>1. Len(<<>>) = 0 /\ 1..0 = {} /\ <<>> \in Seq(Bytes) /\ Len(content) >= 0
          BY <2>2, <1>12
        <5> QED BY <2>2, <5>1, <1>12, PrefixOf
      <4> QED BY <2>2, <4>1, <1>2, <1>12, PrefixGrows
    <3>2. PICK r \in Seq(Bytes) : r = B!ReadAt(content, 0, n)
      BY <2>2, <1>12, ReadAtIs
    <3>3. r = <<>> \o B!ReadAt(content, Len(<<>>), n)
      BY <3>2
    <3>4. buf' = r /\ content' = content /\ broken' = broken
      BY <2>2, <3>2, <1>13
    <3>5. B!BlobsWhole'
      BY <2>2, <3>1, <3>3, <3>4 DEF B!BlobsWhole, B!Usable, B!IsPrefix
    <3> QED BY <2>1, <3>4, <3>5, <1>1, <1>11
  <2>3. CASE B!Refused /\ buf' \in {buf, SubSeq(B!Stretch(buf, n), 1, n)} /\ job' = B!NoJob
    <3>1. SubSeq(B!Stretch(buf, n), 1, n) \in Seq(Bytes)
      BY <1>1, Cut
    <3>2. B!BlobsWhole'
      BY <2>3, <1>7, <1>10
    <3> QED BY <2>1, <2>3, <3>1, <3>2, <1>1, <1>9, <1>11
  <2> QED BY <1>31, <2>2, <2>3 DEF B!ToBuf
<1>32. ASSUME NEW n \in Nat, B!AppendToBuf(n) PROVE BlobInv'
  <2>1. job.kind = "fetch" /\ job'.kind = "fetch" /\ blob' = blob
    BY <1>32 DEF B!AppendToBuf
  <2>2. content # None /\ content \in Seq(Bytes) /\ B!IsPrefix(buf, content)
    BY <2>1, <1>1 DEF B!BlobsWhole
  <2>3. ASSUME content' = content, broken' \in BOOLEAN, buf' \in Seq(Bytes), B!IsPrefix(buf', content)
        PROVE  BlobInv'
    <3>1. B!BlobsWhole'
      BY <2>1, <2>2, <2>3 DEF B!BlobsWhole, B!IsPrefix
    <3> QED BY <2>1, <2>3, <3>1, <1>1, <1>11
  <2>4. CASE B!Usable /\ buf' = buf \o B!ReadAt(content, Len(buf), n) /\ B!Becomes(content)
    <3>1. content' = content /\ broken' = broken
      BY <2>4, <1>13
    <3>2. buf' \in Seq(Bytes) /\ B!IsPrefix(buf', content)
      BY <2>2, <2>4, <1>1, PrefixGrows
    <3> QED BY <2>3, <3>1, <3>2, <1>1
  <2>5. CASE B!Usable /\ B!ReadFails
    <3>1. /\ broken' = TRUE /\ content' = content
          /\ buf' = IF buf = <<>> THEN buf ELSE B!Front(buf)
      BY <2>5 DEF B!ReadFails
    <3>2. buf # <<>> => B!Front(buf) \in Seq(Bytes) /\ B!IsPrefix(B!Front(buf), content)
      BY <2>2, <1>1, FrontPrefix
    <3> QED BY <2>2, <2>3, <3>1, <3>2, <1>1
  <2>6. CASE ~B!Usable /\ B!Refused /\ UNCHANGED buf
    BY <2>2, <2>3, <2>6, <1>1, <1>9
  <2> QED BY <1>32, <2>4, <2>5, <2>6 DEF B!AppendToBuf
<1>33. ASSUME NEW data \in B!Datas, B!FromBufNew(data) PROVE BlobInv'
  <2>1. /\ data \in Seq(Bytes) /\ job'.kind = "new" /\ job'.data = data /\ blob' = blob /\ buf' = buf
        /\ content = None
    BY <1>33, <1>3 DEF B!FromBufNew
  <2>2. \/ broken' = TRUE /\ content' = content
        \/ broken' = broken /\ content' = data
        \/ broken' = TRUE /\ content' = <<>>
        \/ broken' = broken /\ content' = <<>> /\ Len(data) > ChunkLimit
    BY <1>33, <1>9, <1>13 DEF B!FromBufNew
  <2>3. B!BlobsWhole'
    BY <2>1, <2>2 DEF B!BlobsWhole
  <2> QED BY <2>1, <2>2, <2>3, <1>1, <1>2, <1>11
<1>34. CASE UNCHANGED B!vars
  BY <1>34, <1>1, <1>8, <1>11 DEF B!vars
<1> QED BY <1>3, <1>20, <1>21, <1>22, <1>23, <1>24, <1>25, <1>26, <1>27, <1>28, <1>29, <1>30, <1>31, <1>32,
           <1>33, <1>34 DEF B!Next

-----------------------------------------------------------------------------
(* Streams over a large object.                                            *)

\* The streams read and compare sequences as the blobs do.
LEMMA FilePrefixOf ==
  ASSUME NEW v, NEW s \in Seq(v), NEW t \in Seq(v)
  PROVE  O!IsPrefix(s, t) <=> Len(s) <= Len(t) /\ \A i \in 1..Len(s) : s[i] = t[i]
<1>1. O!IsPrefix(s, t) <=> B!IsPrefix(s, t)
  BY DEF O!IsPrefix, B!IsPrefix
<1> QED BY <1>1, PrefixOf

\* Both modules read from a place in the same way.
LEMMA SameReadAt ==
  ASSUME NEW c, NEW p, NEW n
  PROVE  O!ReadAt(c, p, n) = B!ReadAt(c, p, n)
BY Zenon DEF O!ReadAt, B!ReadAt, O!Min, B!Min

\* What a read of a stream brings: the next of the object, as much as there is.
LEMMA FileReadAtIs ==
  ASSUME NEW v, NEW c \in Seq(v), NEW p \in Nat, NEW n \in Nat
  PROVE  /\ O!ReadAt(c, p, n) \in Seq(v)
         /\ Len(O!ReadAt(c, p, n)) = IF p >= Len(c) THEN 0 ELSE IF p + n <= Len(c) THEN n ELSE Len(c) - p
         /\ \A i \in 1..Len(O!ReadAt(c, p, n)) : O!ReadAt(c, p, n)[i] = c[p + i]
BY SameReadAt, ReadAtIs

\* A beginning of the object, with what is read next, is one still.
LEMMA FilePrefixGrows ==
  ASSUME NEW v, NEW s \in Seq(v), NEW c \in Seq(v), O!IsPrefix(s, c), NEW n \in Nat
  PROVE  s \o O!ReadAt(c, Len(s), n) \in Seq(v) /\ O!IsPrefix(s \o O!ReadAt(c, Len(s), n), c)
<1>1. B!IsPrefix(s, c)
  BY DEF O!IsPrefix, B!IsPrefix
<1>2. s \o B!ReadAt(c, Len(s), n) \in Seq(v) /\ B!IsPrefix(s \o B!ReadAt(c, Len(s), n), c)
  BY <1>1, PrefixGrows
<1>3. O!ReadAt(c, Len(s), n) = B!ReadAt(c, Len(s), n)
  BY SameReadAt
<1> QED BY <1>2, <1>3 DEF O!IsPrefix, B!IsPrefix

\* Sequences that agree in length and in every place are one.
LEMMA SameSequence ==
  ASSUME NEW v, NEW s \in Seq(v), NEW t \in Seq(v), Len(s) = Len(t), \A i \in 1..Len(s) : s[i] = t[i]
  PROVE  s = t
<1>1. s = [i \in 1..Len(s) |-> s[i]] /\ t = [i \in 1..Len(t) |-> t[i]]
  OBVIOUS
<1>2. [i \in 1..Len(s) |-> s[i]] = [i \in 1..Len(t) |-> t[i]]
  OBVIOUS
<1> QED BY <1>1, <1>2

\* The places of a sequence that is put together.
LEMMA Joined ==
  ASSUME NEW v, NEW s \in Seq(v), NEW t \in Seq(v)
  PROVE  /\ s \o t \in Seq(v) /\ Len(s \o t) = Len(s) + Len(t)
         /\ \A i \in 1..Len(s) + Len(t) : (s \o t)[i] = IF i <= Len(s) THEN s[i] ELSE t[i - Len(s)]
OBVIOUS

\* What begins a beginning begins the whole.
LEMMA ShorterPrefix ==
  ASSUME NEW v, NEW s \in Seq(v), NEW t \in Seq(v), NEW c \in Seq(v), O!IsPrefix(s \o t, c)
  PROVE  O!IsPrefix(s, c)
<1>1. PICK w : w = s \o t
  OBVIOUS
<1>2. /\ w \in Seq(v) /\ Len(w) = Len(s) + Len(t)
      /\ \A i \in 1..Len(s) + Len(t) : w[i] = IF i <= Len(s) THEN s[i] ELSE t[i - Len(s)]
  BY <1>1, Joined
<1>3. Len(w) <= Len(c) /\ \A i \in 1..Len(w) : w[i] = c[i]
  BY <1>1, <1>2, FilePrefixOf
<1>4. PICK m \in Nat, n \in Nat, k \in Nat : m = Len(s) /\ n = Len(t) /\ k = Len(c)
  OBVIOUS
<1>5. m + n <= k /\ \A i \in 1..m + n : w[i] = c[i] /\ w[i] = IF i <= m THEN s[i] ELSE t[i - m]
  BY ONLY <1>2, <1>3, <1>4
<1>6. m <= k /\ \A i \in 1..m : s[i] = c[i]
  BY ONLY <1>5
<1> QED BY <1>4, <1>6, FilePrefixOf

\* A sequence with one more element, element by element.
LEMMA Added ==
  ASSUME NEW v, NEW s \in Seq(v), NEW x \in v
  PROVE  /\ Append(s, x) \in Seq(v) /\ Len(Append(s, x)) = Len(s) + 1
         /\ Append(s, x)[Len(s) + 1] = x /\ \A i \in 1..Len(s) : Append(s, x)[i] = s[i]
OBVIOUS

\* A sequence without its first element, element by element.
LEMMA Rest ==
  ASSUME NEW v, NEW s \in Seq(v), s # <<>>
  PROVE  /\ Head(s) \in v /\ Head(s) = s[1] /\ Len(s) > 0 /\ Len(s) \in Nat
         /\ Tail(s) \in Seq(v) /\ Len(Tail(s)) = Len(s) - 1
         /\ \A i \in 1..Len(s) - 1 : Tail(s)[i] = s[i + 1]
OBVIOUS

\* A sequence of one element.
LEMMA Single ==
  ASSUME NEW v, NEW x \in v
  PROVE  <<x>> \in Seq(v) /\ Len(<<x>>) = 1 /\ <<x>>[1] = x
OBVIOUS

\* What a write makes of an object that reaches up to it.
LEMMA WriteIs ==
  ASSUME NEW v, NEW c \in Seq(v), NEW p \in Nat, p <= Len(c), NEW d \in Seq(v)
  PROVE  /\ O!WriteAt(c, p, d) \in Seq(v)
         /\ Len(O!WriteAt(c, p, d)) = IF p + Len(d) > Len(c) THEN p + Len(d) ELSE Len(c)
         /\ \A i \in 1..Len(O!WriteAt(c, p, d)) :
              O!WriteAt(c, p, d)[i] = IF i <= p THEN c[i] ELSE IF i <= p + Len(d) THEN d[i - p] ELSE c[i]
<1>1. PICK m \in Nat : m = Len(c)
  OBVIOUS
<1>2. PICK n \in Nat : n = Len(d)
  OBVIOUS
<1>3. PICK front \in Seq(v) : front = SubSeq(c, 1, p) /\ Len(front) = p /\ \A i \in 1..p : front[i] = c[i]
  <2>1. SubSeq(c, 1, p) \in Seq(v) /\ Len(SubSeq(c, 1, p)) = p
    OBVIOUS
  <2>2. \A i \in 1..p : SubSeq(c, 1, p)[i] = c[i]
    OBVIOUS
  <2> QED BY <2>1, <2>2
<1>4. PICK k \in Nat : k = IF p + n > m THEN 0 ELSE m - (p + n)
  <2>1. (IF p + n > m THEN 0 ELSE m - (p + n)) \in Nat
    OBVIOUS
  <2> QED BY <2>1
<1>5. PICK rear \in Seq(v) : rear = SubSeq(c, p + n + 1, m) /\ Len(rear) = k /\ \A i \in 1..k : rear[i] = c[p + n + i]
  <2>1. PICK q : q = SubSeq(c, p + n + 1, m)
    OBVIOUS
  <2>2. CASE p + n + 1 <= m
    <3>1. q \in Seq(v) /\ Len(q) = m - (p + n) /\ k = m - (p + n)
      BY <1>1, <1>4, <2>1, <2>2
    <3>2. ASSUME NEW i \in 1..m - (p + n) PROVE q[i] = c[p + n + i]
      <4>1. q[i] = c[(p + n + 1) + i - 1] /\ (p + n + 1) + i - 1 = p + n + i
        BY <1>1, <2>1, <2>2
      <4> QED BY <4>1
    <3> QED BY <2>1, <3>1, <3>2
  <2>3. CASE ~(p + n + 1 <= m)
    <3>1. q \in Seq(v) /\ Len(q) = 0 /\ k = 0
      BY <1>1, <1>4, <2>1, <2>3
    <3>2. \A i \in 1..k : q[i] = c[p + n + i]
      BY <3>1
    <3> QED BY ONLY <2>1, <3>1, <3>2
  <2> QED BY <2>2, <2>3
<1>6. PICK w : w = front \o d \o rear
  OBVIOUS
<1>7. O!WriteAt(c, p, d) = w
  BY <1>1, <1>2, <1>3, <1>5, <1>6 DEF O!WriteAt
<1>8. PICK u : u = front \o d
  OBVIOUS
<1>9. /\ u \in Seq(v) /\ Len(u) = p + n
      /\ \A i \in 1..p + n : u[i] = IF i <= p THEN front[i] ELSE d[i - p]
  BY <1>2, <1>3, <1>8
<1>10. /\ w \in Seq(v) /\ Len(w) = p + n + k
       /\ \A i \in 1..p + n + k : w[i] = IF i <= p + n THEN u[i] ELSE rear[i - (p + n)]
  <2>1. w = u \o rear
    BY <1>6, <1>8
  <2>2. /\ w \in Seq(v) /\ Len(w) = Len(u) + Len(rear)
        /\ \A i \in 1..Len(u) + Len(rear) : w[i] = IF i <= Len(u) THEN u[i] ELSE rear[i - Len(u)]
    BY <1>9, <2>1, Joined
  <2> QED BY ONLY <1>5, <1>9, <2>2
<1>11. p + n + k = IF p + n > m THEN p + n ELSE m
  BY <1>4
<1>12. ASSUME NEW i \in 1..p + n + k
       PROVE  w[i] = IF i <= p THEN c[i] ELSE IF i <= p + n THEN d[i - p] ELSE c[i]
  <2>1. CASE i <= p
    <3>1. w[i] = u[i] /\ u[i] = front[i] /\ front[i] = c[i]
      BY <1>3, <1>9, <1>10, <2>1
    <3> QED BY <2>1, <3>1
  <2>2. CASE ~(i <= p) /\ i <= p + n
    <3>1. w[i] = u[i] /\ u[i] = d[i - p]
      BY <1>9, <1>10, <2>2
    <3> QED BY <2>2, <3>1
  <2>3. CASE ~(i <= p + n)
    <3>1. w[i] = rear[i - (p + n)] /\ i - (p + n) \in 1..k /\ ~(i <= p)
      BY <1>10, <2>3
    <3>2. rear[i - (p + n)] = c[p + n + (i - (p + n))] /\ p + n + (i - (p + n)) = i
      BY <1>5, <3>1
    <3> QED BY <2>3, <3>1, <3>2
  <2> QED BY <2>1, <2>2, <2>3
<1> QED BY ONLY <1>1, <1>2, <1>7, <1>10, <1>11, <1>12

\* To write one more byte is to write it after the others.
LEMMA WriteOn ==
  ASSUME NEW v, NEW c \in Seq(v), NEW p \in Nat, p <= Len(c), NEW d \in Seq(v), NEW x \in v
  PROVE  O!WriteAt(c, p, Append(d, x)) = O!WriteAt(O!WriteAt(c, p, d), p + Len(d), <<x>>)
<1>1. PICK m \in Nat : m = Len(c)
  OBVIOUS
<1>2. PICK n \in Nat : n = Len(d)
  OBVIOUS
<1>3. PICK e \in Seq(v) : e = Append(d, x) /\ Len(e) = n + 1 /\ e[n + 1] = x /\ \A i \in 1..n : e[i] = d[i]
  <2>1. PICK e : e = Append(d, x)
    OBVIOUS
  <2>2. /\ e \in Seq(v) /\ Len(e) = Len(d) + 1
        /\ e[Len(d) + 1] = x /\ \A i \in 1..Len(d) : e[i] = d[i]
    BY <2>1, Added
  <2> QED BY ONLY <1>2, <2>1, <2>2
<1>4. PICK w \in Seq(v) : /\ w = O!WriteAt(c, p, d)
                          /\ Len(w) = IF p + n > m THEN p + n ELSE m
                          /\ \A i \in 1..Len(w) :
                               w[i] = IF i <= p THEN c[i] ELSE IF i <= p + n THEN d[i - p] ELSE c[i]
  <2>1. PICK w : w = O!WriteAt(c, p, d)
    OBVIOUS
  <2>2. /\ w \in Seq(v) /\ Len(w) = (IF p + Len(d) > Len(c) THEN p + Len(d) ELSE Len(c))
        /\ \A i \in 1..Len(w) :
             w[i] = IF i <= p THEN c[i] ELSE IF i <= p + Len(d) THEN d[i - p] ELSE c[i]
    BY <2>1, WriteIs
  <2> QED BY ONLY <1>1, <1>2, <2>1, <2>2
<1>5. PICK y \in Seq(v) : /\ y = O!WriteAt(c, p, e)
                          /\ Len(y) = IF p + (n + 1) > m THEN p + (n + 1) ELSE m
                          /\ \A i \in 1..Len(y) :
                               y[i] = IF i <= p THEN c[i] ELSE IF i <= p + (n + 1) THEN e[i - p] ELSE c[i]
  <2>1. PICK y : y = O!WriteAt(c, p, e)
    OBVIOUS
  <2>2. /\ y \in Seq(v) /\ Len(y) = (IF p + Len(e) > Len(c) THEN p + Len(e) ELSE Len(c))
        /\ \A i \in 1..Len(y) :
             y[i] = IF i <= p THEN c[i] ELSE IF i <= p + Len(e) THEN e[i - p] ELSE c[i]
    BY <2>1, WriteIs
  <2> QED BY ONLY <1>1, <1>3, <2>1, <2>2
<1>6. PICK q \in Nat : q = p + n
  OBVIOUS
<1>7. q <= Len(w)
  BY <1>4, <1>6
<1>8. PICK one \in Seq(v) : one = <<x>> /\ Len(one) = 1 /\ one[1] = x
  <2>1. PICK one : one = <<x>>
    OBVIOUS
  <2>2. one \in Seq(v) /\ Len(one) = 1 /\ one[1] = x
    BY <2>1, Single
  <2> QED BY ONLY <2>1, <2>2
<1>9. PICK z \in Seq(v) : /\ z = O!WriteAt(w, q, one)
                          /\ Len(z) = IF q + 1 > Len(w) THEN q + 1 ELSE Len(w)
                          /\ \A i \in 1..Len(z) :
                               z[i] = IF i <= q THEN w[i] ELSE IF i <= q + 1 THEN one[i - q] ELSE w[i]
  <2>1. PICK z : z = O!WriteAt(w, q, one)
    OBVIOUS
  <2>2. /\ z \in Seq(v) /\ Len(z) = (IF q + Len(one) > Len(w) THEN q + Len(one) ELSE Len(w))
        /\ \A i \in 1..Len(z) :
             z[i] = IF i <= q THEN w[i] ELSE IF i <= q + Len(one) THEN one[i - q] ELSE w[i]
    BY <1>7, <2>1, WriteIs
  <2> QED BY ONLY <1>8, <2>1, <2>2
<1>10. PICK a \in Nat : a = Len(w)
  OBVIOUS
<1>11. Len(y) = Len(z)
  <2>1. a = IF q > m THEN q ELSE m
    BY ONLY <1>4, <1>6, <1>10
  <2>2. p + (n + 1) = q + 1
    BY ONLY <1>6
  <2>3. Len(y) = IF q + 1 > m THEN q + 1 ELSE m
    BY ONLY <1>5, <2>2
  <2>4. Len(z) = IF q + 1 > a THEN q + 1 ELSE a
    BY ONLY <1>9, <1>10
  <2>5. (IF q + 1 > m THEN q + 1 ELSE m) = IF q + 1 > a THEN q + 1 ELSE a
    BY ONLY <2>1
  <2> QED BY ONLY <2>3, <2>4, <2>5
<1>12. ASSUME NEW i \in 1..Len(y) PROVE y[i] = z[i]
  <2>1. PICK b \in Nat : b = Len(y)
    OBVIOUS
  <2>2. i \in 1..b /\ i \in Nat /\ i >= 1
    BY <2>1
  <2>3. y[i] = IF i <= p THEN c[i] ELSE IF i <= p + (n + 1) THEN e[i - p] ELSE c[i]
    BY ONLY <1>5, <1>12
  <2>4. z[i] = IF i <= q THEN w[i] ELSE IF i <= q + 1 THEN one[i - q] ELSE w[i]
    BY ONLY <1>9, <1>11, <1>12
  <2>5. CASE i <= q
    <3>1. i \in 1..Len(w)
      BY <1>4, <1>6, <2>2, <2>5
    <3>2. w[i] = IF i <= p THEN c[i] ELSE d[i - p]
      BY <1>4, <1>6, <2>5, <3>1
    <3>3. ~(i <= p) => e[i - p] = d[i - p] /\ i <= p + (n + 1)
      <4>1. ~(i <= p) => i - p \in 1..n /\ i <= p + (n + 1)
        BY <1>6, <2>2, <2>5
      <4> QED BY <1>3, <4>1
    <3> QED BY <2>3, <2>4, <2>5, <3>2, <3>3
  <2>6. CASE i = q + 1
    <3>1. i - p = n + 1 /\ i - q = 1 /\ ~(i <= q) /\ i <= q + 1 /\ ~(i <= p) /\ i <= p + (n + 1)
      BY <1>6, <2>6
    <3> QED BY <1>3, <1>8, <2>3, <2>4, <3>1
  <2>7. CASE ~(i <= q + 1)
    <3>1. ~(i <= q) /\ ~(i <= p) /\ ~(i <= p + n) /\ ~(i <= p + (n + 1)) /\ i \in 1..m
      BY <1>5, <1>6, <2>1, <2>2, <2>7
    <3>2. i \in 1..Len(w)
      BY <1>4, <3>1
    <3>3. w[i] = c[i]
      BY <1>4, <3>1, <3>2
    <3> QED BY <2>3, <2>4, <2>7, <3>1, <3>3
  <2> QED BY <2>2, <2>5, <2>6, <2>7
<1>13. y = z
  BY <1>11, <1>12, SameSequence
<1> QED BY <1>2, <1>3, <1>4, <1>5, <1>6, <1>8, <1>9, <1>13

\* To take the first byte from what is read to what was brought changes nothing of both.
LEMMA Taken ==
  ASSUME NEW v, NEW s \in Seq(v), NEW t \in Seq(v), t # <<>>
  PROVE  /\ Append(s, Head(t)) \in Seq(v) /\ Tail(t) \in Seq(v)
         /\ Append(s, Head(t)) \o Tail(t) = s \o t
         /\ Len(Append(s, Head(t))) + Len(Tail(t)) = Len(s) + Len(t)
<1>1. PICK m \in Nat : m = Len(s)
  OBVIOUS
<1>2. PICK n \in Nat : n = Len(t) /\ n > 0
  OBVIOUS
<1>3. PICK a \in Seq(v) : a = Append(s, Head(t)) /\ Len(a) = m + 1 /\ a[m + 1] = t[1] /\ \A i \in 1..m : a[i] = s[i]
  <2>1. PICK h \in v : h = Head(t) /\ h = t[1]
    BY Rest
  <2>2. PICK a : a = Append(s, h)
    OBVIOUS
  <2>3. /\ a \in Seq(v) /\ Len(a) = Len(s) + 1
        /\ a[Len(s) + 1] = h /\ \A i \in 1..Len(s) : a[i] = s[i]
    BY <2>2, Added
  <2> QED BY ONLY <1>1, <2>1, <2>2, <2>3
<1>4. PICK r \in Seq(v) : r = Tail(t) /\ Len(r) = n - 1 /\ \A i \in 1..n - 1 : r[i] = t[i + 1]
  <2>1. PICK r : r = Tail(t)
    OBVIOUS
  <2>2. r \in Seq(v) /\ Len(r) = Len(t) - 1 /\ \A i \in 1..Len(t) - 1 : r[i] = t[i + 1]
    BY <2>1, Rest
  <2> QED BY ONLY <1>2, <2>1, <2>2
<1>5. PICK x \in Seq(v) : x = a \o r /\ Len(x) = m + n
                          /\ \A i \in 1..m + n : x[i] = IF i <= m + 1 THEN a[i] ELSE r[i - (m + 1)]
  <2>1. PICK x : x = a \o r
    OBVIOUS
  <2>2. /\ x \in Seq(v) /\ Len(x) = Len(a) + Len(r)
        /\ \A i \in 1..Len(a) + Len(r) : x[i] = IF i <= Len(a) THEN a[i] ELSE r[i - Len(a)]
    BY <2>1, Joined
  <2>3. /\ Len(x) = (m + 1) + (n - 1)
        /\ \A i \in 1..(m + 1) + (n - 1) : x[i] = IF i <= m + 1 THEN a[i] ELSE r[i - (m + 1)]
    BY ONLY <1>3, <1>4, <2>2
  <2>4. (m + 1) + (n - 1) = m + n
    OBVIOUS
  <2> QED BY ONLY <2>1, <2>2, <2>3, <2>4
<1>6. PICK y \in Seq(v) : y = s \o t /\ Len(y) = m + n
                          /\ \A i \in 1..m + n : y[i] = IF i <= m THEN s[i] ELSE t[i - m]
  <2>1. PICK y : y = s \o t
    OBVIOUS
  <2>2. /\ y \in Seq(v) /\ Len(y) = Len(s) + Len(t)
        /\ \A i \in 1..Len(s) + Len(t) : y[i] = IF i <= Len(s) THEN s[i] ELSE t[i - Len(s)]
    BY <2>1, Joined
  <2> QED BY ONLY <1>1, <1>2, <2>1, <2>2
<1>7. ASSUME NEW i \in 1..m + n PROVE x[i] = y[i]
  <2>1. CASE i <= m
    <3>1. i <= m + 1 /\ i \in 1..m
      BY <2>1
    <3> QED BY <1>3, <1>5, <1>6, <2>1, <3>1
  <2>2. CASE i = m + 1
    <3>1. i <= m + 1 /\ ~(i <= m) /\ i - m = 1
      BY <2>2
    <3> QED BY <1>3, <1>5, <1>6, <2>2, <3>1
  <2>3. CASE i > m + 1
    <3>1. ~(i <= m + 1) /\ ~(i <= m) /\ i - (m + 1) \in 1..n - 1 /\ (i - (m + 1)) + 1 = i - m
      BY <2>3
    <3> QED BY <1>4, <1>5, <1>6, <3>1
  <2> QED BY <2>1, <2>2, <2>3
<1>8. x = y
  BY <1>5, <1>6, <1>7, SameSequence
<1>9. (m + 1) + (n - 1) = m + n
  OBVIOUS
<1> QED BY ONLY <1>1, <1>2, <1>3, <1>4, <1>5, <1>6, <1>8, <1>9

ObjectBounds == MaxFile \in Nat /\ BufSize \in Nat \ {0}

Streams == [state : {"none", "open", "bad", "ended", "broken", "eof"}, pos : Nat, area : Seq(Byte),
            back : Seq(Byte), done : Seq(Byte), base : Seq(Byte)]

ObjectInv ==
  /\ file \in Seq(Byte) /\ failed \in BOOLEAN /\ out \in Streams /\ in \in Streams
  /\ out.pos <= Len(file)
  /\ out.state \in {"open", "ended"} => out.pos + Len(out.area) = Len(out.done)
  /\ in.state # "none" => out.state \in {"none", "ended"}
  /\ in.state = "none" => in.done = <<>> /\ in.area = <<>>
  /\ in.state # "bad" => in.pos = Len(in.done) + Len(in.area)
  /\ O!StreamsFaithful

\* An action of the olostream leaves no ilostream behind it, so that the object may change.
LEMMA OutOnly ==
  ASSUME ObjectInv, in' = in, in.state = "none" \/ file' = file, file' \in Seq(Byte), failed' \in BOOLEAN,
         failed => failed', in.state = "none" \/ out'.state \in {"none", "ended"},
         out' \in Streams, out'.pos <= Len(file'),
         out'.state \in {"open", "ended"} =>
           /\ out'.pos + Len(out'.area) = Len(out'.done)
           /\ O!WriteAt(out'.base, 0, out'.done) = O!WriteAt(file', out'.pos, out'.area),
         out'.state = "ended" => out'.area = <<>>
  PROVE  ObjectInv'
<1>1. PICK f \in Seq(Byte) : f = file'
  OBVIOUS
<1>2. O!IsPrefix(in.done, f) /\ (in.state # "bad" => O!IsPrefix(in.done \o in.area, f))
  <2>1. CASE in.state = "none"
    <3>1. /\ in.done = <<>> /\ in.done \o in.area = <<>>
          /\ <<>> \in Seq(Byte) /\ Len(<<>>) = 0 /\ 1..0 = {} /\ Len(f) >= 0
      BY <2>1 DEF ObjectInv
    <3>2. O!IsPrefix(<<>>, f)
      BY <3>1, FilePrefixOf
    <3> QED BY <3>1, <3>2
  <2>2. CASE file' = file
    BY <1>1, <2>2 DEF ObjectInv, O!StreamsFaithful
  <2> QED BY <2>1, <2>2
<1>3. (O!IsPrefix(in.done, file) /\ (in.state # "bad" => O!IsPrefix(in.done \o in.area, file)))'
  BY <1>1, <1>2 DEF O!IsPrefix
<1>4. (O!WriteAt(out.base, 0, out.done) = O!WriteAt(file, out.pos, out.area))'
        <=> O!WriteAt(out'.base, 0, out'.done) = O!WriteAt(file', out'.pos, out'.area)
  BY DEF O!WriteAt
<1>5. in.state = "eof" /\ ~failed' => in.done = file'
  BY DEF ObjectInv, O!StreamsFaithful
<1>6. O!StreamsFaithful'
  BY <1>3, <1>4, <1>5 DEF O!StreamsFaithful
<1> QED BY <1>6 DEF ObjectInv

\* What Writes makes of the object, and of the stream's account of it.
LEMMA WritesOut ==
  ASSUME ObjectInv, NEW wrote \in 0..Len(out.area), O!Writes(wrote), NEW o, o = O!WriteOut(out, wrote)
  PROVE  /\ o \in Streams /\ file' \in Seq(Byte) /\ failed' \in BOOLEAN /\ (failed => failed')
         /\ o.pos <= Len(file')
         /\ wrote = Len(out.area) =>
              /\ o.area = <<>> /\ o.pos = out.pos + Len(out.area) /\ o.state = out.state
              /\ file' = O!WriteAt(file, out.pos, out.area)
         /\ wrote # Len(out.area) => o.state = "bad"
         /\ o.done = out.done /\ o.base = out.base
<1>1. /\ out \in Streams /\ file \in Seq(Byte) /\ out.pos <= Len(file) /\ failed \in BOOLEAN
      /\ out.pos \in Nat /\ out.area \in Seq(Byte)
  BY DEF ObjectInv, Streams
<1>2. PICK n \in Nat : n = Len(out.area)
  BY <1>1
<1>3. PICK d \in Seq(Byte) : d = SubSeq(out.area, 1, wrote) /\ Len(d) = wrote /\ (wrote = n => d = out.area)
  <2>1. SubSeq(out.area, 1, wrote) \in Seq(Byte) /\ Len(SubSeq(out.area, 1, wrote)) = wrote
    BY <1>1
  <2>2. SubSeq(out.area, 1, Len(out.area)) = out.area
    BY <1>1
  <2> QED BY <1>2, <2>1, <2>2
<1>4. PICK p \in Nat : p = out.pos
  BY <1>1
<1>5. file' = O!WriteAt(file, p, d) /\ failed' = (failed \/ wrote < Len(out.area))
  BY <1>3, <1>4 DEF O!Writes
<1>6. PICK f : f = O!WriteAt(file, p, d)
  OBVIOUS
<1>7. f \in Seq(Byte) /\ Len(f) = IF p + Len(d) > Len(file) THEN p + Len(d) ELSE Len(file)
  BY <1>1, <1>4, <1>6, WriteIs
<1>8. p + wrote <= Len(f)
  <2>1. PICK m \in Nat : m = Len(file)
    BY <1>1
  <2>2. Len(f) = IF p + wrote > m THEN p + wrote ELSE m
    BY ONLY <1>3, <1>7, <2>1
  <2>3. wrote \in Nat
    BY <1>1
  <2> QED BY ONLY <2>2, <2>3
<1>9. wrote \in Nat /\ p + wrote \in Nat /\ <<>> \in Seq(Byte)
  BY <1>1
<1>10. o = [out EXCEPT !.pos = p + wrote, !.area = IF wrote = n THEN <<>> ELSE @,
                       !.state = IF wrote = n THEN @ ELSE "bad"]
  BY <1>1, <1>2, <1>4 DEF O!WriteOut, Streams
<1>11. /\ o \in Streams /\ o.pos = p + wrote /\ o.area = (IF wrote = n THEN <<>> ELSE out.area)
       /\ o.state = (IF wrote = n THEN out.state ELSE "bad") /\ o.done = out.done /\ o.base = out.base
  BY <1>1, <1>9, <1>10 DEF Streams
<1>12. failed' \in BOOLEAN /\ (failed => failed')
  BY <1>5
<1> QED BY <1>2, <1>3, <1>4, <1>5, <1>6, <1>7, <1>8, <1>11, <1>12

\* The invariant of streams holds where none is open.
LEMMA ObjectInit == ObjectBounds /\ O!Init => ObjectInv
<1> SUFFICES ASSUME ObjectBounds, O!Init PROVE ObjectInv
  OBVIOUS
<1>1. file \in Seq(Byte)
  <2>1. PICK k \in 0..MaxFile : file \in [1..k -> Byte]
    BY DEF O!Init, O!BoundedSeq, O!SeqOf
  <2>2. k \in Nat
    BY <2>1 DEF ObjectBounds
  <2> QED BY <2>1, <2>2
<1>2. /\ O!NoStream \in Streams /\ O!NoStream.state = "none" /\ O!NoStream.pos = 0
      /\ O!NoStream.area = <<>> /\ O!NoStream.done = <<>>
  BY DEF O!NoStream, Streams
<1>3. failed = FALSE /\ out = O!NoStream /\ in = O!NoStream
  BY DEF O!Init
<1>4. O!IsPrefix(<<>>, file) /\ O!IsPrefix(<<>> \o <<>>, file)
  <2>1. <<>> \o <<>> = <<>> /\ <<>> \in Seq(Byte) /\ Len(<<>>) = 0 /\ 1..0 = {} /\ Len(file) >= 0
    BY <1>1
  <2>2. O!IsPrefix(<<>>, file)
    BY <1>1, <2>1, FilePrefixOf
  <2> QED BY <2>1, <2>2
<1>5. O!StreamsFaithful
  BY <1>2, <1>3, <1>4 DEF O!StreamsFaithful
<1>6. Len(file) \in Nat /\ 0 <= Len(file) /\ Len(<<>>) = 0
  BY <1>1
<1>7. in.pos = Len(in.done) + Len(in.area)
  <2>1. in.pos = 0 /\ Len(in.done) = 0 /\ Len(in.area) = 0
    BY <1>2, <1>3, <1>6
  <2> QED BY ONLY <2>1
<1> QED BY <1>1, <1>2, <1>3, <1>5, <1>6, <1>7 DEF ObjectInv

\* Opening a stream.
LEMMA Opened ==
  ASSUME file \in Seq(Byte), NEW s, s = O!Stream("open")
  PROVE  /\ s \in Streams /\ s.state = "open" /\ s.pos = 0 /\ s.area = <<>> /\ s.done = <<>> /\ s.base = file
<1>1. <<>> \in Seq(Byte)
  OBVIOUS
<1> QED BY <1>1 DEF O!Stream, Streams

\* A stream that is opened has empty buffers and begins in front.
LEMMA ObjectOpens ==
  ASSUME ObjectInv, O!OpenOut \/ O!OpenIn
  PROVE  ObjectInv'
<1>1. file \in Seq(Byte) /\ Len(file) >= 0 /\ Len(<<>>) = 0 /\ failed \in BOOLEAN
  BY DEF ObjectInv
<1>2. PICK s : s = O!Stream("open")
  OBVIOUS
<1>3. /\ s \in Streams /\ s.state = "open" /\ s.pos = 0 /\ s.area = <<>> /\ s.done = <<>> /\ s.base = file
  BY <1>1, <1>2, Opened
<1>4. CASE O!OpenOut
  <2>1. out' = s /\ file' = file /\ failed' = failed /\ in' = in /\ in.state = "none"
    BY <1>2, <1>4 DEF O!OpenOut
  <2> QED BY <1>1, <1>3, <2>1, OutOnly
<1>5. CASE O!OpenIn
  <2>1. in' = s /\ file' = file /\ failed' = failed /\ out' = out /\ out.state \in {"none", "ended"}
    BY <1>2, <1>5 DEF O!OpenIn
  <2>2. O!IsPrefix(<<>>, file) /\ O!IsPrefix(<<>> \o <<>>, file)
    <3>1. <<>> \o <<>> = <<>> /\ <<>> \in Seq(Byte) /\ Len(<<>>) = 0 /\ 1..0 = {}
      OBVIOUS
    <3>2. O!IsPrefix(<<>>, file)
      BY <1>1, <3>1, FilePrefixOf
    <3> QED BY <3>1, <3>2
  <2>3. (O!IsPrefix(in.done, file) /\ O!IsPrefix(in.done \o in.area, file))'
    BY <1>3, <2>1, <2>2 DEF O!IsPrefix
  <2>4. O!StreamsFaithful'
    BY <1>3, <2>1, <2>3 DEF ObjectInv, O!StreamsFaithful, O!WriteAt
  <2>5. s.pos = Len(s.done) + Len(s.area)
    BY <1>1, <1>3
  <2>6. /\ file' \in Seq(Byte) /\ failed' \in BOOLEAN /\ out' \in Streams /\ out'.pos <= Len(file')
        /\ out'.state \in {"open", "ended"} => out'.pos + Len(out'.area) = Len(out'.done)
    BY <2>1 DEF ObjectInv
  <2>7. /\ in' \in Streams /\ in'.state = "open" /\ out'.state \in {"none", "ended"}
        /\ in'.pos = Len(in'.done) + Len(in'.area)
    BY <1>3, <2>1, <2>5
  <2> QED BY <2>4, <2>6, <2>7 DEF ObjectInv
<1> QED BY <1>4, <1>5

\* A character put into a full buffer writes the buffer, or fails.
LEMMA ObjectPut ==
  ASSUME ObjectBounds, ObjectInv, NEW x \in Byte, O!Put(x)
  PROVE  ObjectInv'
<1>1. /\ out \in Streams /\ file \in Seq(Byte) /\ failed \in BOOLEAN /\ out.state = "open" /\ in' = in
      /\ in.state = "none" /\ out.pos <= Len(file)
      /\ out.pos + Len(out.area) = Len(out.done)
      /\ O!WriteAt(out.base, 0, out.done) = O!WriteAt(file, out.pos, out.area)
      /\ 0 <= Len(out.base)
  <2>1. out.state = "open" /\ in' = in
    BY DEF O!Put
  <2>2. out \in Streams /\ in.state = "none"
    BY <2>1 DEF ObjectInv
  <2>3. Len(out.base) \in Nat
    BY <2>2 DEF Streams
  <2> QED BY <2>1, <2>2, <2>3 DEF ObjectInv, O!StreamsFaithful
<1>2. /\ out.pos \in Nat /\ out.area \in Seq(Byte) /\ out.done \in Seq(Byte) /\ out.base \in Seq(Byte)
  BY <1>1 DEF Streams
<1>3. PICK p \in Nat, area \in Seq(Byte), done \in Seq(Byte), base \in Seq(Byte) :
        p = out.pos /\ area = out.area /\ done = out.done /\ base = out.base
  BY <1>2
<1>4. PICK done2 : done2 = Append(done, x)
  OBVIOUS
<1>5. done2 \in Seq(Byte) /\ Len(done2) = Len(done) + 1
  BY <1>4
<1>6. PICK whole : whole = O!WriteAt(file, p, area)
  OBVIOUS
<1>7. O!WriteAt(base, 0, done) = whole /\ p + Len(area) = Len(done) /\ 0 + Len(done) = Len(done)
  BY <1>1, <1>3, <1>6
<1>8. O!WriteAt(base, 0, done2) = O!WriteAt(whole, Len(done), <<x>>)
  <2>1. O!WriteAt(base, 0, Append(done, x)) = O!WriteAt(O!WriteAt(base, 0, done), 0 + Len(done), <<x>>)
    BY <1>1, <1>3, WriteOn
  <2> QED BY <1>4, <1>7, <2>1
<1>9. CASE /\ Len(out.area) < BufSize
           /\ out' = [out EXCEPT !.area = Append(@, x), !.done = Append(@, x)]
           /\ UNCHANGED <<file, failed>>
  <2>1. PICK area2 : area2 = Append(area, x)
    OBVIOUS
  <2>2. area2 \in Seq(Byte) /\ Len(area2) = Len(area) + 1
    BY <2>1
  <2>3. O!WriteAt(file, p, area2) = O!WriteAt(whole, Len(done), <<x>>)
    <3>1. O!WriteAt(file, p, Append(area, x)) = O!WriteAt(O!WriteAt(file, p, area), p + Len(area), <<x>>)
      BY <1>1, <1>3, WriteOn
    <3> QED BY <1>6, <1>7, <2>1, <3>1
  <2>4. PICK o : o = [out EXCEPT !.area = area2, !.done = done2]
    OBVIOUS
  <2>5. out' = o
    BY <1>1, <1>3, <1>4, <1>9, <2>1, <2>4 DEF Streams
  <2>6. /\ o \in Streams /\ o.state = "open" /\ o.pos = p /\ o.area = area2 /\ o.done = done2 /\ o.base = base
    BY <1>1, <1>3, <1>5, <2>2, <2>4 DEF Streams
  <2>7. p + Len(area2) = Len(done2)
    <3>1. PICK n \in Nat : n = Len(area)
      OBVIOUS
    <3>2. PICK m \in Nat : m = Len(done)
      OBVIOUS
    <3>3. p + n = m
      BY <1>7, <3>1, <3>2
    <3>4. p + (n + 1) = m + 1
      BY <3>3
    <3> QED BY ONLY <1>5, <2>2, <3>1, <3>2, <3>4
  <2>8. /\ out' \in Streams /\ out'.state = "open" /\ out'.pos + Len(out'.area) = Len(out'.done)
        /\ out'.pos <= Len(file') /\ file' \in Seq(Byte) /\ failed' \in BOOLEAN /\ (failed => failed')
    BY <1>1, <1>3, <1>9, <2>5, <2>6, <2>7
  <2>9. O!WriteAt(out'.base, 0, out'.done) = O!WriteAt(file', out'.pos, out'.area)
    BY <1>3, <1>8, <1>9, <2>3, <2>5, <2>6
  <2> QED BY <1>1, <2>8, <2>9, OutOnly
<1>10. ASSUME Len(out.area) = BufSize, NEW wrote \in 0..BufSize, O!Writes(wrote),
              out' = IF wrote < BufSize THEN O!WriteOut(out, wrote)
                     ELSE [O!WriteOut(out, wrote) EXCEPT !.area = <<x>>, !.done = Append(@, x)]
       PROVE  ObjectInv'
  <2>1. PICK o : o = O!WriteOut(out, wrote)
    OBVIOUS
  <2>2. /\ o \in Streams /\ file' \in Seq(Byte) /\ failed' \in BOOLEAN /\ (failed => failed')
        /\ o.pos <= Len(file')
        /\ wrote = Len(out.area) =>
             /\ o.area = <<>> /\ o.pos = out.pos + Len(out.area) /\ o.state = out.state
             /\ file' = O!WriteAt(file, out.pos, out.area)
        /\ wrote # Len(out.area) => o.state = "bad"
        /\ o.done = out.done /\ o.base = out.base
    BY <1>10, <2>1, WritesOut
  <2>3. CASE wrote < BufSize
    <3>1. out' = o /\ o.state = "bad"
      BY <1>10, <2>1, <2>2, <2>3 DEF ObjectBounds
    <3> QED BY <1>1, <2>2, <3>1, OutOnly
  <2>4. CASE ~(wrote < BufSize)
    <3>1. wrote = Len(out.area)
      BY <1>10, <2>4 DEF ObjectBounds
    <3>2. PICK one : one = <<x>>
      OBVIOUS
    <3>3. one \in Seq(Byte) /\ Len(one) = 1
      BY <3>2
    <3>4. PICK o2 : o2 = [o EXCEPT !.area = one, !.done = done2]
      OBVIOUS
    <3>5. out' = o2
      BY <1>3, <1>4, <1>10, <2>1, <2>2, <2>4, <3>2, <3>4 DEF Streams
    <3>6. /\ o2 \in Streams /\ o2.state = "open" /\ o2.pos = o.pos /\ o2.area = one /\ o2.done = done2
          /\ o2.base = base
      BY <1>1, <1>3, <1>5, <2>2, <3>1, <3>3, <3>4 DEF Streams
    <3>7. file' = whole /\ o.pos = Len(done)
      BY <1>3, <1>6, <1>7, <2>2, <3>1
    <3>8. o2.pos + Len(o2.area) = Len(o2.done)
      BY <1>5, <3>3, <3>6, <3>7
    <3>9. O!WriteAt(o2.base, 0, o2.done) = O!WriteAt(file', o2.pos, o2.area)
      BY <1>8, <3>2, <3>6, <3>7
    <3> QED BY <1>1, <2>2, <3>5, <3>6, <3>8, <3>9, OutOnly
  <2> QED BY <2>3, <2>4
<1> QED BY <1>9, <1>10 DEF O!Put

\* A stream whose buffer went out whole has all of it in the object.
LEMMA ObjectEmptied ==
  ASSUME ObjectInv, out.state \in {"open", "bad"}, in' = in,
         NEW wrote \in 0..Len(out.area), O!Writes(wrote), NEW state, NEW o, o = O!WriteOut(out, wrote),
         state \in {"bad", "broken"} \/ (o.state = "open" /\ state \in {"open", "ended"}),
         out' = [o EXCEPT !.state = state]
  PROVE  ObjectInv'
<1>1. /\ o \in Streams /\ file' \in Seq(Byte) /\ failed' \in BOOLEAN /\ (failed => failed')
      /\ o.pos <= Len(file')
      /\ wrote = Len(out.area) =>
           /\ o.area = <<>> /\ o.pos = out.pos + Len(out.area) /\ o.state = out.state
           /\ file' = O!WriteAt(file, out.pos, out.area)
      /\ wrote # Len(out.area) => o.state = "bad"
      /\ o.done = out.done /\ o.base = out.base
  BY WritesOut
<1>2. PICK s : s = out'
  OBVIOUS
<1>3. /\ s \in Streams /\ s.state = state /\ s.pos = o.pos /\ s.area = o.area /\ s.done = o.done
      /\ s.base = o.base
  BY <1>1, <1>2 DEF Streams
<1>4. in.state = "none"
  BY DEF ObjectInv
<1>5. CASE state \in {"bad", "broken"}
  BY <1>1, <1>2, <1>3, <1>4, <1>5, OutOnly
<1>6. CASE o.state = "open" /\ state \in {"open", "ended"}
  <2>1. /\ s.area = <<>> /\ s.pos = out.pos + Len(out.area) /\ out.state = "open"
        /\ file' = O!WriteAt(file, out.pos, out.area)
    BY <1>1, <1>3, <1>6
  <2>2. /\ out.pos + Len(out.area) = Len(out.done) /\ Len(out.done) \in Nat
        /\ O!WriteAt(out.base, 0, out.done) = O!WriteAt(file, out.pos, out.area)
    BY <2>1 DEF ObjectInv, O!StreamsFaithful, Streams
  <2>3. PICK f \in Seq(Byte) : f = file'
    BY <1>1
  <2>4. O!WriteAt(f, s.pos, <<>>) = f
    <3>1. PICK none \in Seq(Byte) : none = <<>> /\ Len(none) = 0
      <4>1. <<>> \in Seq(Byte) /\ Len(<<>>) = 0
        OBVIOUS
      <4> QED BY <4>1
    <3>2. PICK p \in Nat : p = s.pos /\ p <= Len(f)
      BY <1>1, <1>3, <2>3 DEF Streams
    <3>3. PICK w : w = O!WriteAt(f, p, none)
      OBVIOUS
    <3>4. /\ w \in Seq(Byte) /\ Len(w) = (IF p + Len(none) > Len(f) THEN p + Len(none) ELSE Len(f))
          /\ \A i \in 1..Len(w) :
               w[i] = IF i <= p THEN f[i] ELSE IF i <= p + Len(none) THEN none[i - p] ELSE f[i]
      BY <3>2, <3>3, WriteIs
    <3>5. PICK m \in Nat : m = Len(f)
      OBVIOUS
    <3>6. Len(w) = m
      BY ONLY <3>1, <3>2, <3>4, <3>5
    <3>7. \A i \in 1..Len(w) : w[i] = f[i]
      BY ONLY <3>1, <3>4, <3>6
    <3>8. w = f
      BY <3>4, <3>5, <3>6, <3>7, SameSequence
    <3> QED BY <3>1, <3>2, <3>3, <3>8
  <2>5. Len(<<>>) = 0 /\ s.pos + 0 = s.pos
    BY <1>3 DEF Streams
  <2>6. s.pos + Len(s.area) = Len(s.done)
    BY <1>1, <1>3, <2>1, <2>2, <2>5
  <2>7. O!WriteAt(s.base, 0, s.done) = O!WriteAt(file', s.pos, s.area)
    BY <1>1, <1>3, <2>1, <2>2, <2>3, <2>4
  <2> QED BY <1>1, <1>2, <1>3, <1>4, <2>1, <2>6, <2>7, OutOnly
<1> QED BY <1>5, <1>6

\* A character is taken from an empty buffer after the next piece is read.
LEMMA ObjectGet ==
  ASSUME ObjectBounds, ObjectInv, O!Get
  PROVE  ObjectInv'
<1>1. /\ in \in Streams /\ file \in Seq(Byte) /\ failed \in BOOLEAN /\ in.state = "open"
      /\ out.state \in {"none", "ended"} /\ file' = file /\ out' = out
      /\ in.pos = Len(in.done) + Len(in.area) /\ O!IsPrefix(in.done \o in.area, file)
  BY DEF ObjectInv, O!StreamsFaithful, O!Get
<1>2. PICK p \in Nat, area \in Seq(Byte), done \in Seq(Byte) : p = in.pos /\ area = in.area /\ done = in.done
  BY <1>1 DEF Streams
<1>3. ASSUME NEW s \in Streams, in' = s, failed' \in BOOLEAN, s.state \in {"open", "eof"},
             s.pos = Len(s.done) + Len(s.area), O!IsPrefix(s.done \o s.area, file),
             s.state = "eof" /\ ~failed' => s.done = file
      PROVE  ObjectInv'
  <2>0. O!IsPrefix(s.done, file)
    <3>1. s.done \in Seq(Byte) /\ s.area \in Seq(Byte)
      BY <1>3 DEF Streams
    <3> QED BY <1>1, <1>3, <3>1, ShorterPrefix
  <2>1. (O!IsPrefix(in.done, file) /\ O!IsPrefix(in.done \o in.area, file))'
    BY <1>1, <1>3, <2>0 DEF O!IsPrefix
  <2>2. O!StreamsFaithful'
    BY <1>1, <1>3, <2>1 DEF ObjectInv, O!StreamsFaithful, O!WriteAt
  <2>3. /\ file' \in Seq(Byte) /\ failed' \in BOOLEAN /\ out' \in Streams /\ out'.pos <= Len(file')
        /\ out'.state \in {"open", "ended"} => out'.pos + Len(out'.area) = Len(out'.done)
    BY <1>1, <1>3 DEF ObjectInv
  <2> QED BY <1>1, <1>3, <2>2, <2>3 DEF ObjectInv
<1>4. CASE /\ in.area # <<>>
           /\ in' = [in EXCEPT !.area = Tail(@), !.back = Append(@, Head(in.area)),
                               !.done = Append(@, Head(in.area))]
           /\ UNCHANGED failed
  <2>1. /\ Append(done, Head(area)) \in Seq(Byte) /\ Tail(area) \in Seq(Byte)
        /\ Append(done, Head(area)) \o Tail(area) = done \o area
        /\ Len(Append(done, Head(area))) + Len(Tail(area)) = Len(done) + Len(area)
    <3>1. area # <<>> /\ done \in Seq(Byte) /\ area \in Seq(Byte)
      BY <1>2, <1>4
    <3> QED BY ONLY <3>1, Taken
  <2>2. PICK d \in Seq(Byte), a \in Seq(Byte), b \in Seq(Byte) :
          d = Append(done, Head(area)) /\ a = Tail(area) /\ b = Append(in.back, Head(area))
    <3>1. Head(area) \in Byte /\ in.back \in Seq(Byte)
      BY <1>1, <1>2, <1>4, Rest DEF Streams
    <3>2. Append(in.back, Head(area)) \in Seq(Byte)
      BY <3>1, Added
    <3> QED BY <2>1, <3>2
  <2>3. PICK s : s = [in EXCEPT !.area = a, !.back = b, !.done = d]
    OBVIOUS
  <2>4. in' = s
    BY <1>1, <1>2, <1>4, <2>2, <2>3 DEF Streams
  <2>5. /\ s \in Streams /\ s.state = "open" /\ s.pos = p /\ s.area = a /\ s.done = d
    BY <1>1, <1>2, <2>2, <2>3 DEF Streams
  <2>6. s.pos = Len(s.done) + Len(s.area) /\ O!IsPrefix(s.done \o s.area, file)
    BY <1>1, <1>2, <2>1, <2>2, <2>5
  <2>7. failed' \in BOOLEAN
    BY <1>1, <1>4
  <2> QED BY <1>3, <2>4, <2>5, <2>6, <2>7
<1>5. CASE in.area = <<>>
  <2>0. <<>> \in Seq(Byte)
    OBVIOUS
  <2>1. p = Len(done) /\ O!IsPrefix(done, file) /\ area = <<>>
    <3>1. done \o area = done /\ Len(area) = 0 /\ Len(done) \in Nat
      BY <1>2, <1>5
    <3>2. PICK m \in Nat : m = Len(done)
      BY <3>1
    <3>3. p = m + Len(area)
      BY <1>1, <1>2, <3>2
    <3> QED BY <1>1, <1>2, <1>5, <3>1, <3>2, <3>3
  <2>2. CASE ~failed /\ failed' = failed
             /\ LET brought == O!ReadAt(file, in.pos, BufSize) IN
                in' = IF brought = <<>> THEN [in EXCEPT !.state = "eof", !.back = <<>>]
                      ELSE [in EXCEPT !.pos = @ + Len(brought), !.area = Tail(brought),
                                      !.back = <<Head(brought)>>, !.done = Append(@, Head(brought))]
    <3>1. BufSize \in Nat /\ BufSize > 0
      BY DEF ObjectBounds
    <3>2. PICK brought : brought = O!ReadAt(file, p, BufSize)
      OBVIOUS
    <3>3. /\ brought \in Seq(Byte)
          /\ Len(brought) = (IF p >= Len(file) THEN 0 ELSE IF p + BufSize <= Len(file) THEN BufSize ELSE Len(file) - p)
      BY <1>1, <3>1, <3>2, FileReadAtIs
    <3>4. O!IsPrefix(done \o brought, file)
      BY <1>1, <2>1, <3>1, <3>2, FilePrefixGrows
    <3>5. CASE brought = <<>>
      <4>1. PICK s : s = [in EXCEPT !.state = "eof", !.back = <<>>]
        OBVIOUS
      <4>2. in' = s
        BY <1>2, <2>2, <3>2, <3>5, <4>1
      <4>3. s \in Streams /\ s.state = "eof" /\ s.pos = p /\ s.area = area /\ s.done = done
        BY <1>1, <1>2, <2>0, <4>1 DEF Streams
      <4>4. s.pos = Len(s.done) + Len(s.area) /\ O!IsPrefix(s.done \o s.area, file)
        BY <1>1, <1>2, <4>3
      <4>5. done = file
        <5>1. PICK m \in Nat : m = Len(file)
          BY <1>1
        <5>2. p >= m
          <6>1. Len(brought) = 0
            BY <3>5
          <6>2. 0 = IF p >= m THEN 0 ELSE IF p + BufSize <= m THEN BufSize ELSE m - p
            BY ONLY <3>3, <5>1, <6>1
          <6> QED BY <3>1, <6>2
        <5>3. Len(done) <= Len(file) /\ \A i \in 1..Len(done) : done[i] = file[i]
          BY <1>1, <2>1, FilePrefixOf
        <5>4. Len(done) = Len(file)
          BY ONLY <2>1, <5>1, <5>2, <5>3
        <5> QED BY <1>1, <5>3, <5>4, SameSequence
      <4>6. failed' \in BOOLEAN
        BY <1>1, <2>2
      <4> QED BY <1>3, <4>2, <4>3, <4>4, <4>5, <4>6
    <3>6. CASE brought # <<>>
      <4>1. /\ Append(done, Head(brought)) \in Seq(Byte) /\ Tail(brought) \in Seq(Byte)
            /\ Append(done, Head(brought)) \o Tail(brought) = done \o brought
            /\ Len(Append(done, Head(brought))) + Len(Tail(brought)) = Len(done) + Len(brought)
        <5>1. brought \in Seq(Byte) /\ brought # <<>> /\ done \in Seq(Byte)
          BY <3>3, <3>6
        <5> QED BY ONLY <5>1, Taken
      <4>2. PICK d \in Seq(Byte), a \in Seq(Byte), b \in Seq(Byte) :
              d = Append(done, Head(brought)) /\ a = Tail(brought) /\ b = <<Head(brought)>>
        <5>1. Head(brought) \in Byte
          BY <3>3, <3>6, Rest
        <5> QED BY <4>1, <5>1, Single
      <4>3. PICK q \in Nat : q = p + Len(brought)
        <5>1. Len(brought) \in Nat
          BY <3>3
        <5>2. p + Len(brought) \in Nat
          BY <5>1
        <5> QED BY <5>2
      <4>4. PICK s : s = [in EXCEPT !.pos = q, !.area = a, !.back = b, !.done = d]
        OBVIOUS
      <4>5. in' = s
        BY <1>1, <1>2, <2>2, <3>2, <3>6, <4>2, <4>3, <4>4 DEF Streams
      <4>6. s \in Streams /\ s.state = "open" /\ s.pos = q /\ s.area = a /\ s.done = d
        BY <1>1, <4>2, <4>3, <4>4 DEF Streams
      <4>7. s.pos = Len(s.done) + Len(s.area) /\ O!IsPrefix(s.done \o s.area, file)
        BY <2>1, <3>4, <4>1, <4>2, <4>3, <4>6
      <4>8. failed' \in BOOLEAN
        BY <1>1, <2>2
      <4> QED BY <1>3, <4>5, <4>6, <4>7, <4>8
    <3> QED BY <3>5, <3>6
  <2>3. CASE in' = [in EXCEPT !.state = "eof", !.back = <<>>] /\ failed' = TRUE
    <3>1. PICK s : s = [in EXCEPT !.state = "eof", !.back = <<>>]
      OBVIOUS
    <3>2. s \in Streams /\ s.state = "eof" /\ s.pos = p /\ s.area = area /\ s.done = done
      BY <1>1, <1>2, <2>0, <3>1 DEF Streams
    <3>3. s.pos = Len(s.done) + Len(s.area) /\ O!IsPrefix(s.done \o s.area, file)
      BY <1>1, <1>2, <3>2
    <3> QED BY <1>3, <2>3, <3>1, <3>2, <3>3
  <2> QED BY <1>5, <2>2, <2>3 DEF O!Get
<1> QED BY <1>4, <1>5 DEF O!Get

\* A stream that is synchronised while it is read is bad from then on.
LEMMA ObjectSyncIn ==
  ASSUME ObjectInv, O!SyncIn
  PROVE  ObjectInv'
<1>1. /\ in \in Streams /\ file' = file /\ failed' = failed /\ out' = out /\ in.state = "open"
      /\ in.back \o in.area \in Seq(Byte) /\ <<>> \in Seq(Byte)
      /\ in' = [in EXCEPT !.state = "bad", !.area = in.back \o @, !.back = <<>>]
  <2>1. in.back \in Seq(Byte) /\ in.area \in Seq(Byte)
    BY DEF ObjectInv, Streams
  <2> QED BY <2>1, Joined DEF ObjectInv, O!SyncIn
<1>2. PICK a \in Seq(Byte) : a = in.back \o in.area
  BY <1>1
<1>3. PICK s : s = [in EXCEPT !.state = "bad", !.area = a, !.back = <<>>]
  OBVIOUS
<1>4. s \in Streams /\ s.state = "bad" /\ s.done = in.done /\ in' = s
  BY <1>1, <1>2, <1>3 DEF Streams
<1>5. O!IsPrefix(in.done, file)'
  BY <1>1, <1>4 DEF ObjectInv, O!StreamsFaithful, O!IsPrefix
<1>6. O!StreamsFaithful'
  BY <1>1, <1>4, <1>5 DEF ObjectInv, O!StreamsFaithful, O!WriteAt
<1> QED BY <1>1, <1>4, <1>6 DEF ObjectInv

\* Every call of a stream keeps the invariant.
LEMMA ObjectNext == ObjectBounds /\ ObjectInv /\ [O!Next]_O!vars => ObjectInv'
<1> SUFFICES ASSUME ObjectBounds, ObjectInv, [O!Next]_O!vars PROVE ObjectInv'
  OBVIOUS
<1>1. CASE O!OpenOut \/ O!OpenIn
  BY <1>1, ObjectOpens
<1>2. ASSUME NEW x \in Byte, O!Put(x) PROVE ObjectInv'
  BY <1>2, ObjectPut
<1>3. CASE O!Flush
  <2>1. PICK wrote \in 0..Len(out.area) : O!Writes(wrote) /\ out' = O!WriteOut(out, wrote)
    BY <1>3 DEF O!Flush
  <2>2. PICK o : o = O!WriteOut(out, wrote)
    OBVIOUS
  <2>3. /\ o \in Streams /\ (wrote = Len(out.area) => o.state = out.state)
        /\ (wrote # Len(out.area) => o.state = "bad")
    BY <2>1, <2>2, WritesOut
  <2>4. out.state = "open" /\ in' = in
    BY <1>3 DEF O!Flush
  <2>5. PICK state : state = o.state
    OBVIOUS
  <2>6. [o EXCEPT !.state = state] = o
    BY <2>3, <2>5 DEF Streams
  <2> QED BY <2>1, <2>2, <2>3, <2>4, <2>5, <2>6, ObjectEmptied
<1>4. CASE O!EndOut
  <2>1. PICK wrote \in 0..Len(out.area) :
          /\ O!Writes(wrote)
          /\ out' = LET o == O!WriteOut(out, wrote) IN
                    [o EXCEPT !.state = IF o.state = "open" THEN "ended" ELSE "broken"]
    BY <1>4 DEF O!EndOut
  <2>2. PICK o : o = O!WriteOut(out, wrote)
    OBVIOUS
  <2>3. PICK state : state = IF o.state = "open" THEN "ended" ELSE "broken"
    OBVIOUS
  <2>4. out' = [o EXCEPT !.state = state]
    BY <2>1, <2>2, <2>3
  <2>5. out.state \in {"open", "bad"} /\ in' = in
    BY <1>4 DEF O!EndOut
  <2>6. state \in {"bad", "broken"} \/ (o.state = "open" /\ state \in {"open", "ended"})
    BY <2>3
  <2> QED BY <2>1, <2>2, <2>4, <2>5, <2>6, ObjectEmptied
<1>5. CASE O!Get
  BY <1>5, ObjectGet
<1>6. CASE O!SyncIn
  BY <1>6, ObjectSyncIn
<1>7. CASE UNCHANGED O!vars
  BY <1>7 DEF ObjectInv, O!vars, O!StreamsFaithful, O!WriteAt, O!IsPrefix
<1> QED BY <1>1, <1>2, <1>3, <1>4, <1>5, <1>6, <1>7 DEF O!Next
=============================================================================
