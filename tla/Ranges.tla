------------------------------- MODULE Ranges -------------------------------
(***************************************************************************)
(* pqxx::range: two bounds, each of which is inclusive, exclusive or not   *)
(* there.                                                                  *)
(***************************************************************************)
EXTENDS Integers, Sequences

CONSTANT Values    \* the values of the type the range is over

ASSUME ValuesAssumption == Values \subseteq Int /\ 0 \in Values

NoBound      == [kind |-> "none", value |-> 0]
Inclusive(v) == [kind |-> "inclusive", value |-> v]
Exclusive(v) == [kind |-> "exclusive", value |-> v]

Bound == {NoBound} \cup {Inclusive(v) : v \in Values} \cup {Exclusive(v) : v \in Values}

IsLimited(b)   == b.kind # "none"
IsInclusive(b) == b.kind = "inclusive"
IsExclusive(b) == b.kind = "exclusive"

ExtendsDownTo(b, x) ==
  /\ IsInclusive(b) => b.value <= x
  /\ IsExclusive(b) => b.value < x

ExtendsUpTo(b, x) ==
  /\ IsInclusive(b) => x <= b.value
  /\ IsExclusive(b) => x < b.value

RangeOf(lower, upper) == [lower |-> lower, upper |-> upper]

\* range::range, which throws otherwise.
Ordered(lower, upper) == IsLimited(lower) /\ IsLimited(upper) => lower.value <= upper.value

AnyRange == {r \in [lower : Bound, upper : Bound] : Ordered(r.lower, r.upper)}

\* range::range(), and what every empty range is read back as.
EmptyRange == RangeOf(Exclusive(0), Exclusive(0))

\* empty: clearly so.
Empty(r) ==
  /\ IsExclusive(r.lower) \/ IsExclusive(r.upper)
  /\ IsLimited(r.lower) /\ IsLimited(r.upper)
  /\ ~(r.lower.value < r.upper.value)

Equal(r, s) == r = s \/ (Empty(r) /\ Empty(s))

Contains(r, x) == ExtendsDownTo(r.lower, x) /\ ExtendsUpTo(r.upper, x)

\* The higher of two lower bounds, in operator&.
HigherBound(a, b) ==
  IF ~IsLimited(a) THEN b
  ELSE IF ~IsLimited(b) THEN a
  ELSE IF a.value < b.value THEN b
  ELSE IF b.value < a.value THEN a
  ELSE IF IsExclusive(a) THEN a ELSE b

\* Mutant: of two bounds at one value the first is taken.
LowerBoundFirst(a, b) ==
  IF ~IsLimited(a) THEN b
  ELSE IF ~IsLimited(b) THEN a
  ELSE IF b.value < a.value THEN b ELSE a

\* The lower of two upper bounds.
LowerBound(a, b) ==
  IF ~IsLimited(a) THEN b
  ELSE IF ~IsLimited(b) THEN a
  ELSE IF b.value < a.value THEN b
  ELSE IF a.value < b.value THEN a
  ELSE IF IsExclusive(a) THEN a ELSE b

\* operator&.
Intersection(r, s) ==
  LET lower == HigherBound(r.lower, s.lower)
      upper == LowerBound(r.upper, s.upper)
  IN  IF Ordered(lower, upper) THEN RangeOf(lower, upper) ELSE EmptyRange

\* contains, of a range.
Encompasses(r, s) == Equal(Intersection(r, s), s)

-----------------------------------------------------------------------------
(* The text of a range, by what stands in it: the word empty, or a bracket *)
(* on either side of the values.                                           *)

Bracket(mark, value) == [mark |-> mark, value |-> value]

\* string_traits<range>::into_buf; no bound has an empty text.
IntoBuf(r) ==
  LET side(b, closed, open) == Bracket(IF IsInclusive(b) THEN closed ELSE open,
                                       IF IsLimited(b) THEN <<b.value>> ELSE <<>>)
  IN  IF Empty(r) THEN <<>> ELSE <<side(r.lower, "[", "("), side(r.upper, "]", ")")>>

\* string_traits<range>::from_string: each bound is read as a field that may be
\* null, and its bracket says whether it is included.
FromString(text) ==
  LET bound(side, closed) == IF side.value = <<>> THEN NoBound
                             ELSE IF side.mark = closed THEN Inclusive(side.value[1])
                             ELSE Exclusive(side.value[1])
  IN  IF text = <<>> THEN EmptyRange
      ELSE RangeOf(bound(text[1], "["), bound(text[2], "]"))

-----------------------------------------------------------------------------
\* range.hxx:339-341 - the intersection of two ranges is a range, and describes
\* those values which are in both.
RangesMeet(r, s) ==
  /\ Intersection(r, s) \in AnyRange
  /\ \A x \in Values : Contains(Intersection(r, s), x) <=> Contains(r, x) /\ Contains(s, x)

\* range.hxx:318-326 - a range that encompasses another has all its values.
RangesHold(r, s) == Encompasses(r, s) => \A x \in Values : Contains(s, x) => Contains(r, x)

\* range.hxx:411-514 - the text of a range is read as an equal range.
RangeKept(r) == Equal(FromString(IntoBuf(r)), r)
=============================================================================
