------------------------------ MODULE Numbers ------------------------------
(***************************************************************************)
(* Integers, dates and binary data as libpqxx writes them into text and    *)
(* reads them back.  A text is a sequence of characters; a hexadecimal     *)
(* digit is the number it stands for.                                      *)
(***************************************************************************)
EXTENDS Integers, Sequences, SequencesExt

Digit    == 0..9
HexDigit == 0..15
Minus == 16
Space == 17
Slash == 18     \* the backslash
X     == 19     \* the letter x
BC    == 20     \* the suffix " BC", three characters long

\* What a conversion throws; a value v is returned as <<v>>, a date as three.
Error == <<>>

\* The integral types, by their width.
Signed(w)   == [bottom |-> -(2 ^ (w - 1)), top |-> 2 ^ (w - 1) - 1]
Unsigned(w) == [bottom |-> 0, top |-> 2 ^ w - 1]

-----------------------------------------------------------------------------
(* Integers.                                                               *)

\* nonneg_to_buf, which writes from the end.
NonnegToBuf(value) ==
  LET digits[n \in Nat] == (IF n < 10 THEN <<>> ELSE digits[n \div 10]) \o <<n % 10>>
  IN  digits[value]

\* Mutant: the lowest value is negated in its own type, where it stays itself.
ToBufWrapped(type, value) ==
  IF value >= 0 THEN NonnegToBuf(value)
  ELSE IF value > type.bottom THEN <<Minus>> \o NonnegToBuf(-value)
  ELSE <<Minus>> \o NonnegToBuf(type.top)

\* to_buf; the lowest value has no positive one and goes through the unsigned type.
ToBuf(type, value) ==
  IF value >= 0 THEN NonnegToBuf(value)
  ELSE IF value > type.bottom THEN <<Minus>> \o NonnegToBuf(-value)
  ELSE <<Minus>> \o NonnegToBuf(type.top + 1)

\* Division as in C++, towards zero.
Quotient(a, b) == IF a < 0 THEN -((-a) \div b) ELSE a \div b

\* safe_multiply_by_ten; then safe_add_digit, or with a minus safe_sub_digit.
AbsorbDigit(type, negative, n, d) ==
  IF \/ n > type.top \div 10
     \/ n < Quotient(type.bottom, 10)
     \/ ~negative /\ n * 10 > type.top - d
     \/ negative /\ n * 10 < type.bottom + d
  THEN Error
  ELSE IF negative THEN <<n * 10 - d>> ELSE <<n * 10 + d>>

\* from_string, of a text with no digit behind its end.
FromString(type, text) ==
  LET blank    == SelectInSeq(text, LAMBDA c : c # Space)
      negative == text[blank] = Minus
      digits   == SubSeq(text, IF negative THEN blank + 1 ELSE blank, Len(text))
  IN  IF \/ blank = 0
         \/ negative /\ type.bottom = 0
         \/ digits = <<>> \/ ~(ToSet(digits) \subseteq Digit)
      THEN Error
      ELSE FoldLeft(LAMBDA r, d : IF r = Error THEN r ELSE AbsorbDigit(type, negative, r[1], d),
                    <<0>>, digits)

-----------------------------------------------------------------------------
(* Dates.                                                                  *)

MinYear == -32767
MaxYear == 32767

DaysIn(y, m) ==
  CASE m = 2 -> IF y % 4 = 0 /\ (y % 100 # 0 \/ y % 400 = 0) THEN 29 ELSE 28
    [] m \in {4, 6, 9, 11} -> 30
    [] OTHER -> 31

IsDate(y, m, d) == y \in MinYear..MaxYear /\ m \in 1..12 /\ d \in 1..DaysIn(y, m)

Padded(text) == [i \in 1..(4 - Len(text)) |-> 0] \o text

\* Mutant: the oldest year is written like the others, through a short.
YearPlain(y) ==
  IF y > 0 THEN Padded(ToBuf(Signed(16), y))
  ELSE Padded(ToBuf(Signed(16), ((1 - y + 32768) % 65536) - 32768))

\* year_into_buf: there is no year zero in text, and the oldest fits no short.
YearIntoBuf(y) ==
  IF y = MinYear THEN <<3, 2, 7, 6, 8>>
  ELSE Padded(ToBuf(Signed(16), IF y <= 0 THEN 1 - y ELSE y))

DateIntoBuf(y, m, d) ==
  YearIntoBuf(y) \o <<Minus, m \div 10, m % 10, Minus, d \div 10, d % 10>>
  \o (IF y <= 0 THEN <<BC>> ELSE <<>>)

\* year_from_buf reads an int; one of 30 bits holds every year.
DateFromString(text) ==
  LET bc     == text # <<>> /\ Last(text) = BC
      body   == IF bc THEN Front(text) ELSE text
      sep    == SelectInSeq(body, LAMBDA c : c = Minus)
      year   == FromString(Signed(30), SubSeq(body, 1, sep - 1))
      two(i) == body[i] * 10 + body[i + 1]
      date   == <<IF bc THEN 1 - year[1] ELSE year[1], two(sep + 1), two(sep + 4)>>
  IN  IF \/ Len(body) + (IF bc THEN 3 ELSE 0) < 9 \/ sep < 5 \/ Len(body) - sep # 5
         \/ year = Error \/ year = <<0>> \/ body[sep + 3] # Minus
         \/ \E i \in {1, 2, 4, 5} : body[sep + i] \notin Digit
         \/ ~IsDate(date[1], date[2], date[3])
      THEN Error ELSE date

-----------------------------------------------------------------------------
(* Binary data, in hexadecimal.                                            *)

EscBin(bytes) ==
  <<Slash, X>> \o FlattenSeq([i \in DOMAIN bytes |-> <<bytes[i] \div 16, bytes[i] % 16>>])

UnescBin(text) ==
  IF \/ Len(text) < 2 \/ Len(text) % 2 # 0 \/ SubSeq(text, 1, 2) # <<Slash, X>>
     \/ \E i \in 3..Len(text) : text[i] \notin HexDigit
  THEN Error
  ELSE <<[i \in 1..(Len(text) \div 2 - 1) |-> 16 * text[2 * i + 1] + text[2 * i + 2]]>>

-----------------------------------------------------------------------------
\* strconv.cxx - every value of a type is written and read back, the lowest one
\* too, which no positive value stands for.
IntegerKept(type, value) == FromString(type, ToBuf(type, value)) = <<value>>

\* The number digits spell.
ValueOf(digits) == FoldLeft(LAMBDA n, d : n * 10 + d, 0, digits)

\* strconv.cxx - a text is read as the number it spells when the type has it, and
\* refused otherwise: nothing wraps around.
IntegerRead(type, gap, minus, digits) ==
  LET text == [i \in 1..gap |-> Space] \o (IF minus THEN <<Minus>> ELSE <<>>) \o digits
      n    == IF minus THEN -ValueOf(digits) ELSE ValueOf(digits)
  IN  FromString(type, text) =
        IF /\ digits # <<>> /\ ToSet(digits) \subseteq Digit
           /\ n \in type.bottom..type.top
           /\ minus => type.bottom < 0
        THEN <<n>> ELSE Error

\* time.cxx - a date comes back as it was, and is written as the server writes it,
\* whose calendar has no year zero and whose years have four digits or more.
DateKept(y, m, d) ==
  LET text == DateIntoBuf(y, m, d)
      year == SubSeq(text, 1, SelectInSeq(text, LAMBDA c : c = Minus) - 1)
  IN  /\ DateFromString(text) = <<y, m, d>>
      /\ ToSet(year) \subseteq Digit /\ Len(year) >= 4
      /\ ValueOf(year) = (IF y > 0 THEN y ELSE 1 - y) /\ (Last(text) = BC) = (y <= 0)

\* util.cxx:146-200 - bytes escaped for a text are the bytes that come out of it.
BytesKept(bytes) == UnescBin(EscBin(bytes)) = <<bytes>>
=============================================================================
