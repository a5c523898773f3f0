-------------------------------- MODULE Text --------------------------------
(***************************************************************************)
(* The two ways to words: Indexer::index, from the HTML of a page, and     *)
(* SearchEngine::processRequest, from the form of the search page.         *)
(*                                                                         *)
(* A text is a sequence of characters; there is one character of each kind *)
(* the code tells apart, and a tag of script is one character.             *)
(***************************************************************************)
EXTENDS Integers, Sequences, FiniteSets, SequencesExt

CONSTANTS MinBytes, MaxBytes   \* the shortest and the longest word: 3 and 32

Latin  == {"a", "A"}
Letter == Latin \cup {"ya", "Ya", "han"}
WordChar == Letter \cup {"_"}          \* \w
Char == WordChar \cup {"-", "'", " ", "<", ">", "<script>", "</script>"}

Lower(c) == CASE c = "A" -> "a" [] c = "Ya" -> "ya" [] OTHER -> c
LowerText(t) == [i \in DOMAIN t |-> Lower(t[i])]

\* UTF-8.  han stands for the letters Windows-1251 does not have.
Utf8(c) ==
  CASE c = "ya" -> <<"D1", "8F">> [] c = "Ya" -> <<"D0", "AF">>
    [] c = "han" -> <<"E4", "B8", "AD">> [] OTHER -> <<c>>

ToBytes(t) == FlattenSeq([i \in DOMAIN t |-> Utf8(t[i])])

\* A character has three bytes at the most.
FromBytes(b) ==
  LET from[i \in 1..Len(b) + 3] ==
        IF i > Len(b) THEN <<>>
        ELSE LET c == CHOOSE c \in Char : LET u == Utf8(c) IN
                        i + Len(u) <= Len(b) + 1 /\ SubSeq(b, i, i + Len(u) - 1) = u
             IN <<c>> \o from[i + Len(Utf8(c))]
  IN from[1]

-----------------------------------------------------------------------------
(* Indexer::removeHtmlTags and index.  A character that a regular          *)
(* expression replaces by a space separates words, however many go at once.*)

\* Within a match of open[^close]*close.
Between(t, i, open, close) ==
  \E j \in 1..i : /\ t[j] \in open
                  /\ \A k \in j..i - 1 : t[k] \notin close
                  /\ \E k \in i..Len(t) : t[k] \in close

InScript(t, i) == Between(t, i, {"<script>"}, {"</script>"})

\* A script without its end stays, and its tag is one for the next expression.
Unscripted(t) == [i \in DOMAIN t |-> IF InScript(t, i) THEN " " ELSE t[i]]

ScriptTag == {"<script>", "</script>"}

Untagged(t) ==
  [i \in DOMAIN t |->
     IF Between(t, i, {"<"} \cup ScriptTag, {">"} \cup ScriptTag) THEN " " ELSE t[i]]

\* The longest runs of positions of t that hold what is in S.
Runs(t, S) ==
  {r \in (DOMAIN t) \X (DOMAIN t) :
     /\ r[1] <= r[2] /\ \A k \in r[1]..r[2] : t[k] \in S
     /\ r[1] - 1 \in DOMAIN t => t[r[1] - 1] \notin S
     /\ r[2] + 1 \in DOMAIN t => t[r[2] + 1] \notin S}

\* \b[a-zA-Z0-9_]+_[a-zA-Z0-9_]+\b can only match the whole of a run of \w.
IsTechnical(t, r) ==
  /\ \A k \in r[1]..r[2] : t[k] \in Latin \cup {"_"}
  /\ \E k \in r[1] + 1..r[2] - 1 : t[k] = "_"

Untechnical(t) ==
  [i \in DOMAIN t |->
     IF \E r \in Runs(t, WordChar) : i \in r[1]..r[2] /\ IsTechnical(t, r) THEN " " ELSE t[i]]

RemoveHtmlTags(content) == LowerText(Untechnical(Untagged(Unscripted(content))))

\* [^\w\s-] is a space.
Words(t) == {SubSeq(t, r[1], r[2]) : r \in Runs(t, WordChar \cup {"-"})}

Index(content) ==
  {w \in Words(RemoveHtmlTags(content)) : Len(ToBytes(w)) \in MinBytes..MaxBytes}

-----------------------------------------------------------------------------
(* The form as a browser sends it.                                         *)

Safe == {"a", "A", "_", "-"}

Hex(b) ==
  CASE b = "'" -> <<"2", "7">> [] b = "<" -> <<"3", "C">> [] b = ">" -> <<"3", "E">>
    [] b = "D1" -> <<"D", "1">> [] b = "8F" -> <<"8", "F">> [] b = "D0" -> <<"D", "0">>
    [] b = "AF" -> <<"A", "F">> [] b = "E4" -> <<"E", "4">> [] b = "B8" -> <<"B", "8">>
    [] b = "AD" -> <<"A", "D">>

Escaped == {"'", "<", ">", "D1", "8F", "D0", "AF", "E4", "B8", "AD"}
HexDigit == UNION {Range(Hex(b)) : b \in Escaped} \cup Latin

Sent(b) == CASE b \in Safe -> <<b>> [] b = " " -> <<"+">> [] OTHER -> <<"%">> \o Hex(b)

Form(t) == LET b == ToBytes(t) IN FlattenSeq([i \in DOMAIN b |-> Sent(b[i])])

-----------------------------------------------------------------------------
(* processRequest.                                                         *)

IsEscape(e, i) ==
  e[i] = "%" /\ i + 2 <= Len(e) /\ e[i + 1] \in HexDigit /\ e[i + 2] \in HexDigit

URLDecode(e) ==
  LET from[i \in 1..Len(e) + 1] ==
        IF i > Len(e) THEN <<>>
        ELSE IF IsEscape(e, i)
        THEN <<CHOOSE b \in Escaped : Hex(b) = <<e[i + 1], e[i + 2]>>>> \o from[i + 3]
        ELSE <<IF e[i] = "+" THEN " " ELSE e[i]>> \o from[i + 1]
  IN from[1]

\* ispunct of a byte; it is false for the bytes of a letter above 127.
Punct == {"_", "-", "'", "<", ">"}

\* Mutant: the bytes above 127 are punctuation, as in some locales.
NotPunctHigh(c) == c \notin Punct \cup {"ya", "Ya", "han"}

NotPunct(c) == c \notin Punct

\* from_utf leaves out what Windows-1251 does not have, and Database.cpp:129
\* turns the rest back into UTF-8.
Encodable(c) == c # "han"

\* What is left of a word.
Searched(w) ==
  LET left[n \in 0..Len(w)] ==
        IF n = 0 THEN <<>>
        ELSE IF w[n] \in {c \in Char : NotPunct(c) /\ Encodable(c)} THEN Append(left[n - 1], w[n])
        ELSE left[n - 1]
  IN  left[Len(w)]

SearchWords(e) ==
  LET t     == LowerText(FromBytes(URLDecode(e)))
      words == {SubSeq(t, r[1], r[2]) : r \in Runs(t, Char \ {" "})}
  IN {Searched(w) : w \in words} \ {<<>>}

-----------------------------------------------------------------------------
\* What Windows-1251 writes and no hyphen or underscore divides.
Findable(w) == \A i \in DOMAIN w : w[i] \in Letter /\ Encodable(w[i])

Upper(c) == CASE c = "a" -> "A" [] c = "ya" -> "Ya" [] OTHER -> c
UpperText(t) == [i \in DOMAIN t |-> Upper(t[i])]

\* A word of a page, typed as it stands on the page, in small letters or in
\* capitals, is searched for as what the index has - exactly when it is written with letters of
\* Windows-1251 alone.  SearchEngine.cpp:220 takes the hyphens and underscores out
\* of what is searched for, Indexer.cpp:47 leaves them in what is found.
WordFound(w) == SearchWords(Form(w)) = {w} /\ SearchWords(Form(UpperText(w))) = {w}
=============================================================================
