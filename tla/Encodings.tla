----------------------------- MODULE Encodings -----------------------------
(***************************************************************************)
(* The encodings libpqxx knows, as far as it needs them: where the next    *)
(* character begins, so that a backslash is not taken for one when it is   *)
(* the second byte of a character of SJIS or BIG5.                         *)
(*                                                                         *)
(* A byte is a number.  An encoding is a set of patterns, one for each     *)
(* shape of a character: the bytes that may stand first, second, ...       *)
(* Text is well formed; on other text the library throws argument_error.   *)
(***************************************************************************)
EXTENDS Integers, Sequences

Ascii == 0..127
High  == 161..254
Single == {<<Ascii>>}

MONOBYTE == {<<0..255>>}
BIG5     == Single \cup {<<129..254, 64..126 \cup High>>}
EUC_CN   == Single \cup {<<161..247, High>>}
EUC_JP   == Single \cup {<<{142} \cup High, High>>, <<{143}, High, High>>}
EUC_KR   == Single \cup {<<High, High>>}
EUC_TW   == EUC_KR \cup {<<{142}, 161..176, High, High>>}
GB18030  == Single \cup {<<129..255, (64..254) \ {127}>>,
                         <<129..255, 48..57, 129..254, 48..57>>}
GBK      == Single \cup {<<129..160, (64..254) \ {127}>>, <<161..169, High>>,
                         <<170..254, (64..160) \ {127}>>, <<161..169, (64..160) \ {127}>>,
                         <<170..254, High>>}

\* The check of the second byte looks at the first once more.
JOHAB == Single \cup {<<(132..211) \cup (216..222) \cup (224..249), 0..255>>}

\* The fourth byte is not looked at; the one after it is.
MULE_INTERNAL ==
  LET Later == 160..255 IN
  Single \cup {<<129..141, Later>>,
               <<{154}, 160..223, 0..255>>, <<{155}, 224..239, 0..255>>,
               <<144..153, Later, 0..255>>,
               <<{156}, 240..244, Later, 0..255, Later>>,
               <<{157}, 245..254, Later, 0..255, Later>>}

SJIS == {<<Ascii \cup (161..223)>>, <<(129..159) \cup (224..252), (64..252) \ {127}>>}
UHC  == Single \cup {<<128..198, (65..90) \cup (97..122) \cup (128..254)>>, <<199..254, High>>}

UTF8 ==
  LET Later == 128..191 IN
  Single \cup {<<192..223, Later>>, <<224..239, Later, Later>>, <<240..247, Later, Later, Later>>}

Group == {"MONOBYTE", "BIG5", "EUC_CN", "EUC_JP", "EUC_KR", "EUC_TW", "GB18030", "GBK", "JOHAB",
          "MULE_INTERNAL", "SJIS", "UHC", "UTF8"}

Patterns ==
  [g \in Group |->
     CASE g = "MONOBYTE" -> MONOBYTE [] g = "BIG5" -> BIG5 [] g = "EUC_CN" -> EUC_CN
       [] g = "EUC_JP" -> EUC_JP [] g = "EUC_KR" -> EUC_KR [] g = "EUC_TW" -> EUC_TW
       [] g = "GB18030" -> GB18030 [] g = "GBK" -> GBK [] g = "JOHAB" -> JOHAB
       [] g = "MULE_INTERNAL" -> MULE_INTERNAL [] g = "SJIS" -> SJIS [] g = "UHC" -> UHC
       [] OTHER -> UTF8]

\* Of the patterns of MULE_INTERNAL that look a byte beyond, that byte is no part.
Width(p) == IF Len(p) > 4 THEN 4 ELSE Len(p)

\* glyph_scanner<enc>::call: where the character at i ends and the next begins.
NextGlyph(enc, s, i) ==
  LET fits(p) == /\ i + Len(p) - 1 <= Len(s)
                 /\ \A k \in DOMAIN p : s[i + k - 1] \in p[k]
  IN  i + Width(CHOOSE p \in Patterns[enc] : fits(p))

\* Mutant: every encoding is searched byte by byte.
SearchBytes(enc) == "MONOBYTE"

\* map_ascii_search_group: where no other character holds an ASCII byte, the
\* search goes byte by byte.
SearchGroup(enc) ==
  IF enc \in {"EUC_CN", "EUC_JP", "EUC_KR", "EUC_TW", "MULE_INTERNAL", "UTF8"} THEN "MONOBYTE"
  ELSE enc

\* find_ascii_char: the first of the needles from here on, or the end.
FindAscii(enc, needles, s, here) ==
  LET find[i \in 1..Len(s) + 1] ==
        IF i > Len(s) \/ s[i] \in needles THEN i ELSE find[NextGlyph(enc, s, i)]
  IN  find[here]

\* What get_char_finder and get_s_char_finder give.
FindChar(enc, needles, s, here) == FindAscii(SearchGroup(enc), needles, s, here)

-----------------------------------------------------------------------------
\* A character of each shape of more than one byte, with a backslash for its last
\* bytes where it may have one: in MULE_INTERNAL it may not, whatever the scanner
\* lets pass.
Wide(enc) ==
  {[k \in 1..Width(p) |-> IF k > 1 /\ 92 \in p[k] /\ enc # "MULE_INTERNAL" THEN 92
                          ELSE CHOOSE b \in p[k] : \A d \in p[k] : d <= b] :
      p \in {q \in Patterns[enc] : q # <<Ascii>>}}
=============================================================================
