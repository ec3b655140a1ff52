--------------------------- MODULE TranslateCodec ---------------------------
(***************************************************************************)
(* How the translate driver encodes and decodes characters (Aufgabe4_final *)
(* /translate.c).  A character is its code; the module parameter           *)
(* translate_subst is a function from positions to characters.             *)
(***************************************************************************)
EXTENDS Integers

CONSTANT CaseSize   \* letters in each case, 26 in the code

ASSUME CaseSizeAssumption == CaseSize \in 1 .. 26

Char == -128 .. 127
NUL  == 0

UPPER_CASE_ASCII == 65
LOWER_CASE_ASCII == 97

UpperCase == UPPER_CASE_ASCII .. UPPER_CASE_ASCII + CaseSize - 1
LowerCase == LOWER_CASE_ASCII .. LOWER_CASE_ASCII + CaseSize - 1
Letters   == UpperCase \union LowerCase

\* strlen of the parameter.  With a shorter one encode_char would read behind
\* its end.
TRANSLATE_SUBSTR_LEN == 2 * CaseSize
Positions == 0 .. TRANSLATE_SUBSTR_LEN - 1

LOWER_CASE_SUBSTR_OFFSET == 0
UPPER_CASE_SUBSTR_OFFSET == TRANSLATE_SUBSTR_LEN \div 2

NEUTRAL_CHAR_INDEX == -1

\* The parameters that make sense: every letter once.
Substs == {s \in [Positions -> Letters] :
             \A i, j \in Positions : s[i] = s[j] => i = j}

\* (Faulty: both cases start at the beginning.)
SameOffset(c) ==
  IF c \in UpperCase THEN c - UPPER_CASE_ASCII
  ELSE IF c \in LowerCase THEN c - LOWER_CASE_ASCII
  ELSE NEUTRAL_CHAR_INDEX

encode_index_from_char(c) ==
  IF c \in UpperCase THEN c - UPPER_CASE_ASCII + UPPER_CASE_SUBSTR_OFFSET
  ELSE IF c \in LowerCase THEN c - LOWER_CASE_ASCII + LOWER_CASE_SUBSTR_OFFSET
  ELSE NEUTRAL_CHAR_INDEX

encode_char(s, c) ==
  LET index == encode_index_from_char(c)
  IN IF index # NEUTRAL_CHAR_INDEX THEN s[index] ELSE c

\* Where strchr finds c: the NUL at the end of the string counts.
Occurrences(s, c) ==
  {i \in Positions : s[i] = c} \union
    (IF c = NUL THEN {TRANSLATE_SUBSTR_LEN} ELSE {})

FirstOccurrence(s, c) ==
  CHOOSE i \in Occurrences(s, c) : \A j \in Occurrences(s, c) : i <= j

decode_from_index(index) ==
  IF index \in LOWER_CASE_SUBSTR_OFFSET .. UPPER_CASE_SUBSTR_OFFSET - 1
    THEN LOWER_CASE_ASCII + index - LOWER_CASE_SUBSTR_OFFSET
    ELSE UPPER_CASE_ASCII + index - UPPER_CASE_SUBSTR_OFFSET

decode_char(s, c) ==
  IF Occurrences(s, c) = {} THEN c
                            ELSE decode_from_index(FirstOccurrence(s, c))
=============================================================================
