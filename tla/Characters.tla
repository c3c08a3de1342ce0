----------------------------- MODULE Characters -----------------------------
(***************************************************************************)
(* Characters as their code points, and the tests on them that the scanner *)
(* and the emitter share (yaml-0.1.4/src/yaml_private.h).                  *)
(*                                                                         *)
(* Wide is not a character: it stands for a word of 130 letters, so that a *)
(* text of a few characters can be longer than a line and than a simple    *)
(* key of the emitter.                                                     *)
(***************************************************************************)
EXTENDS Integers, FiniteSets, SequencesExt

NUL == 0
BEL == 7
TAB == 9
LF == 10
CR == 13
SP == 32
NEL == 133
LS == 8232
PS == 8233
BOM == 65279
Wide == 1114112
Bang == 33
DoubleQuote == 34
Hash == 35
Percent == 37
Ampersand == 38
Quote == 39
Asterisk == 42
Plus == 43
Comma == 44
Dash == 45
Dot == 46
Colon == 58
Greater == 62
Question == 63
At == 64
Backslash == 92
Grave == 96
Letter == 97
Bar == 124
Brackets == {91, 93, 123, 125}   \* [ ] { }

IsSpace(ch) == ch = SP
IsBlank(ch) == ch \in {SP, TAB}
IsBreak(ch) == ch \in {CR, LF, NEL, LS, PS}
IsBlankZ(ch) == IsBlank(ch) \/ IsBreak(ch) \/ ch = NUL
IsAscii(ch) == ch <= 127 \/ ch = Wide

(* The octets of UTF-8 that IS_PRINTABLE looks at stand for these ranges.  *)
IsPrintable(ch) ==
    \/ ch = LF \/ ch = Wide
    \/ ch \in 32..126 \/ ch \in 160..55295
    \/ ch \in 57344..65533 /\ ch # BOM

(* The octets of a character, WIDTH.                                       *)
Octets(ch) == CASE ch = Wide -> 130 [] ch < 128 -> 1 [] ch \in 128..2047 -> 2
                [] ch \in 2048..65535 -> 3 [] OTHER -> 4

LengthOf(s) == FoldLeft(LAMBDA n, ch : n + Octets(ch), 0, s)

(* A text ends in a NUL that is not counted.                               *)
CharAt(s, i) == IF i <= Len(s) THEN s[i] ELSE NUL

(* The three characters of a document mark.                                *)
ThreeOf(s, i, ch) == \A k \in i..(i + 2) : CharAt(s, k) = ch
MarkAt(s, i) == ThreeOf(s, i, Dash) \/ ThreeOf(s, i, Dot)

(* The characters no plain scalar starts with, whatever follows them.      *)
Reserved == {Hash, Comma, Ampersand, Asterisk, Bang, Bar, Greater, Quote, DoubleQuote,
             Percent, At, Grave} \cup Brackets
=============================================================================
