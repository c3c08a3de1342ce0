--------------------------- MODULE ScalarScanning ---------------------------
(***************************************************************************)
(* The scalars of libyaml's scanner (yaml-0.1.4/src/scanner.c): which kind *)
(* of scalar the next characters begin, and which text it is of.  t is     *)
(* the rest of the text, whose first character is in the column "at",      *)
(* indent is parser->indent, and flow tells a flow context.                *)
(*                                                                         *)
(* A scan gives the text of the scalar and the position behind it.  What   *)
(* the emitter never writes is left out: comments, tabs in indentations,   *)
(* and a CR and an LF that are one line break.                             *)
(***************************************************************************)
EXTENDS Characters

Scanned(text, next) == [ok |-> TRUE, text |-> text, next |-> next]
NotScanned == [ok |-> FALSE, text |-> <<>>, next |-> 1]

(* The column of position i.  A Wide, which breaks no line, counts one.    *)
ColumnAt(t, at, i) ==
    LET breaks == {k \in 1..(i - 1) : IsBreak(t[k])}
    IN  IF breaks = {} THEN at + i - 1 ELSE i - 1 - Max(breaks)

(* A document indicator, at the beginning of a line.                       *)
DocumentIndicatorAt(t, at, i) ==
    ColumnAt(t, at, i) = 0 /\ MarkAt(t, i) /\ IsBlankZ(CharAt(t, i + 3))

IsGap(ch) == IsBlank(ch) \/ IsBreak(ch)

(* The first position from i on whose character is not a blank or a break. *)
BehindGap(t, i) == Min({k \in i..(Len(t) + 1) : ~IsGap(CharAt(t, k))})

(* READ_LINE: every break but LS and PS reads as an LF.                    *)
LineBreak(ch) == IF ch \in {LS, PS} THEN ch ELSE LF

BreaksIn(s) == LET breaks == SelectSeq(s, IsBreak) IN [i \in DOMAIN breaks |-> LineBreak(breaks[i])]

(***************************************************************************)
(* What blanks and breaks between the characters of a plain or a quoted    *)
(* scalar stand for: the first break is a space, or nothing in front of    *)
(* others, unless it is an LS or a PS; blanks around breaks are dropped.   *)
(***************************************************************************)
Joined(gap) ==
    LET breaks == BreaksIn(gap)
    IN  CASE breaks = <<>> -> gap
          [] breaks = <<LF>> -> <<SP>>
          [] Len(breaks) > 1 /\ Head(breaks) = LF -> Tail(breaks)
          [] OTHER -> breaks

-----------------------------------------------------------------------------
(***************************************************************************)
(* yaml_parser_scan_plain_scalar.                                          *)
(***************************************************************************)
ColonEnds(t, i) == CharAt(t, i) = Colon /\ IsBlankZ(CharAt(t, i + 1))

(* The scan of "x:x" in the flow context is an error.                      *)
ColonInFlow(t, i, flow) == flow /\ CharAt(t, i) = Colon /\ ~IsBlankZ(CharAt(t, i + 1))

EndsPlain(t, i, flow) ==
    \/ IsBlankZ(CharAt(t, i))
    \/ ColonEnds(t, i)
    \/ flow /\ CharAt(t, i) \in {Comma, Colon, Question} \cup Brackets

(* A word of it, and the words behind it; gap is what stands in front.     *)
RECURSIVE PlainWords(_, _, _, _, _, _, _)
PlainWords(t, at, indent, flow, i, string, gap) ==
    LET end == Min({k \in i..(Len(t) + 1) : EndsPlain(t, k, flow)})
        joined == IF end = i THEN string ELSE string \o Joined(gap) \o SubSeq(t, i, end - 1)
        next == BehindGap(t, end)
    IN  CASE DocumentIndicatorAt(t, at, i) \/ CharAt(t, i) = Hash -> Scanned(string, i)
          [] ColonInFlow(t, end, flow) -> NotScanned
          [] next = end -> Scanned(joined, end)
          [] ~flow /\ ColumnAt(t, at, next) < indent + 1 -> Scanned(joined, next)
          [] OTHER -> PlainWords(t, at, indent, flow, next, joined, SubSeq(t, end, next - 1))

ScanPlain(t, at, indent, flow) == PlainWords(t, at, indent, flow, 1, <<>>, <<>>)

-----------------------------------------------------------------------------
(***************************************************************************)
(* yaml_parser_scan_flow_scalar.                                           *)
(***************************************************************************)
(* The named escapes, as code points: \0 \a \b \t \n \v \f \r \e \" \' \\  *)
(* \N \_ \L \P and a backslash with a tab or a space behind it.            *)
EscapeNames ==
    {<<48, 0>>, <<97, 7>>, <<98, 8>>, <<116, 9>>, <<9, 9>>, <<110, 10>>, <<118, 11>>,
     <<102, 12>>, <<114, 13>>, <<101, 27>>, <<32, 32>>, <<34, 34>>, <<39, 39>>, <<92, 92>>,
     <<78, 133>>, <<95, 160>>, <<76, 8232>>, <<80, 8233>>}

(* \x, \u and \U, and the digits they have.                                *)
CodeLengths == {<<120, 2>>, <<117, 4>>, <<85, 8>>}

IsHex(ch) == ch \in 48..57 \/ ch \in 65..70 \/ ch \in 97..102

HexValue(ch) == CASE ch \in 65..70 -> ch - 55 [] ch \in 97..102 -> ch - 87 [] OTHER -> ch - 48

(* The character an escape at i stands for and the position behind it.     *)
EscapeAt(t, i) ==
    LET named == {n \in EscapeNames : n[1] = CharAt(t, i + 1)}
        coded == {n \in CodeLengths : n[1] = CharAt(t, i + 1)}
        digits(n) == SubSeq(t, i + 2, i + 1 + n)
        value(n) == FoldLeft(LAMBDA v, ch : 16 * v + HexValue(ch), 0, digits(n))
        isCode(n) == /\ Len(t) > i + n
                     /\ \A k \in 1..n : IsHex(digits(n)[k])
                     /\ value(n) \notin 55296..57343 /\ value(n) <= 1114111
    IN  CASE named # {} -> Scanned(<<(CHOOSE n \in named : TRUE)[2]>>, i + 2)
          [] coded # {} ->
                LET n == (CHOOSE m \in coded : TRUE)[2]
                IN  IF isCode(n) THEN Scanned(<<value(n)>>, i + 2 + n) ELSE NotScanned
          [] OTHER -> NotScanned

(* The characters from position i on, up to the right quote.               *)
RECURSIVE QuotedFrom(_, _, _, _, _)
QuotedFrom(t, at, quote, i, string) ==
    LET ch == CharAt(t, i)
        escape == EscapeAt(t, i)
        next == BehindGap(t, i)
        behindEscapedBreak == BehindGap(t, i + 2)
    IN  CASE DocumentIndicatorAt(t, at, i) \/ ch = NUL -> NotScanned
          [] IsGap(ch) -> QuotedFrom(t, at, quote, next, string \o Joined(SubSeq(t, i, next - 1)))
          [] ch = Quote /\ quote = Quote /\ CharAt(t, i + 1) = Quote ->
                QuotedFrom(t, at, quote, i + 2, Append(string, Quote))
          [] ch = quote /\ ~(quote = Quote /\ CharAt(t, i + 1) = Quote) -> Scanned(string, i + 1)
          [] ch = Backslash /\ quote = DoubleQuote /\ IsBreak(CharAt(t, i + 1)) ->
                QuotedFrom(t, at, quote, behindEscapedBreak,
                           string \o BreaksIn(SubSeq(t, i + 2, behindEscapedBreak - 1)))
          [] ch = Backslash /\ quote = DoubleQuote /\ ~IsBreak(CharAt(t, i + 1)) ->
                IF escape.ok THEN QuotedFrom(t, at, quote, escape.next, string \o escape.text)
                             ELSE NotScanned
          [] OTHER -> QuotedFrom(t, at, quote, i + 1, Append(string, ch))

ScanQuoted(t, at) == QuotedFrom(t, at, t[1], 2, <<>>)

-----------------------------------------------------------------------------
(***************************************************************************)
(* yaml_parser_scan_block_scalar_breaks, from the position b.i in column   *)
(* b.column on: the indentation and the breaks in front of a line.  An     *)
(* indent of 0 is not known yet.                                           *)
(***************************************************************************)
RECURSIVE BlockBreaks(_, _, _)
BlockBreaks(t, b, indent) ==
    LET ch == CharAt(t, b.i)
        seen == [b EXCEPT !.widest = IF b.column > @ THEN b.column ELSE @]
    IN  CASE IsSpace(ch) /\ (indent = 0 \/ b.column < indent) ->
                BlockBreaks(t, [b EXCEPT !.i = @ + 1, !.column = @ + 1], indent)
          [] IsBreak(ch) ->
                BlockBreaks(t, [seen EXCEPT !.i = @ + 1, !.column = 0,
                                            !.breaks = Append(@, LineBreak(ch))], indent)
          [] OTHER -> seen

(* The end of the line that position i is on. *)
LineEnd(t, i) == Min({k \in i..(Len(t) + 1) : IsBreak(CharAt(t, k)) \/ CharAt(t, k) = NUL})

(* Those behind the line that ends at i, which may be the end of the text. *)
BreaksBehind(t, i, indent) ==
    BlockBreaks(t, [i |-> IF CharAt(t, i) = NUL THEN i ELSE i + 1, column |-> 0,
                    breaks |-> <<>>, widest |-> 0], indent)

(* The break between two lines, and those behind it.                       *)
BetweenLines(z, literal, blank) ==
    IF ~literal /\ z.leadingBreak = <<LF>> /\ ~z.leadingBlank /\ ~blank
    THEN IF z.breaks = <<>> THEN <<SP>> ELSE z.breaks
    ELSE z.leadingBreak \o z.breaks

(* The lines of a block scalar: z is what has been read so far.            *)
RECURSIVE BlockLines(_, _, _, _)
BlockLines(t, z, indent, literal) ==
    LET blank == IsBlank(CharAt(t, z.i))
        end == LineEnd(t, z.i)
        b == BreaksBehind(t, end, indent)
    IN  IF z.column # indent \/ CharAt(t, z.i) = NUL
        THEN z
        ELSE BlockLines(t, [i |-> b.i, column |-> b.column, breaks |-> b.breaks,
                            leadingBlank |-> blank,
                            leadingBreak |-> BreaksIn(SubSeq(t, end, end)),
                            string |-> z.string \o BetweenLines(z, literal, blank)
                                            \o SubSeq(t, z.i, end - 1)],
                        indent, literal)

(***************************************************************************)
(* yaml_parser_scan_block_scalar: a chomping and an indentation indicator  *)
(* in either order, the lines, and the breaks at the end.                  *)
(***************************************************************************)
ScanBlock(t, indent, literal) ==
    LET line == LineEnd(t, 2)
        hints == SelectSeq(SubSeq(t, 2, line - 1), LAMBDA ch : ~IsBlank(ch))
        signs == SelectSeq(hints, LAMBDA ch : ch \in {Plus, Dash})
        digits == SelectSeq(hints, LAMBDA ch : ch \in 49..57)
        increment == IF digits = <<>> THEN 0 ELSE digits[1] - 48
        given == CASE increment = 0 -> 0
                   [] increment > 0 /\ indent >= 0 -> indent + increment
                   [] OTHER -> increment
        b == BreaksBehind(t, line, given)
        found == IF given > 0 THEN given ELSE Max({b.widest, indent + 1, 1})
        z == BlockLines(t, [i |-> b.i, column |-> b.column, breaks |-> b.breaks,
                            leadingBlank |-> FALSE, leadingBreak |-> <<>>, string |-> <<>>],
                        found, literal)
        tail == CASE signs = <<>> -> z.leadingBreak
                  [] signs = <<Plus>> -> z.leadingBreak \o z.breaks
                  [] OTHER -> <<>>
    IN  IF /\ Len(signs) <= 1 /\ Len(digits) <= 1 /\ Len(hints) = Len(signs) + Len(digits)
           /\ hints = SubSeq(t, 2, 1 + Len(hints))
        THEN Scanned(z.string \o tail, z.i) ELSE NotScanned

-----------------------------------------------------------------------------
(***************************************************************************)
(* yaml_parser_fetch_next_token, where it decides on a scalar.             *)
(***************************************************************************)
BeginsPlain(t, flow) ==
    \/ ~IsBlankZ(t[1]) /\ t[1] \notin Reserved \cup {Dash, Question, Colon}
    \/ t[1] = Dash /\ ~IsBlankZ(CharAt(t, 2))
    \/ ~flow /\ t[1] \in {Question, Colon} /\ ~IsBlankZ(CharAt(t, 2))

ScanScalar(t, at, indent, flow) ==
    CASE DocumentIndicatorAt(t, at, 1) -> NotScanned
      [] t[1] \in {Bar, Greater} /\ ~flow -> ScanBlock(t, indent, t[1] = Bar)
      [] t[1] \in {Quote, DoubleQuote} -> ScanQuoted(t, at)
      [] BeginsPlain(t, flow) -> ScanPlain(t, at, indent, flow)
      [] OTHER -> NotScanned
=============================================================================
