---------------------------- MODULE ScalarWriting ----------------------------
(***************************************************************************)
(* The scalars of libyaml's emitter (yaml-0.1.4/src/emitter.c): what it    *)
(* finds out about a text, which decides the styles that may be used, and  *)
(* the five ways to write one.  A text is a sequence of characters.        *)
(***************************************************************************)
EXTENDS Layout

(***************************************************************************)
(* yaml_emitter_analyze_scalar: one pass over the text there, one question *)
(* after the other here.                                                   *)
(***************************************************************************)
DoubleQuotedOnly(s, unicode) ==
    \E i \in DOMAIN s : ~IsPrintable(s[i]) \/ (~IsAscii(s[i]) /\ ~unicode)

(* Characters that mean something where they stand, in flow or block.      *)
FollowedByBlank(s, i) == IsBlankZ(CharAt(s, i + 1))
CommentAt(s, i) == s[i] = Hash /\ IsBlankZ(s[i - 1])

BlockIndicators(s) ==
    \/ MarkAt(s, 1)
    \/ s[1] \in Reserved
    \/ s[1] \in {Question, Colon, Dash} /\ FollowedByBlank(s, 1)
    \/ \E i \in 2..Len(s) : (s[i] = Colon /\ FollowedByBlank(s, i)) \/ CommentAt(s, i)

FlowIndicators(s) ==
    \/ MarkAt(s, 1)
    \/ s[1] \in Reserved \cup {Question, Colon}
    \/ s[1] = Dash /\ FollowedByBlank(s, 1)
    \/ \E i \in 2..Len(s) :
          s[i] \in {Comma, Question, Colon} \cup Brackets \/ CommentAt(s, i)

BreakThenSpace(s) == \E i \in 2..Len(s) : IsBreak(s[i - 1]) /\ IsSpace(s[i])
SpaceThenBreak(s) == \E i \in 2..Len(s) : IsSpace(s[i - 1]) /\ IsBreak(s[i])

Multiline(s) == \E i \in DOMAIN s : IsBreak(s[i])

(* What the two plain styles have in common.                               *)
PlainAllowed(s, unicode) ==
    /\ ~IsSpace(s[1]) /\ ~IsSpace(Last(s))
    /\ ~Multiline(s)
    /\ ~DoubleQuotedOnly(s, unicode)

FlowPlainAllowed(s, unicode) == s # <<>> /\ PlainAllowed(s, unicode) /\ ~FlowIndicators(s)

BlockPlainAllowed(s, unicode) == s = <<>> \/ (PlainAllowed(s, unicode) /\ ~BlockIndicators(s))

SingleQuotedAllowed(s, unicode) ==
    ~BreakThenSpace(s) /\ ~SpaceThenBreak(s) /\ ~DoubleQuotedOnly(s, unicode)

BlockAllowed(s, unicode) ==
    /\ s # <<>> /\ ~IsSpace(Last(s))
    /\ ~SpaceThenBreak(s) /\ ~DoubleQuotedOnly(s, unicode)

-----------------------------------------------------------------------------
(***************************************************************************)
(* Writing the characters of a scalar.  A pen is the emitter and the local *)
(* variables of the writers: what they have just written.                  *)
(***************************************************************************)
Pen(c, breaks) == [c |-> c, spaces |-> FALSE, breaks |-> breaks, leadingSpaces |-> TRUE]

LineIsFull(p) == p.c.column > BestWidth

Written(c, ch) == [Put(c, ch) EXCEPT !.indention = FALSE]

BreakWritten(c, ch) == [WriteBreak(c, ch) EXCEPT !.indention = TRUE]

Indented(p) == IF p.breaks THEN WriteIndent(p.c) ELSE p.c

Inside(s, i) == i \notin {1, Len(s)}

(***************************************************************************)
(* The characters of plain and single quoted scalars, which are written in *)
(* one way: a break is written twice, a space may become one, and a quote  *)
(* inside of quotes is doubled.                                            *)
(***************************************************************************)
FlowedStroke(p, s, i, allowBreaks, quoted) ==
    CASE IsSpace(s[i]) ->
           [p EXCEPT !.spaces = TRUE,
                     !.c = IF /\ allowBreaks /\ ~p.spaces /\ LineIsFull(p)
                              /\ quoted => Inside(s, i)
                              /\ ~IsSpace(CharAt(s, i + 1))
                           THEN WriteIndent(@) ELSE Put(@, SP)]
      [] IsBreak(s[i]) ->
           [p EXCEPT !.breaks = TRUE,
                     !.c = BreakWritten(IF ~p.breaks /\ s[i] = LF THEN PutBreak(@) ELSE @, s[i])]
      [] OTHER ->
           [p EXCEPT !.spaces = FALSE, !.breaks = FALSE,
                     !.c = Written(IF quoted /\ s[i] = Quote THEN Put(Indented(p), Quote)
                                   ELSE Indented(p), s[i])]

Escaped(ch, unicode) ==
    \/ ~IsPrintable(ch) \/ (~unicode /\ ~IsAscii(ch))
    \/ ch = BOM \/ IsBreak(ch)
    \/ ch \in {DoubleQuote, Backslash}

(* The escapes with a name, as code points: \0 \a \b \t \n \v \f \r \e     *)
(* \" \\ \N \_ \L \P.                                                      *)
Names ==
    {<<0, 48>>, <<7, 97>>, <<8, 98>>, <<9, 116>>, <<10, 110>>, <<11, 118>>, <<12, 102>>,
     <<13, 114>>, <<27, 101>>, <<34, 34>>, <<92, 92>>, <<133, 78>>, <<160, 95>>,
     <<8232, 76>>, <<8233, 80>>}

HexDigits(value, width) ==
    [k \in 1..width |-> LET digit == (value \div 16^(width - k)) % 16
                        IN  IF digit < 10 THEN digit + 48 ELSE digit + 55]

Coded(ch) == IF ch <= 255 THEN <<120>> \o HexDigits(ch, 2)
             ELSE IF ch <= 65535 THEN <<117>> \o HexDigits(ch, 4)
             ELSE <<85>> \o HexDigits(ch, 8)

Escape(ch) ==
    LET named == {n \in Names : n[1] = ch}
    IN  IF named = {} THEN Coded(ch) ELSE <<(CHOOSE n \in named : TRUE)[2]>>

(* The characters of double quoted scalars: a space in front of spaces     *)
(* that becomes a break needs a backslash behind it.                       *)
DoubleQuotedStroke(p, s, i, allowBreaks) ==
    CASE Escaped(s[i], p.c.unicode) ->
           [p EXCEPT !.spaces = FALSE, !.c = PutAll(Put(@, Backslash), Escape(s[i]))]
      [] IsSpace(s[i]) ->
           [p EXCEPT !.spaces = TRUE,
                     !.c = CASE ~(/\ allowBreaks /\ ~p.spaces /\ LineIsFull(p)
                                  /\ Inside(s, i)) -> Put(@, SP)
                             [] IsSpace(CharAt(s, i + 1)) -> Put(WriteIndent(@), Backslash)
                             [] OTHER -> WriteIndent(@)]
      [] OTHER -> [p EXCEPT !.spaces = FALSE, !.c = Put(@, s[i])]

(* The characters of literal scalars.                                      *)
LiteralStroke(p, s, i) ==
    IF IsBreak(s[i])
    THEN [p EXCEPT !.breaks = TRUE, !.c = BreakWritten(@, s[i])]
    ELSE [p EXCEPT !.breaks = FALSE, !.c = Written(Indented(p), s[i])]

(* The first character behind the breaks at i.                             *)
BehindBreaks(s, i) == CharAt(s, Min({k \in i..(Len(s) + 1) : ~IsBreak(CharAt(s, k))}))

(* The characters of folded scalars: a break between two lines that do not *)
(* begin with a blank is written twice, a space in a full line becomes one.*)
FoldedStroke(p, s, i) ==
    IF IsBreak(s[i])
    THEN [p EXCEPT !.breaks = TRUE,
                   !.c = BreakWritten(IF /\ ~p.breaks /\ ~p.leadingSpaces /\ s[i] = LF
                                         /\ ~IsBlankZ(BehindBreaks(s, i))
                                      THEN PutBreak(@) ELSE @, s[i])]
    ELSE [p EXCEPT !.breaks = FALSE,
                   !.leadingSpaces = IF p.breaks THEN IsBlank(s[i]) ELSE @,
                   !.c = IF /\ ~p.breaks /\ IsSpace(s[i]) /\ ~IsSpace(CharAt(s, i + 1))
                            /\ LineIsFull(p)
                         THEN [WriteIndent(@) EXCEPT !.indention = FALSE]
                         ELSE Written(Indented(p), s[i])]

-----------------------------------------------------------------------------
(***************************************************************************)
(* The writers of whole scalars.                                           *)
(***************************************************************************)
Stroke(p, s, i, style, allowBreaks) ==
    CASE style \in {"plain", "single-quoted"} ->
           FlowedStroke(p, s, i, allowBreaks, style = "single-quoted")
      [] style = "double-quoted" -> DoubleQuotedStroke(p, s, i, allowBreaks)
      [] style = "literal" -> LiteralStroke(p, s, i)
      [] style = "folded" -> FoldedStroke(p, s, i)

(* The loop of every writer, over the characters of s.                     *)
WriteCharacters(c, s, style, allowBreaks) ==
    LET pens[i \in 0 .. Len(s)] ==
          IF i = 0 THEN Pen(c, style \in {"literal", "folded"})
                   ELSE Stroke(pens[i - 1], s, i, style, allowBreaks)
    IN  Then(c, LAMBDA d : pens[Len(s)].c)

(* Mutant of BlockHints: a break that is all of a text is not kept.        *)
BlockHintsOfLines(s) ==
    LET n == Len(s)
        indent == IF IsSpace(s[1]) \/ IsBreak(s[1]) THEN <<48 + BestIndent>> ELSE <<>>
    IN  indent \o CASE ~IsBreak(s[n]) -> <<Dash>>
                    [] n > 1 /\ IsBreak(s[n]) /\ IsBreak(s[n - 1]) -> <<Plus>>
                    [] OTHER -> <<>>

(***************************************************************************)
(* yaml_emitter_write_block_scalar_hints: the indent, for a text that does *)
(* not show it, and what becomes of the breaks at its end.  "+" sets       *)
(* open_ended, and is then written, which clears it.                       *)
(***************************************************************************)
BlockHints(s) ==
    LET n == Len(s)
        indent == IF IsSpace(s[1]) \/ IsBreak(s[1]) THEN <<48 + BestIndent>> ELSE <<>>
        chomp == CASE ~IsBreak(s[n]) -> <<Dash>>
                   [] IsBreak(s[n]) /\ (n = 1 \/ IsBreak(s[n - 1])) -> <<Plus>>
                   [] OTHER -> <<>>
    IN  indent \o chomp

(* What a scalar that is not plain begins with.                            *)
IndicatorOf(style) ==
    CASE style = "single-quoted" -> Quote
      [] style = "double-quoted" -> DoubleQuote
      [] style = "literal" -> Bar
      [] style = "folded" -> Greater

(***************************************************************************)
(* The beginnings of yaml_emitter_write_plain_scalar, of                   *)
(* yaml_emitter_write_single_quoted_scalar and                             *)
(* yaml_emitter_write_double_quoted_scalar, and of                         *)
(* yaml_emitter_write_literal_scalar and yaml_emitter_write_folded_scalar. *)
(* An empty plain scalar leaves nothing to see.                            *)
(***************************************************************************)
BeginPlain(c, s) == IF s = <<>> THEN c ELSE Write(c, "scalar", <<>>, <<>>)

BeginQuoted(c, ch) == Indicated(Write(c, "scalar", <<>>, <<ch>>), FALSE, FALSE)

BeginBlock(c, ch, s) ==
    Then(PutBreak(PutAll(BeginQuoted(c, ch), BlockHints(s))),
         LAMBDA d : [d EXCEPT !.indention = TRUE, !.whitespace = TRUE])

BeginScalar(c, s, style) ==
    CASE style = "plain" -> BeginPlain(c, s)
      [] style \in {"single-quoted", "double-quoted"} -> BeginQuoted(c, IndicatorOf(style))
      [] style \in {"literal", "folded"} -> BeginBlock(c, IndicatorOf(style), s)

(* Their ends. *)
EndPlain(c) == Then(c, LAMBDA d : [d EXCEPT !.whitespace = FALSE, !.indention = FALSE,
                                            !.openEnded = @ \/ d.rootContext])

EndQuoted(c, ch) == Indicated(Put(c, ch), FALSE, FALSE)

EndScalar(c, style) ==
    CASE style = "plain" -> EndPlain(c)
      [] style \in {"single-quoted", "double-quoted"} -> EndQuoted(c, IndicatorOf(style))
      [] style \in {"literal", "folded"} -> c

WriteScalar(c, s, style, allowBreaks) ==
    EndScalar(WriteCharacters(BeginScalar(Space(c, TRUE), s, style), s, style, allowBreaks), style)
=============================================================================
