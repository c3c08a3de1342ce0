------------------------------- MODULE Layout -------------------------------
(***************************************************************************)
(* How libyaml's emitter puts things on the page (yaml-0.1.4/src/          *)
(* emitter.c): the macros PUT, PUT_BREAK, WRITE and WRITE_BREAK, and the   *)
(* indicators, indentations and breaks written with them.                  *)
(*                                                                         *)
(* The text is a sequence of items: indicators and scalars, each with the  *)
(* place it starts at and all characters up to the next one.  A name       *)
(* counts as one letter.  Everything works on the emitter as a record c.   *)
(* When a step of the code fails its caller returns at once: every step    *)
(* leaves the record alone once c.ok is FALSE.                             *)
(***************************************************************************)
EXTENDS Characters

BestIndent == 2
BestWidth == 80

Then(c, Step(_)) == IF c.ok THEN Step(c) ELSE c

Fail(c, kind) == IF c.ok THEN [c EXCEPT !.ok = FALSE, !.error = kind] ELSE c

Larger(m, n) == IF m > n THEN m ELSE n

(* Only a Wide by itself is more than its characters.                      *)
Columns(chars) == IF chars = <<Wide>> THEN 130 ELSE Len(chars)

(* Characters behind the first item belong to the last one.                *)
Continued(text, chars) ==
    IF text = <<>> THEN text ELSE [text EXCEPT ![Len(text)].chars = @ \o chars]

PutAll(c, chars) ==
    Then(c, LAMBDA d : [d EXCEPT !.column = @ + Columns(chars), !.text = Continued(@, chars)])

Put(c, ch) == PutAll(c, <<ch>>)

(* WRITE_BREAK; PUT_BREAK writes an LF, as the emitter's line_break is.    *)
WriteBreak(c, ch) ==
    Then(Put(c, ch), LAMBDA d : [d EXCEPT !.column = 0, !.line = @ + 1])

PutBreak(c) == WriteBreak(c, LF)

Space(c, needed) == IF needed /\ ~c.whitespace THEN Put(c, SP) ELSE c

(***************************************************************************)
(* The next item, with the flush that makes room for it: c.room is the     *)
(* number of items up to the first flush that fails, or -1.  The text a    *)
(* failed flush loses is not taken back from c.text.                       *)
(***************************************************************************)
Write(c, what, arg, chars) ==
    IF c.room = 0
    THEN Fail(c, "writer")
    ELSE Then(c, LAMBDA d :
                    [d EXCEPT !.text = Append(@, [what |-> what, arg |-> arg, chars |-> chars,
                                                  at |-> d.column, line |-> d.line]),
                              !.column = @ + Columns(chars),
                              !.room = IF @ > 0 THEN @ - 1 ELSE @])

(* yaml_emitter_flush, where the code calls it itself.                     *)
Flush(c) == IF c.room = 0 THEN Fail(c, "writer") ELSE c

(* The characters of an indicator, and of the name behind it.              *)
Spelling(what) ==
    CASE what = "---" -> <<Dash, Dash, Dash>>
      [] what = "..." -> <<Dot, Dot, Dot>>
      [] what \in {"%YAML", "%TAG"} -> <<Percent, Letter>>
      [] what = "-" -> <<Dash>>
      [] what = "?" -> <<Question>>
      [] what = ":" -> <<Colon>>
      [] what = "," -> <<Comma>>
      [] what = "&" -> <<Ampersand, Letter>>
      [] what = "*" -> <<Asterisk, Letter>>
      [] what \in {"tag", "!<"} -> <<Bang, Letter>>
      [] what = ">" -> <<Greater>>
      [] what = "[" -> <<91>>
      [] what = "]" -> <<93>>
      [] what = "{" -> <<123>>
      [] what = "}" -> <<125>>

(* What the end of yaml_emitter_write_indicator leaves behind.             *)
Indicated(c, isWhitespace, isIndention) ==
    Then(c, LAMBDA d : [d EXCEPT !.whitespace = isWhitespace,
                                 !.indention = @ /\ isIndention,
                                 !.openEnded = FALSE])

(***************************************************************************)
(* yaml_emitter_write_indicator, with the name that may follow it.  The    *)
(* two short forms are indicators that nothing but a flag tells apart.     *)
(***************************************************************************)
WriteIndicator(c, what, arg, needWhitespace, isWhitespace, isIndention) ==
    Indicated(Write(Space(c, needWhitespace), what, arg, Spelling(what)),
              isWhitespace, isIndention)

Tight(c, what) == WriteIndicator(c, what, <<>>, FALSE, FALSE, FALSE)
Apart(c, what) == WriteIndicator(c, what, <<>>, TRUE, FALSE, FALSE)

(* yaml_emitter_write_indent: a break, where the line is not the one to    *)
(* indent, and blanks up to the indentation.                               *)
LineToIndent(c, indent) ==
    IF ~c.indention \/ c.column > indent \/ (c.column = indent /\ ~c.whitespace)
    THEN PutBreak(c) ELSE c

PadTo(c, indent) ==
    Then(PutAll(c, [k \in 1..(indent - c.column) |-> SP]),
         LAMBDA d : [d EXCEPT !.whitespace = TRUE, !.indention = TRUE])

WriteIndent(c) == PadTo(LineToIndent(c, Larger(c.indent, 0)), Larger(c.indent, 0))
=============================================================================
