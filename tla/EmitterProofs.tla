---------------------------- MODULE EmitterProofs ----------------------------
(***************************************************************************)
(* Proofs about EmitStream.                                                *)
(***************************************************************************)
EXTENDS EmitStream, SequenceFacts

(* The emitter is a record. *)
IsEmitter(c) ==
    c = [state |-> c.state, states |-> c.states, events |-> c.events,
         indent |-> c.indent, indents |-> c.indents, flowLevel |-> c.flowLevel,
         tagDirectives |-> c.tagDirectives, rootContext |-> c.rootContext,
         mappingContext |-> c.mappingContext, simpleKeyContext |-> c.simpleKeyContext,
         column |-> c.column, line |-> c.line, whitespace |-> c.whitespace,
         indention |-> c.indention, openEnded |-> c.openEnded, text |-> c.text,
         room |-> c.room, ok |-> c.ok, error |-> c.error,
         canonical |-> c.canonical, unicode |-> c.unicode]

Sound(c) == /\ IsEmitter(c)
            /\ c.column \in Nat /\ c.line \in Nat /\ c.indent \in Int /\ c.ok \in BOOLEAN

(* What tells where in the stream the emitter is.                          *)
SamePlace(c, d) ==
    /\ d.state = c.state /\ d.states = c.states
    /\ d.indent = c.indent /\ d.indents = c.indents /\ d.flowLevel = c.flowLevel
    /\ d.tagDirectives = c.tagDirectives /\ d.events = c.events /\ d.canonical = c.canonical

SameOutcome(c, d) == d.ok = c.ok /\ d.error = c.error

(* A step that only writes. *)
Kept(c, d) ==
    /\ Sound(d) /\ SamePlace(c, d)
    /\ ~c.ok => d = c
    /\ d.ok => c.ok /\ d.error = c.error
    /\ c.ok /\ ~d.ok => d.error = "writer"

(* A step that only writes, into the buffer. *)
Drawn(c, d) == Kept(c, d) /\ (c.ok => d.ok)

-----------------------------------------------------------------------------
(***************************************************************************)
(* What is written on the page.                                            *)
(***************************************************************************)
LEMMA KeptSelf ==
    ASSUME NEW c, Sound(c)
    PROVE  Kept(c, c)
BY DEF Kept, SamePlace

LEMMA KeptOn ==
    ASSUME NEW c, NEW d, NEW w, Kept(c, d), Kept(d, w)
    PROVE  Kept(c, w)
BY DEF Kept, SamePlace

LEMMA DrawnSelf ==
    ASSUME NEW c, Sound(c)
    PROVE  Drawn(c, c)
BY KeptSelf DEF Drawn

LEMMA DrawnOn ==
    ASSUME NEW c, NEW d, NEW w, Drawn(c, d), Drawn(d, w)
    PROVE  Drawn(c, w)
BY KeptOn DEF Drawn

LEMMA DrawnIsSound ==
    ASSUME NEW c, NEW d, Drawn(c, d)
    PROVE  Sound(d)
BY DEF Drawn, Kept

(* A step that changes fields of the page. *)
LEMMA PageStepDraws ==
    ASSUME NEW c, Sound(c), c.ok, NEW d, IsEmitter(d), SamePlace(c, d), SameOutcome(c, d),
           d.column \in Nat, d.line \in Nat
    PROVE  Drawn(c, d)
BY DEF Drawn, Kept, Sound, SamePlace, SameOutcome

LEMMA FailKeeps ==
    ASSUME NEW c, Sound(c), NEW kind
    PROVE  /\ Sound(Fail(c, kind)) /\ SamePlace(c, Fail(c, kind)) /\ ~Fail(c, kind).ok
           /\ Fail(c, kind).text = c.text
           /\ IF c.ok THEN Fail(c, kind).error = kind ELSE Fail(c, kind) = c
<1>1. CASE ~c.ok
  BY <1>1 DEF Fail, SamePlace
<1>2. CASE c.ok
  <2> SUFFICES ASSUME NEW d, d = [c EXCEPT !.ok = FALSE, !.error = kind]
               PROVE  /\ Sound(d) /\ SamePlace(c, d) /\ ~d.ok /\ d.text = c.text
                      /\ d.error = kind
    BY <1>2, Zenon DEF Fail
  <2>1. /\ IsEmitter(d) /\ SamePlace(c, d) /\ d.ok = FALSE /\ d.text = c.text
        /\ d.error = kind /\ d.column = c.column /\ d.line = c.line /\ d.indent = c.indent
    BY ZenonT(40) DEF Sound, IsEmitter, SamePlace
  <2> QED BY <2>1, Zenon DEF Sound
<1> QED BY <1>1, <1>2

LEMMA PutAllDraws ==
    ASSUME NEW c, Sound(c), NEW chars, Len(chars) \in Nat
    PROVE  Drawn(c, PutAll(c, chars))
<1>1. CASE ~c.ok
  BY <1>1, DrawnSelf DEF PutAll, Then
<1>2. CASE c.ok
  <2> SUFFICES ASSUME NEW d, d = [c EXCEPT !.column = c.column + Columns(chars),
                                            !.text = Continued(c.text, chars)]
               PROVE  Drawn(c, d)
    BY <1>2, Zenon DEF PutAll, Then
  <2>1. /\ IsEmitter(d) /\ SamePlace(c, d) /\ SameOutcome(c, d)
        /\ d.column = c.column + Columns(chars) /\ d.line = c.line
    BY ZenonT(40) DEF Sound, IsEmitter, SamePlace, SameOutcome
  <2>2. Columns(chars) \in Nat
    BY DEF Columns
  <2>3. d.column \in Nat /\ d.line \in Nat
    <3>1. c.column \in Nat /\ c.line \in Nat
      BY DEF Sound
    <3> SUFFICES ASSUME NEW m \in Nat, NEW n \in Nat PROVE m + n \in Nat
      BY <2>1, <2>2, <3>1
    <3> QED OBVIOUS
  <2> QED BY <1>2, <2>1, <2>3, PageStepDraws, Zenon
<1> QED BY <1>1, <1>2

LEMMA PutDraws ==
    ASSUME NEW c, Sound(c), NEW ch
    PROVE  Drawn(c, Put(c, ch))
<1>1. Len(<<ch>>) \in Nat
  OBVIOUS
<1> QED BY <1>1, PutAllDraws DEF Put

LEMMA WriteBreakDraws ==
    ASSUME NEW c, Sound(c), NEW ch
    PROVE  Drawn(c, WriteBreak(c, ch))
<1> SUFFICES ASSUME NEW p, p = Put(c, ch), Drawn(c, p)
             PROVE  Drawn(c, Then(p, LAMBDA d : [d EXCEPT !.column = 0, !.line = @ + 1]))
  BY PutDraws DEF WriteBreak
<1>0. Sound(p)
  BY DrawnIsSound
<1>1. CASE ~p.ok
  BY <1>1 DEF Then
<1>2. CASE p.ok
  <2> SUFFICES ASSUME NEW d, d = [p EXCEPT !.column = 0, !.line = p.line + 1]
               PROVE  Drawn(p, d)
    BY <1>2, DrawnOn, Zenon DEF Then
  <2>1. /\ IsEmitter(d) /\ SamePlace(p, d) /\ SameOutcome(p, d)
        /\ d.column = 0 /\ d.line = p.line + 1
    BY <1>0, ZenonT(40) DEF Sound, IsEmitter, SamePlace, SameOutcome
  <2>2. d.column \in Nat /\ d.line \in Nat
    <3>1. p.line \in Nat
      BY <1>0 DEF Sound
    <3> SUFFICES ASSUME NEW n \in Nat PROVE 0 \in Nat /\ n + 1 \in Nat
      BY <2>1, <3>1
    <3> QED OBVIOUS
  <2> QED BY <1>0, <1>2, <2>1, <2>2, PageStepDraws, Zenon
<1> QED BY <1>1, <1>2

LEMMA SpaceDraws ==
    ASSUME NEW c, Sound(c), NEW needed
    PROVE  Drawn(c, Space(c, needed))
BY PutDraws, DrawnSelf DEF Space

LEMMA WriteKeeps ==
    ASSUME NEW c, Sound(c), NEW what, NEW arg, NEW chars, Len(chars) \in Nat
    PROVE  Kept(c, Write(c, what, arg, chars))
<1>1. CASE c.room = 0
  BY <1>1, FailKeeps DEF Write, Kept
<1>2. CASE c.room # 0 /\ ~c.ok
  BY <1>2, KeptSelf DEF Write, Then
<1>3. CASE c.room # 0 /\ c.ok
  <2> SUFFICES ASSUME NEW text, NEW room, NEW d,
                      d = [c EXCEPT !.text = text, !.column = c.column + Columns(chars),
                                    !.room = room]
               PROVE  Kept(c, d)
    BY <1>3, Zenon DEF Write, Then
  <2>1. /\ IsEmitter(d) /\ SamePlace(c, d) /\ SameOutcome(c, d)
        /\ d.column = c.column + Columns(chars) /\ d.line = c.line
    BY ZenonT(40) DEF Sound, IsEmitter, SamePlace, SameOutcome
  <2>2. Columns(chars) \in Nat
    BY DEF Columns
  <2>3. d.column \in Nat /\ d.line \in Nat
    <3>1. c.column \in Nat /\ c.line \in Nat
      BY DEF Sound
    <3> SUFFICES ASSUME NEW m \in Nat, NEW n \in Nat PROVE m + n \in Nat
      BY <2>1, <2>2, <3>1
    <3> QED OBVIOUS
  <2> QED BY <1>3, <2>1, <2>3, PageStepDraws, Zenon DEF Drawn
<1> QED BY <1>1, <1>2, <1>3

LEMMA FlushKeeps ==
    ASSUME NEW c, Sound(c)
    PROVE  Kept(c, Flush(c))
<1>1. CASE c.room = 0
  BY <1>1, FailKeeps DEF Flush, Kept
<1>2. CASE c.room # 0
  BY <1>2, KeptSelf DEF Flush
<1> QED BY <1>1, <1>2

LEMMA IndicatedDraws ==
    ASSUME NEW c, Sound(c), NEW isWhitespace, NEW isIndention
    PROVE  Drawn(c, Indicated(c, isWhitespace, isIndention))
<1>1. CASE ~c.ok
  BY <1>1, DrawnSelf DEF Indicated, Then
<1>2. CASE c.ok
  <2> SUFFICES ASSUME NEW indention, NEW d,
                      d = [c EXCEPT !.whitespace = isWhitespace, !.indention = indention,
                                    !.openEnded = FALSE]
               PROVE  Drawn(c, d)
    BY <1>2, Zenon DEF Indicated, Then
  <2>1. /\ IsEmitter(d) /\ SamePlace(c, d) /\ SameOutcome(c, d)
        /\ d.column = c.column /\ d.line = c.line
    BY ZenonT(40) DEF Sound, IsEmitter, SamePlace, SameOutcome
  <2> QED BY <1>2, <2>1, PageStepDraws, Zenon DEF Sound
<1> QED BY <1>1, <1>2

(* Fields that only say what has been written last. *)
LEMMA MarksDraw ==
    ASSUME NEW c, Sound(c), c.ok, NEW whitespace, NEW indention, NEW openEnded, NEW d,
           \/ d = [c EXCEPT !.indention = indention]
           \/ d = [c EXCEPT !.whitespace = whitespace, !.indention = indention]
           \/ d = [c EXCEPT !.indention = indention, !.whitespace = whitespace]
           \/ d = [c EXCEPT !.whitespace = whitespace, !.indention = indention,
                            !.openEnded = openEnded]
    PROVE  Drawn(c, d)
<1>1. /\ IsEmitter(d) /\ SamePlace(c, d) /\ SameOutcome(c, d)
      /\ d.column = c.column /\ d.line = c.line
  BY ZenonT(40) DEF Sound, IsEmitter, SamePlace, SameOutcome
<1> QED BY <1>1, PageStepDraws, Zenon DEF Sound

Indicator == {"---", "...", "%YAML", "%TAG", "-", "?", ":", ",", "&", "*", "tag", "!<", ">",
              "[", "]", "{", "}"}

LEMMA SpellingHasLength ==
    ASSUME NEW what \in Indicator
    PROVE  Len(Spelling(what)) \in Nat
BY DEF Spelling, Indicator

LEMMA WriteIndicatorKeeps ==
    ASSUME NEW c, Sound(c), NEW arg, NEW needed, NEW isWhitespace, NEW isIndention,
           NEW what \in Indicator
    PROVE  Kept(c, WriteIndicator(c, what, arg, needed, isWhitespace, isIndention))
<1> DEFINE d == Space(c, needed)
           w == Write(d, what, arg, Spelling(what))
           v == Indicated(w, isWhitespace, isIndention)
<1>1. Kept(c, d)
  BY SpaceDraws DEF Drawn
<1>2. Len(Spelling(what)) \in Nat
  BY SpellingHasLength
<1> HIDE DEF d
<1>3. Kept(d, w)
  BY <1>1, <1>2, WriteKeeps DEF Kept
<1> HIDE DEF w
<1>4. Kept(w, v)
  BY <1>3, IndicatedDraws DEF Kept, Drawn
<1>5. v = WriteIndicator(c, what, arg, needed, isWhitespace, isIndention)
  BY Zenon DEF WriteIndicator, v, w, d
<1> HIDE DEF v
<1> QED BY <1>1, <1>3, <1>4, <1>5, KeptOn

LEMMA BlanksHaveLength ==
    ASSUME NEW n \in Int
    PROVE  Len([k \in 1 .. n |-> SP]) \in Nat
<1>1. CASE n \in Nat
  <2>1. [k \in 1 .. n |-> SP] \in [1 .. n -> {SP}]
    OBVIOUS
  <2>2. [k \in 1 .. n |-> SP] \in Seq({SP})
    BY <1>1, <2>1, SeqDef
  <2> QED BY <2>2, LenProperties
<1>2. CASE n \notin Nat
  <2>1. 1 .. n = {} /\ 1 .. 0 = {}
    BY <1>2
  <2>2. [k \in 1 .. n |-> SP] = [k \in 1 .. 0 |-> SP]
    BY <2>1
  <2>3. [k \in 1 .. 0 |-> SP] \in [1 .. 0 -> {SP}]
    OBVIOUS
  <2>4. [k \in 1 .. 0 |-> SP] \in Seq({SP})
    BY <2>3, SeqDef
  <2> QED BY <2>2, <2>4, LenProperties
<1> QED BY <1>1, <1>2

LEMMA WriteIndentDraws ==
    ASSUME NEW c, Sound(c)
    PROVE  Drawn(c, WriteIndent(c))
<1> DEFINE indent == Larger(c.indent, 0)
           d == LineToIndent(c, indent)
           w == PutAll(d, [k \in 1..(indent - d.column) |-> SP])
           v == Then(w, LAMBDA u : [u EXCEPT !.whitespace = TRUE, !.indention = TRUE])
<1>1. Drawn(c, d)
  BY WriteBreakDraws, DrawnSelf DEF PutBreak, LineToIndent
<1>2. indent \in Int
  BY DEF Larger, Sound
<1> HIDE DEF d, indent
<1>3. indent - d.column \in Int
  BY <1>1, <1>2, DrawnIsSound DEF Sound, Drawn, Kept
<1>4. Drawn(d, w)
  BY <1>1, <1>3, BlanksHaveLength, PutAllDraws, DrawnIsSound
<1> HIDE DEF w
<1>5. Drawn(w, v)
  <2>1. Sound(w)
    BY <1>4, DrawnIsSound
  <2>2. CASE w.ok
    <3>1. v = [w EXCEPT !.whitespace = TRUE, !.indention = TRUE]
      BY <2>2, Zenon DEF Then
    <3> HIDE DEF v
    <3> QED BY <2>1, <2>2, <3>1, MarksDraw, Zenon
  <2>3. CASE ~w.ok
    BY <2>1, <2>3, DrawnSelf, Zenon DEF Then
  <2> QED BY <2>2, <2>3
<1>6. v = WriteIndent(c)
  BY Zenon DEF WriteIndent, PadTo, v, w, d, indent
<1> HIDE DEF v
<1> QED BY <1>1, <1>4, <1>5, <1>6, DrawnOn

-----------------------------------------------------------------------------
(***************************************************************************)
(* Scalars.                                                                *)
(***************************************************************************)
IsPen(p) == p = [c |-> p.c, spaces |-> p.spaces, breaks |-> p.breaks,
                 leadingSpaces |-> p.leadingSpaces]

(* What the loops of the writers keep: the pen is a record, and has only   *)
(* written into the buffer.                                                *)
Drawing(c, p) == IsPen(p) /\ Drawn(c, p.c) /\ p.c.ok

LEMMA PenMoves ==
    ASSUME NEW c, NEW p, Drawing(c, p), NEW d, Drawn(p.c, d), NEW x, NEW y, NEW q,
           \/ q = [p EXCEPT !.spaces = x, !.c = d]
           \/ q = [p EXCEPT !.breaks = x, !.c = d]
           \/ q = [p EXCEPT !.spaces = x, !.breaks = y, !.c = d]
           \/ q = [p EXCEPT !.breaks = x, !.leadingSpaces = y, !.c = d]
    PROVE  Drawing(c, q)
<1>1. IsPen(q) /\ q.c = d
  BY Zenon DEF Drawing, IsPen
<1>2. Drawn(c, d)
  BY DrawnOn DEF Drawing
<1>3. d.ok
  BY DEF Drawing, Drawn
<1> QED BY <1>1, <1>2, <1>3 DEF Drawing

LEMMA WrittenDraws ==
    ASSUME NEW c, Sound(c), c.ok, NEW ch
    PROVE  Drawn(c, Written(c, ch)) /\ Drawn(c, BreakWritten(c, ch))
<1> DEFINE d == Put(c, ch)
           w == WriteBreak(c, ch)
<1>1. Drawn(c, d) /\ Drawn(c, w)
  BY PutDraws, WriteBreakDraws
<1>2. Written(c, ch) = [d EXCEPT !.indention = FALSE]
  BY Zenon DEF Written
<1>3. BreakWritten(c, ch) = [w EXCEPT !.indention = TRUE]
  BY Zenon DEF BreakWritten
<1> HIDE DEF d, w
<1>4. Sound(d) /\ Sound(w) /\ d.ok /\ w.ok
  BY <1>1, DrawnIsSound DEF Drawn
<1>5. Drawn(d, Written(c, ch))
  BY <1>2, <1>4, MarksDraw, Zenon
<1>6. Drawn(w, BreakWritten(c, ch))
  BY <1>3, <1>4, MarksDraw, Zenon
<1> QED BY <1>1, <1>5, <1>6, DrawnOn

LEMMA IndentedDraws ==
    ASSUME NEW p, Sound(p.c)
    PROVE  Drawn(p.c, Indented(p))
BY WriteIndentDraws, DrawnSelf DEF Indented

LEMMA DrawingIsSound ==
    ASSUME NEW c, NEW p, Drawing(c, p)
    PROVE  Sound(p.c) /\ p.c.ok
BY DrawnIsSound DEF Drawing

LEMMA FlowedStrokeDraws ==
    ASSUME NEW c, NEW p, Drawing(c, p), NEW s, NEW i, NEW allowBreaks, NEW quoted
    PROVE  Drawing(c, FlowedStroke(p, s, i, allowBreaks, quoted))
<1> DEFINE folds == /\ allowBreaks /\ ~p.spaces /\ LineIsFull(p)
                    /\ quoted => Inside(s, i)
                    /\ ~IsSpace(CharAt(s, i + 1))
           space == IF folds THEN WriteIndent(p.c) ELSE Put(p.c, SP)
           first == IF ~p.breaks /\ s[i] = LF THEN PutBreak(p.c) ELSE p.c
           break == BreakWritten(first, s[i])
           quote == IF quoted /\ s[i] = Quote THEN Put(Indented(p), Quote) ELSE Indented(p)
           other == Written(quote, s[i])
           q == FlowedStroke(p, s, i, allowBreaks, quoted)
<1>0. Sound(p.c) /\ p.c.ok
  BY DrawingIsSound
<1>1. Drawn(p.c, space)
  <2> HIDE DEF folds
  <2> QED BY <1>0, WriteIndentDraws, PutDraws
<1>2. Drawn(p.c, break)
  <2>1. Drawn(p.c, first)
    BY <1>0, WriteBreakDraws, DrawnSelf DEF PutBreak
  <2> HIDE DEF first
  <2>2. Sound(first) /\ first.ok
    BY <1>0, <2>1, DrawnIsSound DEF Drawn
  <2>3. Drawn(first, break)
    BY <2>2, WrittenDraws
  <2> QED BY <2>1, <2>3, DrawnOn
<1>3. Drawn(p.c, other)
  <2>1. Drawn(p.c, Indented(p)) /\ Sound(Indented(p))
    BY <1>0, IndentedDraws, DrawnIsSound
  <2>2. Drawn(Indented(p), Put(Indented(p), Quote))
    BY <2>1, PutDraws
  <2>3. Drawn(p.c, quote)
    BY <2>1, <2>2, DrawnOn
  <2> HIDE DEF quote
  <2>4. Sound(quote) /\ quote.ok
    BY <1>0, <2>3, DrawnIsSound DEF Drawn
  <2>5. Drawn(quote, other)
    BY <2>4, WrittenDraws
  <2> QED BY <2>3, <2>5, DrawnOn
<1>4. \/ q = [p EXCEPT !.spaces = TRUE, !.c = space]
      \/ q = [p EXCEPT !.breaks = TRUE, !.c = break]
      \/ q = [p EXCEPT !.spaces = FALSE, !.breaks = FALSE, !.c = other]
  <2>1. CASE IsSpace(s[i])
    <3>1. ~IsBreak(s[i])
      BY <2>1 DEF IsSpace, IsBreak, SP, CR, LF, NEL, LS, PS
    <3> QED BY <2>1, <3>1, Zenon DEF FlowedStroke
  <2>2. CASE ~IsSpace(s[i]) /\ IsBreak(s[i])
    BY <2>2, Zenon DEF FlowedStroke
  <2>3. CASE ~IsSpace(s[i]) /\ ~IsBreak(s[i])
    BY <2>3, Zenon DEF FlowedStroke
  <2> QED BY <2>1, <2>2, <2>3
<1> HIDE DEF space, break, other, q
<1>5. CASE q = [p EXCEPT !.spaces = TRUE, !.c = space]
  BY <1>1, <1>5, PenMoves, Zenon DEF q
<1>6. CASE q = [p EXCEPT !.breaks = TRUE, !.c = break]
  BY <1>2, <1>6, PenMoves, Zenon DEF q
<1>7. CASE q = [p EXCEPT !.spaces = FALSE, !.breaks = FALSE, !.c = other]
  BY <1>3, <1>7, PenMoves, Zenon DEF q
<1> QED BY <1>4, <1>5, <1>6, <1>7 DEF q

LEMMA HexDigitsHaveLength ==
    ASSUME NEW value, NEW width \in Nat
    PROVE  \E S : HexDigits(value, width) \in Seq(S)
<1> DEFINE h(k) == LET digit == (value \div 16^(width - k)) % 16
                   IN  IF digit < 10 THEN digit + 48 ELSE digit + 55
           S == {h(k) : k \in 1 .. width}
<1>1. HexDigits(value, width) = [k \in 1 .. width |-> h(k)]
  BY Zenon DEF HexDigits
<1> HIDE DEF h
<1>2. [k \in 1 .. width |-> h(k)] \in [1 .. width -> S]
  BY Zenon
<1> HIDE DEF S
<1>3. [k \in 1 .. width |-> h(k)] \in Seq(S)
  BY <1>2, SeqDef
<1> QED BY <1>1, <1>3

LEMMA EscapeHasLength ==
    ASSUME NEW ch
    PROVE  Len(Escape(ch)) \in Nat
<1>1. ASSUME NEW x, NEW width \in Nat
      PROVE  Len(<<x>> \o HexDigits(ch, width)) \in Nat
  <2>1. PICK S : HexDigits(ch, width) \in Seq(S)
    BY HexDigitsHaveLength
  <2> DEFINE U == S \cup {x}
  <2>2. HexDigits(ch, width) \in Seq(U) /\ <<x>> \in Seq(U)
    BY <2>1
  <2> HIDE DEF U
  <2>3. <<x>> \o HexDigits(ch, width) \in Seq(U)
    BY <2>2
  <2> QED BY <2>3, LenProperties
<1>2. \A x : Len(<<x>>) \in Nat
  OBVIOUS
<1>3. \/ \E x : Escape(ch) = <<x>>
      \/ Escape(ch) = Coded(ch)
  BY Zenon DEF Escape
<1>4. \/ Coded(ch) = <<120>> \o HexDigits(ch, 2)
      \/ Coded(ch) = <<117>> \o HexDigits(ch, 4)
      \/ Coded(ch) = <<85>> \o HexDigits(ch, 8)
  BY SMT DEF Coded
<1>5. 2 \in Nat /\ 4 \in Nat /\ 8 \in Nat
  OBVIOUS
<1> QED BY <1>1, <1>2, <1>3, <1>4, <1>5, Zenon

LEMMA SpacesAreNotEscaped ==
    ASSUME NEW ch, IsSpace(ch), NEW unicode
    PROVE  ~Escaped(ch, unicode)
<1>1. ch = 32
  BY DEF IsSpace, SP
<1>2. IsPrintable(32) /\ IsAscii(32)
  BY SMT DEF IsPrintable, IsAscii, LF, Wide, BOM
<1>3. 32 # BOM /\ ~IsBreak(32) /\ 32 \notin {DoubleQuote, Backslash}
  BY SMT DEF IsBreak, BOM, CR, LF, NEL, LS, PS, DoubleQuote, Backslash
<1> QED BY <1>1, <1>2, <1>3, Zenon DEF Escaped

LEMMA DoubleQuotedStrokeDraws ==
    ASSUME NEW c, NEW p, Drawing(c, p), NEW s, NEW i, NEW allowBreaks
    PROVE  Drawing(c, DoubleQuotedStroke(p, s, i, allowBreaks))
<1> DEFINE folds == allowBreaks /\ ~p.spaces /\ LineIsFull(p) /\ Inside(s, i)
           escaped == PutAll(Put(p.c, Backslash), Escape(s[i]))
           space == CASE ~folds -> Put(p.c, SP)
                      [] IsSpace(CharAt(s, i + 1)) -> Put(WriteIndent(p.c), Backslash)
                      [] OTHER -> WriteIndent(p.c)
           other == Put(p.c, s[i])
           q == DoubleQuotedStroke(p, s, i, allowBreaks)
<1>0. Sound(p.c) /\ p.c.ok
  BY DrawingIsSound
<1>1. Drawn(p.c, escaped)
  <2>1. Drawn(p.c, Put(p.c, Backslash)) /\ Sound(Put(p.c, Backslash))
    BY <1>0, PutDraws, DrawnIsSound
  <2>2. Drawn(Put(p.c, Backslash), escaped)
    BY <2>1, EscapeHasLength, PutAllDraws
  <2> QED BY <2>1, <2>2, DrawnOn
<1>2. Drawn(p.c, WriteIndent(p.c)) /\ Drawn(p.c, Put(WriteIndent(p.c), Backslash))
  <2>1. Drawn(p.c, WriteIndent(p.c)) /\ Sound(WriteIndent(p.c))
    BY <1>0, WriteIndentDraws, DrawnIsSound
  <2>2. Drawn(WriteIndent(p.c), Put(WriteIndent(p.c), Backslash))
    BY <2>1, PutDraws
  <2> QED BY <2>1, <2>2, DrawnOn
<1>3. Drawn(p.c, Put(p.c, SP)) /\ Drawn(p.c, other)
  BY <1>0, PutDraws
<1>4. CASE Escaped(s[i], p.c.unicode)
  <2>1. ~IsSpace(s[i])
    BY <1>4, SpacesAreNotEscaped
  <2>2. q = [p EXCEPT !.spaces = FALSE, !.c = escaped]
    BY <1>4, <2>1, Zenon DEF DoubleQuotedStroke
  <2> QED BY <1>1, <2>2, PenMoves, Zenon
<1>5. CASE ~Escaped(s[i], p.c.unicode) /\ IsSpace(s[i])
  <2>1. q = [p EXCEPT !.spaces = TRUE, !.c = space]
    BY <1>5, Zenon DEF DoubleQuotedStroke
  <2> QED BY <1>2, <1>3, <2>1, PenMoves, Zenon
<1>6. CASE ~Escaped(s[i], p.c.unicode) /\ ~IsSpace(s[i])
  <2>1. q = [p EXCEPT !.spaces = FALSE, !.c = other]
    BY <1>6, Zenon DEF DoubleQuotedStroke
  <2> QED BY <1>3, <2>1, PenMoves, Zenon
<1> QED BY <1>4, <1>5, <1>6

LEMMA LiteralStrokeDraws ==
    ASSUME NEW c, NEW p, Drawing(c, p), NEW s, NEW i
    PROVE  Drawing(c, LiteralStroke(p, s, i))
<1> DEFINE break == BreakWritten(p.c, s[i])
           other == Written(Indented(p), s[i])
           q == LiteralStroke(p, s, i)
<1>0. Sound(p.c) /\ p.c.ok
  BY DrawingIsSound
<1>1. Drawn(p.c, break)
  BY <1>0, WrittenDraws
<1>2. Drawn(p.c, other)
  <2>1. Drawn(p.c, Indented(p)) /\ Sound(Indented(p)) /\ Indented(p).ok
    BY <1>0, IndentedDraws, DrawnIsSound DEF Drawn
  <2>2. Drawn(Indented(p), other)
    BY <2>1, WrittenDraws
  <2> QED BY <2>1, <2>2, DrawnOn
<1> HIDE DEF break, other
<1>3. CASE IsBreak(s[i])
  <2>1. q = [p EXCEPT !.breaks = TRUE, !.c = break]
    BY <1>3, Zenon DEF LiteralStroke, break
  <2> HIDE DEF q
  <2> QED BY <1>1, <2>1, PenMoves, Zenon DEF q
<1>4. CASE ~IsBreak(s[i])
  <2>1. q = [p EXCEPT !.breaks = FALSE, !.c = other]
    BY <1>4, Zenon DEF LiteralStroke, other
  <2> HIDE DEF q
  <2> QED BY <1>2, <2>1, PenMoves, Zenon DEF q
<1> QED BY <1>3, <1>4

LEMMA FoldedStrokeDraws ==
    ASSUME NEW c, NEW p, Drawing(c, p), NEW s, NEW i
    PROVE  Drawing(c, FoldedStroke(p, s, i))
<1> DEFINE doubled == /\ ~p.breaks /\ ~p.leadingSpaces /\ s[i] = LF
                      /\ ~IsBlankZ(BehindBreaks(s, i))
           first == IF doubled THEN PutBreak(p.c) ELSE p.c
           break == BreakWritten(first, s[i])
           folds == /\ ~p.breaks /\ IsSpace(s[i]) /\ ~IsSpace(CharAt(s, i + 1)) /\ LineIsFull(p)
           fold == [WriteIndent(p.c) EXCEPT !.indention = FALSE]
           other == IF folds THEN fold ELSE Written(Indented(p), s[i])
           leading == IF p.breaks THEN IsBlank(s[i]) ELSE p.leadingSpaces
           q == FoldedStroke(p, s, i)
<1>0. Sound(p.c) /\ p.c.ok
  BY DrawingIsSound
<1>1. Drawn(p.c, break)
  <2>1. Drawn(p.c, first)
    <3> HIDE DEF doubled
    <3> QED BY <1>0, WriteBreakDraws, DrawnSelf DEF PutBreak
  <2> HIDE DEF first
  <2>2. Sound(first) /\ first.ok
    BY <1>0, <2>1, DrawnIsSound DEF Drawn
  <2>3. Drawn(first, break)
    BY <2>2, WrittenDraws
  <2> QED BY <2>1, <2>3, DrawnOn
<1>2. Drawn(p.c, fold)
  <2> DEFINE d == WriteIndent(p.c)
  <2>1. Drawn(p.c, d) /\ Sound(d) /\ d.ok
    BY <1>0, WriteIndentDraws, DrawnIsSound DEF Drawn
  <2> HIDE DEF d
  <2>2. Drawn(d, [d EXCEPT !.indention = FALSE])
    BY <2>1, MarksDraw, Zenon
  <2>3. Drawn(p.c, [d EXCEPT !.indention = FALSE])
    BY <2>1, <2>2, DrawnOn, Zenon
  <2> QED BY <2>3, Zenon DEF d
<1>3. Drawn(p.c, Written(Indented(p), s[i]))
  <2>1. Drawn(p.c, Indented(p)) /\ Sound(Indented(p)) /\ Indented(p).ok
    BY <1>0, IndentedDraws, DrawnIsSound DEF Drawn
  <2>2. Drawn(Indented(p), Written(Indented(p), s[i]))
    BY <2>1, WrittenDraws
  <2> QED BY <2>1, <2>2, DrawnOn
<1>4. Drawn(p.c, other)
  <2> HIDE DEF fold, folds
  <2> QED BY <1>2, <1>3
<1>5. CASE IsBreak(s[i])
  <2>1. q = [p EXCEPT !.breaks = TRUE, !.c = break]
    BY <1>5, Zenon DEF FoldedStroke
  <2> HIDE DEF q, break
  <2> QED BY <1>1, <2>1, PenMoves, Zenon DEF q
<1>6. CASE ~IsBreak(s[i])
  <2>1. q = [p EXCEPT !.breaks = FALSE, !.leadingSpaces = leading, !.c = other]
    BY <1>6, Zenon DEF FoldedStroke
  <2> HIDE DEF q, other, leading
  <2> QED BY <1>4, <2>1, PenMoves, Zenon DEF q
<1> QED BY <1>5, <1>6

ScalarStyles == {"plain", "single-quoted", "double-quoted", "literal", "folded"}

LEMMA StrokeDraws ==
    ASSUME NEW c, NEW p, Drawing(c, p), NEW s, NEW i, NEW style \in ScalarStyles, NEW allowBreaks
    PROVE  Drawing(c, Stroke(p, s, i, style, allowBreaks))
<1>1. CASE style \in {"plain", "single-quoted"}
  <2>1. Stroke(p, s, i, style, allowBreaks)
          = FlowedStroke(p, s, i, allowBreaks, style = "single-quoted")
    BY <1>1 DEF Stroke
  <2> QED BY <2>1, FlowedStrokeDraws
<1>2. CASE style = "double-quoted"
  <2>1. Stroke(p, s, i, style, allowBreaks) = DoubleQuotedStroke(p, s, i, allowBreaks)
    BY <1>2 DEF Stroke
  <2> QED BY <2>1, DoubleQuotedStrokeDraws
<1>3. CASE style = "literal"
  <2>1. Stroke(p, s, i, style, allowBreaks) = LiteralStroke(p, s, i)
    BY <1>3 DEF Stroke
  <2> QED BY <2>1, LiteralStrokeDraws
<1>4. CASE style = "folded"
  <2>1. Stroke(p, s, i, style, allowBreaks) = FoldedStroke(p, s, i)
    BY <1>4 DEF Stroke
  <2> QED BY <2>1, FoldedStrokeDraws
<1> QED BY <1>1, <1>2, <1>3, <1>4 DEF ScalarStyles

(* The pen behind each of the first n characters. *)
Pens(f, c, s, style, allowBreaks, n) ==
    f = [i \in 0 .. n |-> IF i = 0 THEN Pen(c, style \in {"literal", "folded"})
                                   ELSE Stroke(f[i - 1], s, i, style, allowBreaks)]

LEMMA PensExist ==
    ASSUME NEW c, NEW s, NEW style, NEW allowBreaks, NEW n \in Nat
    PROVE  \E f : Pens(f, c, s, style, allowBreaks, n)
<1> DEFINE T == {k \in Nat : \E f : Pens(f, c, s, style, allowBreaks, k)}
           first == Pen(c, style \in {"literal", "folded"})
<1>1. 0 \in T
  <2> DEFINE f == [i \in 0 .. 0 |-> first]
  <2>1. Pens(f, c, s, style, allowBreaks, 0)
    BY DEF Pens
  <2> QED BY <2>1
<1>2. ASSUME NEW k \in T PROVE k + 1 \in T
  <2>1. PICK f : Pens(f, c, s, style, allowBreaks, k)
    OBVIOUS
  <2> HIDE DEF first
  <2> DEFINE g == [i \in 0 .. k + 1 |-> IF i \in 0 .. k THEN f[i]
                                        ELSE Stroke(f[k], s, i, style, allowBreaks)]
  <2>2. ASSUME NEW i \in 0 .. k + 1
        PROVE  g[i] = IF i = 0 THEN first ELSE Stroke(g[i - 1], s, i, style, allowBreaks)
    <3>1. CASE i = 0
      BY <2>1, <3>1 DEF Pens, first
    <3>2. CASE i \in 0 .. k /\ i # 0
      <4>1. i - 1 \in 0 .. k /\ i - 1 \in 0 .. k + 1
        BY <3>2
      <4>2. g[i] = f[i] /\ g[i - 1] = f[i - 1]
        BY <3>2, <4>1
      <4>3. f[i] = Stroke(f[i - 1], s, i, style, allowBreaks)
        BY <2>1, <3>2 DEF Pens
      <4> QED BY <3>2, <4>2, <4>3
    <3>3. CASE i \notin 0 .. k
      <4>1. i - 1 = k /\ k \in 0 .. k /\ k \in 0 .. k + 1 /\ i # 0
        BY <3>3
      <4>2. g[i] = Stroke(f[k], s, i, style, allowBreaks) /\ g[k] = f[k]
        BY <3>3, <4>1
      <4> QED BY <4>1, <4>2
    <3> QED BY <3>1, <3>2, <3>3
  <2>3. g = [i \in 0 .. k + 1 |-> g[i]]
    OBVIOUS
  <2> HIDE DEF g
  <2>4. Pens(g, c, s, style, allowBreaks, k + 1)
    BY <2>2, <2>3 DEF Pens, first
  <2> QED BY <2>4
<1>3. T = Nat
  <2> HIDE DEF T
  <2>1. T \in SUBSET Nat
    BY DEF T
  <2> QED BY <1>1, <1>2, <2>1, SetInduction
<1> QED BY <1>3

LEMMA PensDraw ==
    ASSUME NEW c, Sound(c), c.ok, NEW s, NEW style \in ScalarStyles, NEW allowBreaks,
           NEW n \in Nat, NEW f, Pens(f, c, s, style, allowBreaks, n)
    PROVE  Drawing(c, f[n])
<1> DEFINE T == {k \in Nat : k <= n => Drawing(c, f[k])}
<1>1. 0 \in T
  <2>1. f[0] = Pen(c, style \in {"literal", "folded"})
    BY DEF Pens
  <2>2. ASSUME NEW breaks PROVE Drawing(c, Pen(c, breaks))
    <3> SUFFICES ASSUME NEW p, p = [c |-> c, spaces |-> FALSE, breaks |-> breaks,
                                    leadingSpaces |-> TRUE]
                 PROVE  Drawing(c, p)
      BY Zenon DEF Pen
    <3>1. IsPen(p) /\ p.c = c
      BY Zenon DEF IsPen
    <3> QED BY <3>1, DrawnSelf DEF Drawing
  <2> QED BY <2>1, <2>2
<1>2. ASSUME NEW k \in T PROVE k + 1 \in T
  <2> SUFFICES ASSUME k + 1 <= n PROVE Drawing(c, f[k + 1])
    OBVIOUS
  <2>1. f[k + 1] = Stroke(f[k], s, k + 1, style, allowBreaks)
    <3>1. k + 1 \in 0 .. n /\ k + 1 # 0 /\ k + 1 - 1 = k
      OBVIOUS
    <3> QED BY <3>1 DEF Pens
  <2>2. Drawing(c, f[k])
    OBVIOUS
  <2> QED BY <2>1, <2>2, StrokeDraws
<1>3. T = Nat
  <2> HIDE DEF T
  <2>1. T \in SUBSET Nat
    BY DEF T
  <2> QED BY <1>1, <1>2, <2>1, SetInduction
<1> QED BY <1>3

LEMMA WriteCharactersDraws ==
    ASSUME NEW c, Sound(c), NEW s, Len(s) \in Nat, NEW style \in ScalarStyles, NEW allowBreaks
    PROVE  Drawn(c, WriteCharacters(c, s, style, allowBreaks))
<1> DEFINE n == Len(s)
           f == CHOOSE f : Pens(f, c, s, style, allowBreaks, n)
<1>1. CASE ~c.ok
  BY <1>1, DrawnSelf, Zenon DEF WriteCharacters, Then
<1>2. CASE c.ok
  <2>1. WriteCharacters(c, s, style, allowBreaks) = f[n].c
    BY <1>2 DEF WriteCharacters, Then, Pens
  <2>2. Pens(f, c, s, style, allowBreaks, n)
    <3> HIDE DEF n
    <3>1. n \in Nat
      BY DEF n
    <3> QED BY <3>1, PensExist
  <2> HIDE DEF f, n
  <2>3. n \in Nat
    BY DEF n
  <2>4. Drawing(c, f[n])
    BY <1>2, <2>2, <2>3, PensDraw
  <2> QED BY <2>1, <2>4 DEF Drawing
<1> QED BY <1>1, <1>2

LEMMA BeginQuotedKeeps ==
    ASSUME NEW c, Sound(c), NEW ch
    PROVE  Kept(c, BeginQuoted(c, ch))
<1> DEFINE w == Write(c, "scalar", <<>>, <<ch>>)
           v == Indicated(w, FALSE, FALSE)
<1>1. Kept(c, w)
  BY WriteKeeps
<1>2. Kept(w, v)
  <2>1. Sound(w)
    BY <1>1 DEF Kept
  <2> HIDE DEF w
  <2> QED BY <2>1, IndicatedDraws DEF Drawn
<1>3. BeginQuoted(c, ch) = v
  BY Zenon DEF BeginQuoted
<1> HIDE DEF w, v
<1> QED BY <1>1, <1>2, <1>3, KeptOn

LEMMA BlockHintsHaveLength ==
    ASSUME NEW s
    PROVE  Len(BlockHints(s)) \in Nat
<1> DEFINE S == {48 + BestIndent, Dash, Plus}
           n == Len(s)
           indent == IF IsSpace(s[1]) \/ IsBreak(s[1]) THEN <<48 + BestIndent>> ELSE <<>>
           chomp == CASE ~IsBreak(s[n]) -> <<Dash>>
                      [] IsBreak(s[n]) /\ (n = 1 \/ IsBreak(s[n - 1])) -> <<Plus>>
                      [] OTHER -> <<>>
<1>1. indent = <<48 + BestIndent>> \/ indent = <<>>
  OBVIOUS
<1>2. chomp = <<Dash>> \/ chomp = <<Plus>> \/ chomp = <<>>
  BY Zenon
<1>3. BlockHints(s) = indent \o chomp
  BY Zenon DEF BlockHints
<1> HIDE DEF indent, chomp
<1>4. <<48 + BestIndent>> \in Seq(S) /\ <<Dash>> \in Seq(S) /\ <<Plus>> \in Seq(S)
  OBVIOUS
<1> HIDE DEF S
<1>5. indent \in Seq(S) /\ chomp \in Seq(S)
  BY <1>1, <1>2, <1>4, EmptySeq
<1>6. indent \o chomp \in Seq(S)
  BY <1>5, ConcatProperties
<1> QED BY <1>3, <1>6, LenProperties

LEMMA BeginBlockKeeps ==
    ASSUME NEW c, Sound(c), NEW ch, NEW s
    PROVE  Kept(c, BeginBlock(c, ch, s))
<1> DEFINE d == BeginQuoted(c, ch)
           w == PutAll(d, BlockHints(s))
           v == PutBreak(w)
           u == Then(v, LAMBDA r : [r EXCEPT !.indention = TRUE, !.whitespace = TRUE])
<1>1. Kept(c, d)
  BY BeginQuotedKeeps
<1> HIDE DEF d
<1>2. Kept(d, w)
  BY <1>1, BlockHintsHaveLength, PutAllDraws DEF Kept, Drawn
<1> HIDE DEF w
<1>3. Kept(w, v)
  BY <1>2, WriteBreakDraws DEF Kept, Drawn, PutBreak
<1> HIDE DEF v
<1>4. Kept(v, u)
  <2>1. Sound(v)
    BY <1>3 DEF Kept
  <2>2. CASE v.ok
    <3>1. u = [v EXCEPT !.indention = TRUE, !.whitespace = TRUE]
      BY <2>2, Zenon DEF Then
    <3> HIDE DEF u
    <3>2. Drawn(v, u)
      BY <2>1, <2>2, <3>1, MarksDraw, Zenon
    <3> QED BY <3>2 DEF Drawn
  <2>3. CASE ~v.ok
    BY <2>1, <2>3, KeptSelf, Zenon DEF Then
  <2> QED BY <2>2, <2>3
<1>5. BeginBlock(c, ch, s) = u
  BY Zenon DEF BeginBlock, d, w, v
<1> HIDE DEF u
<1> QED BY <1>1, <1>2, <1>3, <1>4, <1>5, KeptOn

LEMMA BeginScalarKeeps ==
    ASSUME NEW c, Sound(c), NEW s, NEW style \in ScalarStyles
    PROVE  Kept(c, BeginScalar(c, s, style))
<1>1. CASE style = "plain"
  <2>1. Kept(c, Write(c, "scalar", <<>>, <<>>)) /\ Kept(c, c)
    BY EmptySeq, WriteKeeps, KeptSelf
  <2>2. BeginScalar(c, s, style) = BeginPlain(c, s)
    BY <1>1 DEF BeginScalar
  <2> QED BY <2>1, <2>2 DEF BeginPlain
<1>2. CASE style \in {"single-quoted", "double-quoted"}
  <2>1. BeginScalar(c, s, style) = BeginQuoted(c, IndicatorOf(style))
    BY <1>2 DEF BeginScalar
  <2> QED BY <2>1, BeginQuotedKeeps
<1>3. CASE style \in {"literal", "folded"}
  <2>1. BeginScalar(c, s, style) = BeginBlock(c, IndicatorOf(style), s)
    BY <1>3 DEF BeginScalar
  <2> QED BY <2>1, BeginBlockKeeps
<1> QED BY <1>1, <1>2, <1>3 DEF ScalarStyles

LEMMA EndScalarDraws ==
    ASSUME NEW c, Sound(c), NEW style \in ScalarStyles
    PROVE  Drawn(c, EndScalar(c, style))
<1>1. CASE style = "plain"
  <2> DEFINE ended == c.openEnded \/ c.rootContext
             u == [c EXCEPT !.whitespace = FALSE, !.indention = FALSE, !.openEnded = ended]
             t == EndScalar(c, style)
  <2>1. t = EndPlain(c)
    BY <1>1 DEF EndScalar
  <2>2. t = IF c.ok THEN u ELSE c
    BY <2>1, Zenon DEF EndPlain, Then
  <2> HIDE DEF ended, t
  <2>3. CASE c.ok
    <3>1. t = u
      BY <2>2, <2>3
    <3> HIDE DEF u
    <3>2. Drawn(c, u)
      BY <2>3, MarksDraw, Zenon DEF u
    <3> QED BY <3>1, <3>2 DEF t
  <2>4. CASE ~c.ok
    <3>1. t = c
      BY <2>2, <2>4
    <3> QED BY <3>1, DrawnSelf DEF t
  <2> QED BY <2>3, <2>4
<1>2. CASE style \in {"single-quoted", "double-quoted"}
  <2> DEFINE v == Put(c, IndicatorOf(style))
             u == Indicated(v, FALSE, FALSE)
  <2>1. EndScalar(c, style) = u
    BY <1>2 DEF EndScalar, EndQuoted
  <2>2. Drawn(c, v)
    BY PutDraws
  <2> HIDE DEF v
  <2>3. Drawn(v, u)
    BY <2>2, DrawnIsSound, IndicatedDraws
  <2> HIDE DEF u
  <2> QED BY <2>1, <2>2, <2>3, DrawnOn
<1>3. CASE style \in {"literal", "folded"}
  <2>1. EndScalar(c, style) = c
    BY <1>3 DEF EndScalar
  <2> QED BY <2>1, DrawnSelf
<1> QED BY <1>1, <1>2, <1>3 DEF ScalarStyles

LEMMA WriteScalarKeeps ==
    ASSUME NEW c, Sound(c), NEW s, Len(s) \in Nat, NEW style \in ScalarStyles, NEW allowBreaks
    PROVE  Kept(c, WriteScalar(c, s, style, allowBreaks))
<1> DEFINE d == Space(c, TRUE)
           w == BeginScalar(d, s, style)
           v == WriteCharacters(w, s, style, allowBreaks)
           u == EndScalar(v, style)
<1>1. Kept(c, d)
  BY SpaceDraws DEF Drawn
<1> HIDE DEF d
<1>2. Kept(d, w)
  BY <1>1, BeginScalarKeeps DEF Kept
<1> HIDE DEF w
<1>3. Kept(w, v)
  BY <1>2, WriteCharactersDraws DEF Kept, Drawn
<1> HIDE DEF v
<1>4. Kept(v, u)
  <2>1. Sound(v)
    BY <1>3 DEF Kept
  <2> QED BY <2>1, EndScalarDraws DEF Drawn
<1>5. WriteScalar(c, s, style, allowBreaks) = u
  BY Zenon DEF WriteScalar, d, w, v
<1> HIDE DEF u
<1> QED BY <1>1, <1>2, <1>3, <1>4, <1>5, KeptOn

-----------------------------------------------------------------------------
(***************************************************************************)
(* Stacks.                                                                 *)
(***************************************************************************)
Level == {i \in Int : i >= -1}

Typed(c) ==
    /\ c.state \in State /\ c.states \in Seq(State)
    /\ c.indent \in Level /\ c.indents \in Seq(Level)
    /\ c.flowLevel \in Nat
    /\ c.tagDirectives \in Seq(Directive)
    /\ c.events \in Seq(Event)
    /\ c.error \in {"none", "emitter", "writer"}

Well(c) == Sound(c) /\ Typed(c)

(* A step of a handler: it goes on, or the writing has failed. *)
Went(c, d) ==
    /\ Well(d)
    /\ d.events = c.events /\ d.canonical = c.canonical /\ d.tagDirectives = c.tagDirectives
    /\ ~c.ok => d = c
    /\ d.ok => c.ok /\ d.error = c.error
    /\ c.ok /\ ~d.ok => d.error = "writer"

SameStates(c, d) == d.state = c.state /\ d.states = c.states

SameLevels(c, d) == d.indent = c.indent /\ d.indents = c.indents /\ d.flowLevel = c.flowLevel

LEMMA KeptGoes ==
    ASSUME NEW c, Well(c), NEW d, Kept(c, d)
    PROVE  Went(c, d) /\ SameStates(c, d) /\ SameLevels(c, d)
<1>1. d.error \in {"none", "emitter", "writer"}
  BY DEF Kept, Well, Typed
<1> QED BY <1>1 DEF Kept, SamePlace, Well, Typed, Went, SameStates, SameLevels

LEMMA WentOn ==
    ASSUME NEW c, NEW d, NEW w, Went(c, d), Went(d, w)
    PROVE  Went(c, w)
BY DEF Went

LEMMA WentSelf ==
    ASSUME NEW c, Well(c)
    PROVE  Went(c, c) /\ SameStates(c, c) /\ SameLevels(c, c)
BY DEF Went, SameStates, SameLevels

(* A step that changes the stacks and cannot fail. *)
SameRest(c, d) ==
    /\ d.events = c.events /\ d.canonical = c.canonical /\ d.tagDirectives = c.tagDirectives
    /\ d.column = c.column /\ d.line = c.line /\ d.ok = c.ok /\ d.error = c.error

LEMMA StackStepGoes ==
    ASSUME NEW c, Well(c), c.ok, NEW d, IsEmitter(d), SameRest(c, d),
           d.state \in State, d.states \in Seq(State),
           d.indent \in Level, d.indents \in Seq(Level), d.flowLevel \in Nat
    PROVE  Went(c, d)
<1>1. Sound(d)
  BY DEF Well, Sound, SameRest, Level
<1>2. Typed(d)
  BY DEF Well, Typed, SameRest
<1> QED BY <1>1, <1>2 DEF Went, Well, SameRest

LEMMA GoToGoes ==
    ASSUME NEW c, Well(c), NEW state \in State, NEW d, d = GoTo(c, state)
    PROVE  /\ Went(c, d) /\ SameLevels(c, d)
           /\ d.ok => d.state = state /\ d.states = c.states
<1>1. CASE ~c.ok
  <2>1. d = c
    BY <1>1, Zenon DEF GoTo, Then
  <2> QED BY <1>1, <2>1, WentSelf
<1>2. CASE c.ok
  <2>1. d = [c EXCEPT !.state = state]
    BY <1>2, Zenon DEF GoTo, Then
  <2>2. IsEmitter(d) /\ SameRest(c, d) /\ d.state = state /\ d.states = c.states /\ SameLevels(c, d)
    BY <2>1, ZenonT(40) DEF Well, Sound, IsEmitter, SameRest, SameLevels
  <2>3. Typed(c)
    BY DEF Well
  <2>4. /\ d.state \in State /\ d.states \in Seq(State)
        /\ d.indent \in Level /\ d.indents \in Seq(Level) /\ d.flowLevel \in Nat
    BY <2>2, <2>3, Zenon DEF Typed, SameLevels
  <2> QED BY <1>2, <2>2, <2>4, StackStepGoes, Zenon
<1> QED BY <1>1, <1>2

LEMMA PushStateGoes ==
    ASSUME NEW c, Well(c), NEW state \in State, NEW d, d = PushState(c, state)
    PROVE  /\ Went(c, d) /\ SameLevels(c, d)
           /\ d.ok => d.states = Append(c.states, state)
<1>1. CASE ~c.ok
  <2>1. d = c
    BY <1>1, Zenon DEF PushState, Then
  <2> QED BY <1>1, <2>1, WentSelf
<1>2. CASE c.ok
  <2>1. d = [c EXCEPT !.states = Append(c.states, state)]
    BY <1>2, Zenon DEF PushState, Then
  <2>2. /\ IsEmitter(d) /\ SameRest(c, d) /\ d.state = c.state
        /\ d.states = Append(c.states, state) /\ SameLevels(c, d)
    BY <2>1, ZenonT(40) DEF Well, Sound, IsEmitter, SameRest, SameLevels
  <2>3. Typed(c)
    BY DEF Well
  <2>4. Append(c.states, state) \in Seq(State)
    BY <2>3, AppendProperties DEF Typed
  <2>5. /\ d.state \in State /\ d.states \in Seq(State)
        /\ d.indent \in Level /\ d.indents \in Seq(Level) /\ d.flowLevel \in Nat
    BY <2>2, <2>3, <2>4, Zenon DEF Typed, SameLevels
  <2> QED BY <1>2, <2>2, <2>5, StackStepGoes, Zenon
<1> QED BY <1>1, <1>2

LEMMA PopStateGoes ==
    ASSUME NEW c, Well(c), c.ok => c.states # <<>>, NEW d, d = PopState(c)
    PROVE  /\ Went(c, d) /\ SameLevels(c, d)
           /\ d.ok => d.state = Last(c.states) /\ d.states = Front(c.states)
<1>1. CASE ~c.ok
  <2>1. d = c
    BY <1>1, Zenon DEF PopState, Then
  <2> QED BY <1>1, <2>1, WentSelf
<1>2. CASE c.ok
  <2>1. d = [c EXCEPT !.state = Last(c.states), !.states = Front(c.states)]
    BY <1>2, Zenon DEF PopState, Then
  <2>2. /\ IsEmitter(d) /\ SameRest(c, d) /\ d.state = Last(c.states)
        /\ d.states = Front(c.states) /\ SameLevels(c, d)
    BY <2>1, ZenonT(40) DEF Well, Sound, IsEmitter, SameRest, SameLevels
  <2>3. Typed(c)
    BY DEF Well
  <2>4. Last(c.states) \in State /\ Front(c.states) \in Seq(State)
    BY <1>2, <2>3, FrontProperties DEF Typed
  <2>5. /\ d.state \in State /\ d.states \in Seq(State)
        /\ d.indent \in Level /\ d.indents \in Seq(Level) /\ d.flowLevel \in Nat
    BY <2>2, <2>3, <2>4, Zenon DEF Typed, SameLevels
  <2> QED BY <1>2, <2>2, <2>5, StackStepGoes, Zenon
<1> QED BY <1>1, <1>2

LEMMA IncreaseIndentGoes ==
    ASSUME NEW c, Well(c), NEW flow, NEW indentless, NEW d, d = IncreaseIndent(c, flow, indentless)
    PROVE  /\ Went(c, d) /\ SameStates(c, d) /\ d.flowLevel = c.flowLevel
           /\ d.ok => d.indents = Append(c.indents, c.indent)
<1>1. CASE ~c.ok
  <2>1. d = c
    BY <1>1, Zenon DEF IncreaseIndent, Then
  <2> QED BY <1>1, <2>1, WentSelf DEF SameLevels
<1>2. CASE c.ok
  <2> DEFINE indent == CASE c.indent < 0 -> IF flow THEN BestIndent ELSE 0
                         [] c.indent >= 0 /\ indentless -> c.indent
                         [] OTHER -> c.indent + BestIndent
  <2>1. d = [c EXCEPT !.indents = Append(c.indents, c.indent), !.indent = indent]
    BY <1>2, Zenon DEF IncreaseIndent, Then
  <2>2. Typed(c)
    BY DEF Well
  <2>3. indent \in Level
    <3>1. indent \in {BestIndent, 0, c.indent, c.indent + BestIndent}
      BY Zenon
    <3>2. c.indent \in Level
      BY <2>2 DEF Typed
    <3> HIDE DEF indent
    <3> QED BY <3>1, <3>2 DEF Level, BestIndent
  <2> HIDE DEF indent
  <2>4. /\ IsEmitter(d) /\ SameRest(c, d) /\ SameStates(c, d) /\ d.flowLevel = c.flowLevel
        /\ d.indents = Append(c.indents, c.indent) /\ d.indent = indent
    BY <2>1, ZenonT(40) DEF Well, Sound, IsEmitter, SameRest, SameStates
  <2>5. Append(c.indents, c.indent) \in Seq(Level)
    BY <2>2, AppendProperties DEF Typed
  <2>6. /\ d.state \in State /\ d.states \in Seq(State)
        /\ d.indent \in Level /\ d.indents \in Seq(Level) /\ d.flowLevel \in Nat
    BY <2>2, <2>3, <2>4, <2>5, Zenon DEF Typed, SameStates
  <2>7. Went(c, d)
    BY <1>2, <2>4, <2>6, StackStepGoes, Zenon
  <2> QED BY <2>4, <2>7
<1> QED BY <1>1, <1>2

LEMMA PopIndentGoes ==
    ASSUME NEW c, Well(c), c.ok => c.indents # <<>>, NEW d, d = PopIndent(c)
    PROVE  /\ Went(c, d) /\ SameStates(c, d) /\ d.flowLevel = c.flowLevel
           /\ d.ok => d.indent = Last(c.indents) /\ d.indents = Front(c.indents)
<1>1. CASE ~c.ok
  <2>1. d = c
    BY <1>1, Zenon DEF PopIndent, Then
  <2> QED BY <1>1, <2>1, WentSelf DEF SameLevels
<1>2. CASE c.ok
  <2>1. d = [c EXCEPT !.indent = Last(c.indents), !.indents = Front(c.indents)]
    BY <1>2, Zenon DEF PopIndent, Then
  <2>2. /\ IsEmitter(d) /\ SameRest(c, d) /\ SameStates(c, d) /\ d.flowLevel = c.flowLevel
        /\ d.indent = Last(c.indents) /\ d.indents = Front(c.indents)
    BY <2>1, ZenonT(40) DEF Well, Sound, IsEmitter, SameRest, SameStates
  <2>3. Typed(c)
    BY DEF Well
  <2>4. Last(c.indents) \in Level /\ Front(c.indents) \in Seq(Level)
    BY <1>2, <2>3, FrontProperties DEF Typed
  <2>5. /\ d.state \in State /\ d.states \in Seq(State)
        /\ d.indent \in Level /\ d.indents \in Seq(Level) /\ d.flowLevel \in Nat
    BY <2>2, <2>3, <2>4, Zenon DEF Typed, SameStates
  <2> QED BY <1>2, <2>2, <2>5, StackStepGoes, Zenon
<1> QED BY <1>1, <1>2

(* The flow level changes. *)
LEMMA FlowLevelGoes ==
    ASSUME NEW c, Well(c), c.ok, NEW level \in Nat, NEW d, d = [c EXCEPT !.flowLevel = level]
    PROVE  /\ Went(c, d) /\ SameStates(c, d) /\ d.ok
           /\ d.indent = c.indent /\ d.indents = c.indents /\ d.flowLevel = level
<1>1. /\ IsEmitter(d) /\ SameRest(c, d) /\ SameStates(c, d)
      /\ d.indent = c.indent /\ d.indents = c.indents /\ d.flowLevel = level
  BY ZenonT(40) DEF Well, Sound, IsEmitter, SameRest, SameStates
<1>2. Typed(c)
  BY DEF Well
<1>3. /\ d.state \in State /\ d.states \in Seq(State)
      /\ d.indent \in Level /\ d.indents \in Seq(Level) /\ d.flowLevel \in Nat
  BY <1>1, <1>2, Zenon DEF Typed, SameStates
<1>4. Went(c, d)
  BY <1>1, <1>3, StackStepGoes, Zenon
<1>5. d.ok
  BY <1>1, Zenon DEF SameRest
<1> QED BY <1>1, <1>4, <1>5, Zenon

(* What was pushed last is popped first. *)
LEMMA FrontOfAppend ==
    ASSUME NEW S, NEW s \in Seq(S), NEW x \in S
    PROVE  Last(Append(s, x)) = x /\ Front(Append(s, x)) = s /\ Append(s, x) # <<>>
<1> DEFINE t == Append(s, x)
<1>1. /\ t \in Seq(S) /\ Len(t) = Len(s) + 1 /\ t[Len(s) + 1] = x /\ Len(s) \in Nat
      /\ \A i \in 1 .. Len(s) : t[i] = s[i]
  BY AppendProperties, LenProperties
<1> HIDE DEF t
<1>2. t # <<>>
  BY <1>1, EmptySeq
<1>3. Last(t) = x
  BY <1>1 DEF Last
<1>4. /\ Front(t) \in Seq(S) /\ Len(Front(t)) = Len(t) - 1
      /\ \A i \in 1 .. Len(t) - 1 : Front(t)[i] = t[i]
  BY <1>1, <1>2, FrontProperties
<1>5. Len(t) - 1 = Len(s)
  BY <1>1
<1>6. Len(Front(t)) = Len(s) /\ \A i \in 1 .. Len(s) : Front(t)[i] = s[i]
  BY <1>1, <1>4, <1>5
<1>7. Front(t) = s
  BY <1>4, <1>6, SeqEqual
<1> QED BY <1>2, <1>3, <1>7 DEF t

-----------------------------------------------------------------------------
(***************************************************************************)
(* Nodes.                                                                  *)
(***************************************************************************)
LEMMA TightKeeps ==
    ASSUME NEW c, Sound(c), NEW what \in Indicator
    PROVE  Kept(c, Tight(c, what)) /\ Kept(c, Apart(c, what))
BY WriteIndicatorKeeps DEF Tight, Apart

LEMMA ProcessAnchorKeeps ==
    ASSUME NEW c, Sound(c), NEW e
    PROVE  Kept(c, ProcessAnchor(c, e))
<1>1. CASE e.anchor = NoAnchor
  BY <1>1, KeptSelf DEF ProcessAnchor
<1>2. CASE e.anchor # NoAnchor
  <2> DEFINE what == IF e.type = "ALIAS" THEN "*" ELSE "&"
  <2>1. what \in Indicator
    BY DEF Indicator
  <2>2. ProcessAnchor(c, e) = WriteIndicator(c, what, <<e.anchor>>, TRUE, FALSE, FALSE)
    BY <1>2, Zenon DEF ProcessAnchor
  <2> HIDE DEF what
  <2> QED BY <2>1, <2>2, WriteIndicatorKeeps
<1> QED BY <1>1, <1>2

LEMMA WriteTagKeeps ==
    ASSUME NEW c, Sound(c), NEW handle, NEW prefix
    PROVE  Kept(c, WriteTag(c, handle, prefix))
<1>1. CASE handle = <<>>
  <2> DEFINE d == WriteIndicator(c, "!<", <<prefix>>, TRUE, FALSE, FALSE)
  <2>1. "!<" \in Indicator /\ ">" \in Indicator
    BY DEF Indicator
  <2>2. Kept(c, d)
    BY <2>1, WriteIndicatorKeeps
  <2> HIDE DEF d
  <2>3. Kept(d, Tight(d, ">"))
    BY <2>1, <2>2, TightKeeps DEF Kept
  <2>4. WriteTag(c, handle, prefix) = Tight(d, ">")
    BY <1>1, Zenon DEF WriteTag, d
  <2> QED BY <2>2, <2>3, <2>4, KeptOn
<1>2. CASE handle # <<>>
  <2> DEFINE d == Space(c, TRUE)
             w == Write(d, "tag", handle, Spelling("tag"))
             v == Then(w, LAMBDA u : [u EXCEPT !.whitespace = FALSE, !.indention = FALSE])
  <2>1. Kept(c, d)
    BY SpaceDraws DEF Drawn
  <2>2. Len(Spelling("tag")) \in Nat
    BY SpellingHasLength DEF Indicator
  <2> HIDE DEF d
  <2>3. Kept(d, w)
    BY <2>1, <2>2, WriteKeeps DEF Kept
  <2> HIDE DEF w
  <2>4. Kept(w, v)
    <3>1. Sound(w)
      BY <2>3 DEF Kept
    <3>2. CASE w.ok
      <4>1. v = [w EXCEPT !.whitespace = FALSE, !.indention = FALSE]
        BY <3>2, Zenon DEF Then
      <4> HIDE DEF v
      <4>2. Drawn(w, v)
        BY <3>1, <3>2, <4>1, MarksDraw, Zenon
      <4> QED BY <4>2 DEF Drawn
    <3>3. CASE ~w.ok
      BY <3>1, <3>3, KeptSelf, Zenon DEF Then
    <3> QED BY <3>2, <3>3
  <2>5. WriteTag(c, handle, prefix) = v
    BY <1>2, Zenon DEF WriteTag, d, w
  <2> HIDE DEF v
  <2> QED BY <2>1, <2>3, <2>4, <2>5, KeptOn
<1> QED BY <1>1, <1>2

LEMMA ProcessTagKeeps ==
    ASSUME NEW c, Sound(c), NEW e
    PROVE  Kept(c, ProcessTag(c, e))
BY WriteTagKeeps, KeptSelf DEF ProcessTag

LEMMA ProcessScalarKeeps ==
    ASSUME NEW c, Sound(c), NEW s, Len(s) \in Nat, NEW style \in ScalarStyles
    PROVE  Kept(c, ProcessScalar(c, s, style))
BY WriteScalarKeeps DEF ProcessScalar

LEMMA ScalarStyleKnown ==
    ASSUME NEW c, NEW e, e.style \in Style
    PROVE  ScalarStyle(c, e) \in ScalarStyles
<1> DEFINE s == e.text
           asked == IF e.style = "any" THEN "plain" ELSE e.style
           forced == IF c.canonical \/ (c.simpleKeyContext /\ Multiline(s))
                     THEN "double-quoted" ELSE asked
           plainAllowed == IF c.flowLevel > 0 THEN FlowPlainAllowed(s, c.unicode)
                                               ELSE BlockPlainAllowed(s, c.unicode)
           plain == IF /\ forced = "plain"
                       /\ \/ ~plainAllowed
                          \/ s = <<>> /\ (c.flowLevel > 0 \/ c.simpleKeyContext)
                          \/ ~TagWritten(c, e) /\ ~e.plainImplicit
                    THEN "single-quoted" ELSE forced
           quoted == IF plain = "single-quoted" /\ ~SingleQuotedAllowed(s, c.unicode)
                     THEN "double-quoted" ELSE plain
<1>1. asked \in ScalarStyles
  BY DEF Style, ScalarStyles
<1>2. forced \in {"double-quoted", asked}
  BY Zenon
<1>3. plain \in {"single-quoted", forced}
  BY Zenon
<1>4. quoted \in {"double-quoted", plain}
  BY Zenon
<1>5. ScalarStyle(c, e) \in {"double-quoted", quoted}
  BY Zenon DEF ScalarStyle
<1> HIDE DEF asked, forced, plain, quoted
<1> QED BY <1>1, <1>2, <1>3, <1>4, <1>5 DEF ScalarStyles

LEMMA ScalarEventTyped ==
    ASSUME NEW e \in ScalarEvent
    PROVE  /\ e.type = "SCALAR" /\ e.style \in Style /\ Len(e.text) \in Nat
           /\ e.tag # NoTag \/ e.plainImplicit \/ e.quotedImplicit
           /\ e.plainImplicit \in BOOLEAN /\ e.quotedImplicit \in BOOLEAN
<1>1. e.text \in Seq(Nat)
  BY DEF ScalarEvent
<1>2. Len(e.text) \in Nat
  BY <1>1, LenProperties
<1> QED BY <1>2 DEF ScalarEvent

(* Whether an event is refused does not depend on where the emitter is.    *)
LEMMA ScalarsHaveTags ==
    ASSUME NEW e \in ScalarEvent, NEW c
    PROVE  ~(~TagWritten(c, e) /\ ~e.plainImplicit /\ ~e.quotedImplicit)
BY ScalarEventTyped DEF TagWritten

LEMMA EmitScalarGoes ==
    ASSUME NEW c, Well(c), c.ok => c.states # <<>>, NEW e \in ScalarEvent,
           NEW d, d = EmitScalar(c, e)
    PROVE  /\ Went(c, d)
           /\ d.ok => /\ SameLevels(c, d)
                      /\ d.state = Last(c.states) /\ d.states = Front(c.states)
<1> DEFINE style == ScalarStyle(c, e)
           anchored == ProcessAnchor(c, e)
           tagged == IF ~TagWritten(c, e) /\ ~e.quotedImplicit /\ style # "plain"
                     THEN WriteTag(anchored, <<"!">>, NoTag) ELSE ProcessTag(anchored, e)
           inner == IncreaseIndent(tagged, TRUE, FALSE)
           written == ProcessScalar(inner, e.text, style)
           outer == PopIndent(written)
<1>1. d = PopState(outer)
  <2>1. ~(~TagWritten(c, e) /\ ~e.plainImplicit /\ ~e.quotedImplicit)
    BY ScalarsHaveTags
  <2> QED BY <2>1, Zenon DEF EmitScalar
<1>2. style \in ScalarStyles /\ Len(e.text) \in Nat
  BY ScalarEventTyped, ScalarStyleKnown
<1>3. Kept(c, anchored)
  BY ProcessAnchorKeeps DEF Well
<1> HIDE DEF anchored, style
<1>4. Kept(anchored, tagged)
  BY <1>3, WriteTagKeeps, ProcessTagKeeps DEF Kept
<1>5. Went(c, tagged) /\ SameStates(c, tagged) /\ SameLevels(c, tagged)
  <2>1. Kept(c, tagged)
    BY <1>3, <1>4, KeptOn
  <2> HIDE DEF tagged
  <2> QED BY <2>1, KeptGoes
<1> HIDE DEF tagged
<1>6. /\ Went(tagged, inner) /\ SameStates(tagged, inner) /\ inner.flowLevel = tagged.flowLevel
      /\ inner.ok => inner.indents = Append(tagged.indents, tagged.indent)
  <2>1. Well(tagged)
    BY <1>5 DEF Went
  <2> QED BY <2>1, IncreaseIndentGoes
<1> HIDE DEF inner
<1>7. Went(inner, written) /\ SameStates(inner, written) /\ SameLevels(inner, written)
  <2>1. Well(inner) /\ Sound(inner)
    BY <1>6 DEF Went, Well
  <2>2. Kept(inner, written)
    BY <1>2, <2>1, ProcessScalarKeeps
  <2> HIDE DEF written
  <2> QED BY <2>1, <2>2, KeptGoes
<1> HIDE DEF written
<1>8. c.indents \in Seq(Level) /\ c.indent \in Level
  BY DEF Well, Typed
<1>9. written.ok => /\ inner.ok /\ tagged.ok /\ c.ok
                    /\ written.indents = Append(c.indents, c.indent)
                    /\ written.states = c.states /\ written.flowLevel = c.flowLevel
  BY <1>5, <1>6, <1>7 DEF Went, SameStates, SameLevels
<1>10. /\ Last(Append(c.indents, c.indent)) = c.indent
       /\ Front(Append(c.indents, c.indent)) = c.indents
       /\ Append(c.indents, c.indent) # <<>>
  BY <1>8, FrontOfAppend
<1>11. /\ Went(written, outer) /\ SameStates(written, outer) /\ outer.flowLevel = written.flowLevel
       /\ outer.ok => outer.indent = Last(written.indents) /\ outer.indents = Front(written.indents)
  <2>1. Well(written)
    BY <1>7 DEF Went
  <2>2. written.ok => written.indents # <<>>
    BY <1>9, <1>10
  <2> QED BY <2>1, <2>2, PopIndentGoes
<1> HIDE DEF outer
<1>12. outer.ok => /\ written.ok /\ SameLevels(c, outer) /\ outer.states = c.states
  BY <1>9, <1>10, <1>11 DEF Went, SameStates, SameLevels
<1>13. /\ Went(outer, d) /\ SameLevels(outer, d)
       /\ d.ok => d.state = Last(outer.states) /\ d.states = Front(outer.states)
  <2>1. Well(outer)
    BY <1>11 DEF Went
  <2>2. outer.ok => outer.states # <<>>
    BY <1>9, <1>12
  <2> QED BY <1>1, <2>1, <2>2, PopStateGoes
<1>14. Went(c, d)
  BY <1>5, <1>6, <1>7, <1>11, <1>13, WentOn
<1>15. d.ok => outer.ok
  BY <1>13 DEF Went
<1> QED BY <1>12, <1>13, <1>14, <1>15 DEF SameLevels

NodeEvent == AliasEvent \cup ScalarEvent \cup CollectionEvent

FirstStates(type) == IF type = "SEQUENCE-START"
                     THEN {"FLOW-SEQUENCE-FIRST-ITEM", "BLOCK-SEQUENCE-FIRST-ITEM"}
                     ELSE {"FLOW-MAPPING-FIRST-KEY", "BLOCK-MAPPING-FIRST-KEY"}

LEMMA EmitCollectionStartGoes ==
    ASSUME NEW c, Well(c), NEW e, NEW empty, NEW flowState \in State, NEW blockState \in State,
           NEW d, d = EmitCollectionStart(c, e, empty, flowState, blockState)
    PROVE  /\ Went(c, d)
           /\ d.ok => /\ SameLevels(c, d) /\ d.states = c.states
                      /\ d.state \in {flowState, blockState}
<1> DEFINE anchored == ProcessAnchor(c, e)
           tagged == ProcessTag(anchored, e)
           state == IF c.flowLevel > 0 \/ c.canonical \/ e.flow \/ empty
                    THEN flowState ELSE blockState
<1>1. Kept(c, anchored)
  BY ProcessAnchorKeeps DEF Well
<1> HIDE DEF anchored
<1>2. Kept(anchored, tagged)
  BY <1>1, ProcessTagKeeps DEF Kept
<1> HIDE DEF tagged
<1>3. Went(c, tagged) /\ SameStates(c, tagged) /\ SameLevels(c, tagged)
  BY <1>1, <1>2, KeptOn, KeptGoes
<1>4. d = GoTo(tagged, state)
  BY Zenon DEF EmitCollectionStart, tagged, anchored
<1>5. state \in {flowState, blockState}
  BY Zenon
<1> HIDE DEF state
<1>6. /\ Went(tagged, d) /\ SameLevels(tagged, d)
      /\ d.ok => d.state = state /\ d.states = tagged.states
  <2>1. Well(tagged) /\ state \in State
    BY <1>3, <1>5 DEF Went
  <2> QED BY <1>4, <2>1, GoToGoes
<1> QED BY <1>3, <1>5, <1>6, WentOn DEF SameStates, SameLevels

LEMMA EmitNodeGoes ==
    ASSUME NEW c, Well(c), c.ok => c.states # <<>>, NEW e \in NodeEvent, e = Head(c.events),
           NEW root, NEW mapping, NEW simpleKey,
           NEW d, d = EmitNode(c, root, mapping, simpleKey)
    PROVE  /\ Went(c, d)
           /\ d.ok => /\ SameLevels(c, d)
                      /\ IF e.type \in {"ALIAS", "SCALAR"}
                         THEN d.state = Last(c.states) /\ d.states = Front(c.states)
                         ELSE d.state \in FirstStates(e.type) /\ d.states = c.states
<1> DEFINE w == Then(c, LAMBDA v : [v EXCEPT !.rootContext = root, !.mappingContext = mapping,
                                             !.simpleKeyContext = simpleKey])
<1>1. Kept(c, w)
  <2>1. CASE ~c.ok
    BY <2>1, KeptSelf DEF Then, Well
  <2>2. CASE c.ok
    <3> SUFFICES ASSUME NEW u, u = [c EXCEPT !.rootContext = root, !.mappingContext = mapping,
                                             !.simpleKeyContext = simpleKey]
                 PROVE  Kept(c, u)
      BY <2>2, Zenon DEF Then
    <3>1. /\ IsEmitter(u) /\ SamePlace(c, u) /\ SameOutcome(c, u)
          /\ u.column = c.column /\ u.line = c.line
      BY ZenonT(40) DEF Well, Sound, IsEmitter, SamePlace, SameOutcome
    <3>2. Drawn(c, u)
      BY <2>2, <3>1, PageStepDraws, Zenon DEF Sound, Well
    <3> QED BY <3>2 DEF Drawn
  <2> QED BY <2>1, <2>2
<1> HIDE DEF w
<1>2. Went(c, w) /\ SameStates(c, w) /\ SameLevels(c, w) /\ Well(w) /\ (w.ok => w.states # <<>>)
  <2>1. Went(c, w) /\ SameStates(c, w) /\ SameLevels(c, w)
    BY <1>1, KeptGoes
  <2> QED BY <2>1 DEF Went, SameStates
<1>3. CASE e \in AliasEvent
  <2> DEFINE v == ProcessAnchor(w, e)
  <2>1. e.type = "ALIAS"
    BY <1>3 DEF AliasEvent
  <2>2. d = PopState(v)
    BY <2>1, Zenon DEF EmitNode, w
  <2>3. Went(w, v) /\ SameStates(w, v) /\ SameLevels(w, v)
    <3>1. Kept(w, v)
      BY <1>2, ProcessAnchorKeeps DEF Well
    <3> HIDE DEF v
    <3> QED BY <1>2, <3>1, KeptGoes
  <2> HIDE DEF v
  <2>4. Well(v) /\ (v.ok => v.states # <<>>)
    BY <1>2, <2>3 DEF Went, SameStates
  <2>5. /\ Went(v, d) /\ SameLevels(v, d)
        /\ d.ok => d.state = Last(v.states) /\ d.states = Front(v.states)
    BY <2>2, <2>4, PopStateGoes
  <2>6. Went(c, d)
    BY <1>2, <2>3, <2>5, WentOn
  <2> QED BY <1>2, <2>1, <2>3, <2>5, <2>6 DEF SameStates, SameLevels
<1>4. CASE e \in ScalarEvent
  <2>1. e.type = "SCALAR"
    BY <1>4, ScalarEventTyped
  <2>2. d = EmitScalar(w, e)
    BY <2>1, Zenon DEF EmitNode, w
  <2>3. /\ Went(w, d)
        /\ d.ok => /\ SameLevels(w, d)
                   /\ d.state = Last(w.states) /\ d.states = Front(w.states)
    BY <1>2, <1>4, <2>2, EmitScalarGoes
  <2>4. Went(c, d)
    BY <1>2, <2>3, WentOn
  <2> QED BY <1>2, <2>1, <2>3, <2>4 DEF SameStates, SameLevels
<1>5. CASE e \in CollectionEvent /\ e.type = "SEQUENCE-START"
  <2> DEFINE empty == CheckEmptySequence(w)
  <2>1. d = EmitCollectionStart(w, e, empty, "FLOW-SEQUENCE-FIRST-ITEM",
                                "BLOCK-SEQUENCE-FIRST-ITEM")
    BY <1>5, Zenon DEF EmitNode, w
  <2> HIDE DEF empty
  <2>2. "FLOW-SEQUENCE-FIRST-ITEM" \in State /\ "BLOCK-SEQUENCE-FIRST-ITEM" \in State
    BY DEF State
  <2>3. /\ Went(w, d)
        /\ d.ok => /\ SameLevels(w, d) /\ d.states = w.states
                   /\ d.state \in {"FLOW-SEQUENCE-FIRST-ITEM", "BLOCK-SEQUENCE-FIRST-ITEM"}
    BY <1>2, <2>1, <2>2, EmitCollectionStartGoes
  <2>4. Went(c, d)
    BY <1>2, <2>3, WentOn
  <2> QED BY <1>2, <1>5, <2>3, <2>4 DEF SameStates, SameLevels, FirstStates
<1>6. CASE e \in CollectionEvent /\ e.type # "SEQUENCE-START"
  <2> DEFINE empty == CheckEmptyMapping(w)
  <2>0. e.type = "MAPPING-START"
    BY <1>6 DEF CollectionEvent
  <2>1. d = EmitCollectionStart(w, e, empty, "FLOW-MAPPING-FIRST-KEY",
                                "BLOCK-MAPPING-FIRST-KEY")
    BY <2>0, Zenon DEF EmitNode, w
  <2> HIDE DEF empty
  <2>2. "FLOW-MAPPING-FIRST-KEY" \in State /\ "BLOCK-MAPPING-FIRST-KEY" \in State
    BY DEF State
  <2>3. /\ Went(w, d)
        /\ d.ok => /\ SameLevels(w, d) /\ d.states = w.states
                   /\ d.state \in {"FLOW-MAPPING-FIRST-KEY", "BLOCK-MAPPING-FIRST-KEY"}
    BY <1>2, <2>1, <2>2, EmitCollectionStartGoes
  <2>4. Went(c, d)
    BY <1>2, <2>3, WentOn
  <2> QED BY <1>2, <2>0, <2>3, <2>4 DEF SameStates, SameLevels, FirstStates
<1> QED BY <1>3, <1>4, <1>5, <1>6 DEF NodeEvent

-----------------------------------------------------------------------------
(***************************************************************************)
(* Where the stream of events is, and where the emitter is.                *)
(***************************************************************************)
NodeMoves(p, e, q) ==
    LET child == Stream!AfterChild(Last(p.open))
        advanced == Append(Front(p.open), child)
    IN  /\ p.phase = "stream" /\ p.open # <<>> /\ Last(p.open) # "docEnd"
        /\ q.phase = "stream"
        /\ q.open = CASE e.type \in {"ALIAS", "SCALAR"} -> advanced
                      [] e.type = "SEQUENCE-START" -> Append(advanced, "seq")
                      [] e.type = "MAPPING-START" -> Append(advanced, "key")

EndMoves(p, construct, q) ==
    /\ p.phase = "stream" /\ p.open # <<>> /\ Last(p.open) = construct
    /\ q.phase = "stream" /\ q.open = Front(p.open)

(* The event leads the stream from the position p to q. *)
Moves(p, e, q) ==
    \/ /\ e.type = "STREAM-START" /\ p.phase = "before"
       /\ q.phase = "stream" /\ q.open = p.open
    \/ /\ e.type = "STREAM-END" /\ p.phase = "stream" /\ p.open = <<>>
       /\ q.phase = "ended" /\ q.open = <<>>
    \/ /\ e.type = "DOCUMENT-START" /\ p.phase = "stream" /\ p.open = <<>>
       /\ q.phase = "stream" /\ q.open = <<"root">>
    \/ /\ e.type = "DOCUMENT-END" /\ p.phase = "stream" /\ p.open = <<"docEnd">>
       /\ q.phase = "stream" /\ q.open = <<>>
    \/ e.type \in NodeType /\ NodeMoves(p, e, q)
    \/ e.type = "SEQUENCE-END" /\ EndMoves(p, "seq", q)
    \/ e.type = "MAPPING-END" /\ EndMoves(p, "key", q)

(* A position the stream can be in. *)
Placed(p) ==
    /\ p.phase \in {"before", "stream", "ended"}
    /\ p.open \in Seq(Stream!Construct)
    /\ p.phase # "stream" => p.open = <<>>
    /\ p.open # <<>> => p.open[1] \in {"root", "docEnd"}

FlowStates == {"FLOW-SEQUENCE-ITEM", "FLOW-MAPPING-KEY", "FLOW-MAPPING-SIMPLE-VALUE",
               "FLOW-MAPPING-VALUE"}
BlockStates == {"BLOCK-SEQUENCE-ITEM", "BLOCK-MAPPING-KEY", "BLOCK-MAPPING-SIMPLE-VALUE",
                "BLOCK-MAPPING-VALUE"}

SequenceStates == {"FLOW-SEQUENCE-FIRST-ITEM", "FLOW-SEQUENCE-ITEM",
                   "BLOCK-SEQUENCE-FIRST-ITEM", "BLOCK-SEQUENCE-ITEM"}
KeyStates == {"FLOW-MAPPING-FIRST-KEY", "FLOW-MAPPING-KEY",
              "BLOCK-MAPPING-FIRST-KEY", "BLOCK-MAPPING-KEY"}
ValueStates == {"FLOW-MAPPING-SIMPLE-VALUE", "FLOW-MAPPING-VALUE",
                "BLOCK-MAPPING-SIMPLE-VALUE", "BLOCK-MAPPING-VALUE"}

Inner == {"DOCUMENT-CONTENT", "DOCUMENT-END"} \cup SequenceStates \cup KeyStates \cup ValueStates

(* The construct a state is in the middle of. *)
KindOf(s) == IF s = "DOCUMENT-CONTENT" THEN "root"
             ELSE IF s = "DOCUMENT-END" THEN "docEnd"
             ELSE IF s \in SequenceStates THEN "seq"
             ELSE IF s \in KeyStates THEN "key"
             ELSE "value"

ConstructOf == [s \in State |-> IF s \in Inner THEN <<KindOf(s)>> ELSE <<>>]

(* Behind its first item a collection has raised the flow level, and the   *)
(* indentation.                                                            *)
FlowMark == [s \in State |-> IF s \in FlowStates THEN <<"flow">> ELSE <<>>]
IndentMark == [s \in State |-> IF s \in FlowStates \cup BlockStates THEN <<"indent">> ELSE <<>>]

Opened(path) == Along(ConstructOf, path)
FlowDepth(path) == Len(Along(FlowMark, path))
IndentDepth(path) == Len(Along(IndentMark, path))

Path(c) == Append(c.states, c.state)

(* The indent under all that are on the stack. *)
Bottom(c) == Append(c.indents, c.indent)[1]

Levelled(c, path) ==
    /\ c.flowLevel = FlowDepth(path)
    /\ Len(c.indents) = IndentDepth(path)

(* The emitter has written what leads to p. *)
Mirrors(c, p) ==
    /\ c.states \in Seq(Inner)
    /\ p.open = Opened(Path(c))
    /\ p.phase = "before" <=> c.state = "STREAM-START"
    /\ p.phase = "ended" <=> c.state = "END"
    /\ c.state \notin Inner => c.states = <<>> /\ c.tagDirectives = <<>>
    /\ Levelled(c, Path(c))
    /\ p.phase # "before" => Bottom(c) = -1

(* The emitter will be in the state, when the node it writes is complete.  *)
Stage(c, state) ==
    /\ c.states \in Seq(Inner)
    /\ Levelled(c, Append(c.states, state))
    /\ Bottom(c) = -1

(* A handler has led the emitter to q. *)
Reaches(c, d, q) == Went(c, d) /\ (d.ok => Mirrors(d, q))

-----------------------------------------------------------------------------
(***************************************************************************)
(* Paths of states.                                                        *)
(***************************************************************************)
LEMMA InnerStates ==
    /\ Inner \subseteq State /\ FlowStates \subseteq Inner /\ BlockStates \subseteq Inner
    /\ FlowStates \cap BlockStates = {}
    /\ \A s \in Inner : KindOf(s) \in Stream!Construct
BY DEF Inner, State, FlowStates, BlockStates, SequenceStates, KeyStates, ValueStates,
       KindOf, Stream!Construct

LEMMA MarkMaps ==
    /\ FlowMark \in Meanings(State, {"flow"})
    /\ IndentMark \in Meanings(State, {"indent"})
    /\ ConstructOf \in Meanings(State, Stream!Construct)
<1>1. ASSUME NEW word
      PROVE  <<word>> \in Seq({word}) /\ <<>> \in Seq({word})
  OBVIOUS
<1>2. \A s \in State : FlowMark[s] \in Seq({"flow"})
  BY <1>1, Zenon DEF FlowMark
<1>3. \A s \in State : IndentMark[s] \in Seq({"indent"})
  BY <1>1, Zenon DEF IndentMark
<1>4. \A s \in State : ConstructOf[s] \in Seq(Stream!Construct)
  BY InnerStates DEF ConstructOf
<1> QED BY <1>2, <1>3, <1>4 DEF Meanings, FlowMark, IndentMark, ConstructOf

LEMMA PathGrows ==
    ASSUME NEW s \in Seq(State), NEW q \in State
    PROVE  /\ FlowDepth(s) \in Nat /\ IndentDepth(s) \in Nat
           /\ Opened(s) \in Seq(Stream!Construct)
           /\ FlowDepth(Append(s, q)) = FlowDepth(s) + IF q \in FlowStates THEN 1 ELSE 0
           /\ IndentDepth(Append(s, q))
                = IndentDepth(s) + IF q \in FlowStates \cup BlockStates THEN 1 ELSE 0
           /\ q \in Inner => Opened(Append(s, q)) = Append(Opened(s), KindOf(q))
           /\ q \notin Inner => Opened(Append(s, q)) = Opened(s)
<1>4. /\ Along(FlowMark, s) \in Seq({"flow"})
      /\ Along(FlowMark, Append(s, q)) = Along(FlowMark, s) \o FlowMark[q]
  BY MarkMaps, AlongProperties
<1>5. /\ Along(IndentMark, s) \in Seq({"indent"})
      /\ Along(IndentMark, Append(s, q)) = Along(IndentMark, s) \o IndentMark[q]
  BY MarkMaps, AlongProperties
<1>6. /\ Along(ConstructOf, s) \in Seq(Stream!Construct)
      /\ Along(ConstructOf, Append(s, q)) = Along(ConstructOf, s) \o ConstructOf[q]
  BY MarkMaps, AlongProperties
<1>7. FlowDepth(s) \in Nat /\ IndentDepth(s) \in Nat /\ Opened(s) \in Seq(Stream!Construct)
  BY <1>4, <1>5, <1>6, LenProperties DEF FlowDepth, IndentDepth, Opened
<1>8. FlowDepth(Append(s, q)) = FlowDepth(s) + IF q \in FlowStates THEN 1 ELSE 0
  <2>1. FlowMark[q] = IF q \in FlowStates THEN <<"flow">> ELSE <<>>
    BY DEF FlowMark
  <2> HIDE DEF FlowMark
  <2> QED BY <1>4, <1>7, <2>1 DEF FlowDepth
<1>9. IndentDepth(Append(s, q))
        = IndentDepth(s) + IF q \in FlowStates \cup BlockStates THEN 1 ELSE 0
  <2>1. IndentMark[q] = IF q \in FlowStates \cup BlockStates THEN <<"indent">> ELSE <<>>
    BY DEF IndentMark
  <2> QED BY <1>5, <1>7, <2>1 DEF IndentDepth
<1>10. ConstructOf[q] = IF q \in Inner THEN <<KindOf(q)>> ELSE <<>>
  BY DEF ConstructOf
<1>11. ASSUME q \in Inner PROVE Opened(Append(s, q)) = Append(Opened(s), KindOf(q))
  BY <1>6, <1>10, <1>11, InnerStates DEF Opened
<1>12. ASSUME q \notin Inner PROVE Opened(Append(s, q)) = Opened(s)
  BY <1>6, <1>10, <1>12 DEF Opened
<1> QED BY <1>7, <1>8, <1>9, <1>11, <1>12

LEMMA EmptyPath == FlowDepth(<<>>) = 0 /\ IndentDepth(<<>>) = 0 /\ Opened(<<>>) = <<>>
<1>1. ASSUME NEW S, NEW m \in Meanings(State, S), NEW s \in Seq(State)
      PROVE  /\ Along(m, s) \in Seq(S)
             /\ s = <<>> => Along(m, s) = <<>>
  <2>1. m \in Meanings(State, S)
    OBVIOUS
  <2> QED BY <2>1, AlongProperties
<1>2. ASSUME NEW S, NEW m \in Meanings(State, S)
      PROVE  Along(m, <<>>) = <<>> /\ Len(Along(m, <<>>)) = 0
  <2>1. <<>> \in Seq(State)
    OBVIOUS
  <2>2. Along(m, <<>>) = <<>>
    BY <1>1, <2>1, Zenon
  <2> QED BY <2>2
<1>3. Along(FlowMark, <<>>) = <<>> /\ Len(Along(FlowMark, <<>>)) = 0
  BY <1>2, MarkMaps, Zenon
<1>4. Along(IndentMark, <<>>) = <<>> /\ Len(Along(IndentMark, <<>>)) = 0
  BY <1>2, MarkMaps, Zenon
<1>5. Along(ConstructOf, <<>>) = <<>>
  BY <1>2, MarkMaps, Zenon
<1> QED BY <1>3, <1>4, <1>5, Zenon DEF FlowDepth, IndentDepth, Opened

(* A stack that is not empty is what it was, and what was pushed then.     *)
LEMMA LastOnFront ==
    ASSUME NEW S, NEW s \in Seq(S), s # <<>>
    PROVE  /\ Front(s) \in Seq(S) /\ Last(s) \in S
           /\ Append(Front(s), Last(s)) = s
<1>1. /\ Front(s) \in Seq(S) /\ Len(Front(s)) = Len(s) - 1 /\ Last(s) \in S
      /\ \A i \in 1 .. Len(s) - 1 : Front(s)[i] = s[i]
  BY FrontProperties
<1>2. Last(s) = s[Len(s)] /\ Len(s) \in Nat \ {0}
  BY EmptySeq, LenProperties DEF Last
<1> DEFINE t == Append(Front(s), Last(s))
<1>3. /\ t \in Seq(S) /\ Len(t) = Len(Front(s)) + 1 /\ t[Len(Front(s)) + 1] = Last(s)
      /\ \A i \in 1 .. Len(Front(s)) : t[i] = Front(s)[i]
  BY <1>1, AppendProperties
<1> HIDE DEF t
<1>4. Len(t) = Len(s) /\ \A i \in 1 .. Len(s) : t[i] = s[i]
  BY <1>1, <1>2, <1>3
<1>5. t = s
  BY <1>3, <1>4, SeqEqual
<1> QED BY <1>1, <1>5 DEF t

LEMMA OnlyEmptyPathOpensNothing ==
    ASSUME NEW s \in Seq(Inner), Opened(s) = <<>>
    PROVE  s = <<>>
<1> SUFFICES ASSUME s # <<>> PROVE FALSE
  OBVIOUS
<1>1. /\ Front(s) \in Seq(Inner) /\ Last(s) \in Inner /\ Append(Front(s), Last(s)) = s
  BY LastOnFront
<1>2. Front(s) \in Seq(State) /\ Last(s) \in State
  BY <1>1, InnerStates
<1>3. Opened(s) = Append(Opened(Front(s)), KindOf(Last(s))) /\ Opened(Front(s)) \in Seq(Stream!Construct)
  BY <1>1, <1>2, PathGrows
<1>4. KindOf(Last(s)) \in Stream!Construct
  BY <1>1, InnerStates
<1> QED BY <1>3, <1>4, FrontOfAppend

-----------------------------------------------------------------------------
(***************************************************************************)
(* Entering and leaving collections.                                       *)
(***************************************************************************)
LEMMA BottomGrows ==
    ASSUME NEW s \in Seq(Level), NEW x \in Level, NEW y \in Level
    PROVE  Append(Append(s, x), y)[1] = Append(s, x)[1]
<1> DEFINE t == Append(s, x)
<1>1. t \in Seq(Level) /\ Len(t) = Len(s) + 1 /\ Len(s) \in Nat
  BY AppendProperties, LenProperties
<1> HIDE DEF t
<1>2. 1 \in 1 .. Len(t)
  BY <1>1
<1>3. Append(t, y)[1] = t[1]
  BY <1>1, <1>2, AppendProperties
<1> QED BY <1>3 DEF t

LEMMA BottomFalls ==
    ASSUME NEW s \in Seq(Level), s # <<>>, NEW y \in Level
    PROVE  Append(Front(s), Last(s))[1] = Append(s, y)[1]
<1>1. Append(Front(s), Last(s)) = s
  BY LastOnFront
<1>2. 1 \in 1 .. Len(s)
  BY EmptySeq, LenProperties
<1>3. Append(s, y)[1] = s[1]
  BY <1>2, AppendProperties
<1> QED BY <1>1, <1>3

LEMMA StageKept ==
    ASSUME NEW c, NEW state, Stage(c, state), NEW d, SameStates(c, d), SameLevels(c, d)
    PROVE  Stage(d, state)
BY Zenon DEF Stage, Levelled, Bottom, SameStates, SameLevels

(* States that are as deep as each other. *)
Alike(state, next) ==
    \/ state \in FlowStates /\ next \in FlowStates
    \/ state \in BlockStates /\ next \in BlockStates
    \/ state \notin FlowStates \cup BlockStates /\ next \notin FlowStates \cup BlockStates

LEMMA StageAlike ==
    ASSUME NEW c, NEW state \in Inner, Stage(c, state), NEW next \in Inner, Alike(state, next)
    PROVE  Stage(c, next)
<1>1. c.states \in Seq(State) /\ state \in State /\ next \in State
  BY InnerStates DEF Stage
<1>2. /\ FlowDepth(Append(c.states, state)) = FlowDepth(Append(c.states, next))
      /\ IndentDepth(Append(c.states, state)) = IndentDepth(Append(c.states, next))
  BY <1>1, PathGrows, InnerStates DEF Alike
<1> QED BY <1>2 DEF Stage, Levelled

LEMMA EnterBlockGoes ==
    ASSUME NEW c, Well(c), NEW first \in Inner \ (FlowStates \cup BlockStates),
           c.ok => Stage(c, first), NEW state \in BlockStates,
           NEW flow, NEW indentless, NEW d, d = IncreaseIndent(c, flow, indentless)
    PROVE  /\ Went(c, d) /\ SameStates(c, d)
           /\ d.ok => Stage(d, state)
<1>1. /\ Went(c, d) /\ SameStates(c, d) /\ d.flowLevel = c.flowLevel
      /\ d.ok => d.indents = Append(c.indents, c.indent)
  BY IncreaseIndentGoes
<1>2. ASSUME d.ok PROVE Stage(d, state)
  <2>1. Stage(c, first)
    BY <1>1, <1>2 DEF Went
  <2>2. c.states \in Seq(Inner) /\ c.states \in Seq(State) /\ first \in State /\ state \in State
    BY <2>1, InnerStates DEF Stage
  <2>3. /\ FlowDepth(Append(c.states, state)) = FlowDepth(Append(c.states, first))
        /\ IndentDepth(Append(c.states, state)) = IndentDepth(Append(c.states, first)) + 1
    BY <2>2, PathGrows, InnerStates
  <2>4. c.indents \in Seq(Level) /\ c.indent \in Level /\ d.indent \in Level
    BY <1>1 DEF Went, Well, Typed
  <2>5. Len(d.indents) = Len(c.indents) + 1
    <3>1. d.indents = Append(c.indents, c.indent)
      BY <1>1, <1>2
    <3> QED BY <2>4, <3>1, AppendProperties
  <2>6. Bottom(d) = Bottom(c)
    <3>1. d.indents = Append(c.indents, c.indent)
      BY <1>1, <1>2
    <3> QED BY <2>4, <3>1, BottomGrows DEF Bottom
  <2>7. Levelled(d, Append(d.states, state))
    BY <1>1, <2>1, <2>3, <2>5 DEF Stage, Levelled, SameStates
  <2> QED BY <1>1, <2>1, <2>2, <2>6, <2>7 DEF Stage, SameStates
<1> QED BY <1>1, <1>2

LEMMA EnterFlowGoes ==
    ASSUME NEW c, Well(c), NEW first \in Inner \ (FlowStates \cup BlockStates),
           c.ok => Stage(c, first), NEW state \in FlowStates,
           NEW opener \in Indicator, NEW d, d = EnterFlow(c, opener)
    PROVE  /\ Went(c, d) /\ SameStates(c, d)
           /\ d.ok => Stage(d, state)
<1> DEFINE w == WriteIndicator(c, opener, <<>>, TRUE, TRUE, FALSE)
           v == IncreaseIndent(w, TRUE, FALSE)
<1>1. Went(c, w) /\ SameStates(c, w) /\ SameLevels(c, w)
  <2>1. Kept(c, w)
    BY WriteIndicatorKeeps DEF Well
  <2> HIDE DEF w
  <2> QED BY <2>1, KeptGoes
<1> HIDE DEF w
<1>2. /\ Went(w, v) /\ SameStates(w, v) /\ v.flowLevel = w.flowLevel
      /\ v.ok => v.indents = Append(w.indents, w.indent)
  <2>1. Well(w)
    BY <1>1 DEF Went
  <2> QED BY <2>1, IncreaseIndentGoes
<1> HIDE DEF v
<1>3. Went(c, v) /\ SameStates(c, v)
  BY <1>1, <1>2, WentOn DEF SameStates
<1>4. d = Then(v, LAMBDA u : [u EXCEPT !.flowLevel = @ + 1])
  BY Zenon DEF EnterFlow, w, v
<1>5. CASE ~v.ok
  <2>1. d = v
    BY <1>4, <1>5, Zenon DEF Then
  <2> QED BY <1>3, <1>5, <2>1
<1>6. CASE v.ok
  <2>1. Well(v) /\ v.flowLevel + 1 \in Nat
    BY <1>2 DEF Went, Well, Typed
  <2>2. d = [v EXCEPT !.flowLevel = v.flowLevel + 1]
    BY <1>4, <1>6, Zenon DEF Then
  <2>3. /\ Went(v, d) /\ SameStates(v, d) /\ d.ok
        /\ d.indent = v.indent /\ d.indents = v.indents /\ d.flowLevel = v.flowLevel + 1
    BY <1>6, <2>1, <2>2, FlowLevelGoes
  <2>4. c.ok /\ Stage(c, first)
    BY <1>3, <1>6 DEF Went
  <2>5. c.states \in Seq(Inner) /\ c.states \in Seq(State) /\ first \in State /\ state \in State
    BY <2>4, InnerStates DEF Stage
  <2>6. /\ FlowDepth(Append(c.states, state)) = FlowDepth(Append(c.states, first)) + 1
        /\ IndentDepth(Append(c.states, state)) = IndentDepth(Append(c.states, first)) + 1
    BY <2>5, PathGrows, InnerStates
  <2>7. c.indents \in Seq(Level) /\ c.indent \in Level /\ d.indent \in Level
    BY <2>3 DEF Went, Well, Typed
  <2>8. d.indents = Append(c.indents, c.indent) /\ d.flowLevel = c.flowLevel + 1
    BY <1>1, <1>2, <1>6, <2>3 DEF SameLevels
  <2>9. Len(d.indents) = Len(c.indents) + 1
    BY <2>7, <2>8, AppendProperties
  <2>10. Bottom(d) = Bottom(c)
    BY <2>7, <2>8, BottomGrows DEF Bottom
  <2>11. SameStates(c, d) /\ Went(c, d)
    BY <1>3, <2>3, WentOn DEF SameStates
  <2>12. Levelled(d, Append(d.states, state))
    BY <2>4, <2>6, <2>8, <2>9, <2>11 DEF Stage, Levelled, SameStates
  <2> QED BY <2>4, <2>5, <2>10, <2>11, <2>12 DEF Stage, SameStates
<1> QED BY <1>5, <1>6, <1>3 DEF Went, Well, Sound

(* The emitter is in state, on the stack s. *)
LEMMA MirrorsBack ==
    ASSUME NEW d, NEW s \in Seq(Inner), s # <<>>, d.state = Last(s), d.states = Front(s),
           Levelled(d, s), Bottom(d) = -1, NEW q, q.phase = "stream", q.open = Opened(s)
    PROVE  Mirrors(d, q)
<1>1. Front(s) \in Seq(Inner) /\ Last(s) \in Inner /\ Append(Front(s), Last(s)) = s
  BY LastOnFront
<1>2. Path(d) = s
  BY <1>1 DEF Path
<1>3. d.state # "STREAM-START" /\ d.state # "END"
  BY <1>1 DEF Inner, SequenceStates, KeyStates, ValueStates
<1> QED BY <1>1, <1>2, <1>3 DEF Mirrors

LEMMA LeaveBlockGoes ==
    ASSUME NEW d, Well(d), NEW state \in BlockStates, NEW s \in Seq(Inner), s # <<>>,
           d.ok => d.states = s /\ Stage(d, state),
           NEW q, q.phase = "stream", q.open = Opened(s), NEW w, w = LeaveBlock(d)
    PROVE  Reaches(d, w, q)
<1> DEFINE v == PopIndent(d)
<1>1. s \in Seq(State) /\ state \in State
  BY InnerStates
<1>2. ASSUME d.ok PROVE /\ d.flowLevel = FlowDepth(s) /\ Len(d.indents) = IndentDepth(s) + 1
                        /\ IndentDepth(s) \in Nat /\ d.indents # <<>>
  <2>1. Levelled(d, Append(s, state))
    BY <1>2 DEF Stage
  <2>2. /\ FlowDepth(s) \in Nat /\ IndentDepth(s) \in Nat
        /\ FlowDepth(Append(s, state)) = FlowDepth(s)
        /\ IndentDepth(Append(s, state)) = IndentDepth(s) + 1
    BY <1>1, PathGrows, InnerStates
  <2>3. Len(d.indents) = IndentDepth(s) + 1 /\ d.flowLevel = FlowDepth(s)
    BY <2>1, <2>2 DEF Levelled
  <2>4. d.indents # <<>>
    <3> SUFFICES ASSUME d.indents = <<>> PROVE FALSE
      OBVIOUS
    <3>1. Len(d.indents) = 0
      OBVIOUS
    <3> QED BY <2>2, <2>3, <3>1
  <2> QED BY <2>2, <2>3, <2>4
<1>3. /\ Went(d, v) /\ SameStates(d, v) /\ v.flowLevel = d.flowLevel
      /\ v.ok => v.indent = Last(d.indents) /\ v.indents = Front(d.indents)
  BY <1>2, PopIndentGoes
<1> HIDE DEF v
<1>4. w = PopState(v)
  BY DEF LeaveBlock, v
<1>5. Well(v) /\ (v.ok => v.states = s)
  BY <1>3 DEF Went, SameStates
<1>6. /\ Went(v, w) /\ SameLevels(v, w)
      /\ w.ok => w.state = Last(v.states) /\ w.states = Front(v.states)
  BY <1>4, <1>5, PopStateGoes
<1>7. Went(d, w)
  BY <1>3, <1>6, WentOn
<1>8. ASSUME w.ok PROVE Mirrors(w, q)
  <2>1. v.ok /\ d.ok
    BY <1>3, <1>6, <1>8 DEF Went
  <2>2. w.indents = Front(d.indents) /\ w.indent = Last(d.indents) /\ w.flowLevel = FlowDepth(s)
    BY <1>2, <1>3, <1>6, <2>1 DEF SameLevels
  <2>3. d.indents \in Seq(Level) /\ d.indent \in Level /\ d.indents # <<>>
    BY <1>2, <2>1 DEF Well, Typed
  <2>4. Len(w.indents) = IndentDepth(s)
    <3>1. Len(Front(d.indents)) = Len(d.indents) - 1
      BY <2>3, FrontProperties
    <3>2. Len(d.indents) = IndentDepth(s) + 1 /\ IndentDepth(s) \in Nat
      BY <1>2, <2>1
    <3> QED BY <2>2, <3>1, <3>2
  <2>5. Bottom(w) = -1
    BY <2>1, <2>2, <2>3, BottomFalls DEF Bottom, Stage
  <2>6. Levelled(w, s)
    BY <2>2, <2>4 DEF Levelled
  <2>7. w.state = Last(s) /\ w.states = Front(s)
    BY <1>5, <1>6, <1>8, <2>1
  <2> QED BY <2>5, <2>6, <2>7, MirrorsBack
<1> QED BY <1>7, <1>8 DEF Reaches

LEMMA LeaveFlowGoes ==
    ASSUME NEW d, Well(d), NEW state \in FlowStates, NEW s \in Seq(Inner), s # <<>>,
           d.ok => d.states = s /\ Stage(d, state),
           NEW q, q.phase = "stream", q.open = Opened(s),
           NEW closer \in Indicator, NEW first, NEW w, w = LeaveFlow(d, closer, first)
    PROVE  Reaches(d, w, q)
<1> DEFINE u == Then(d, LAMBDA x : [x EXCEPT !.flowLevel = @ - 1])
           v == PopIndent(u)
           y == IF d.canonical /\ ~first THEN WriteIndent(Tight(v, ",")) ELSE v
           z == Tight(y, closer)
<1>1. s \in Seq(State) /\ state \in State
  BY InnerStates
<1>2. ASSUME d.ok PROVE /\ d.flowLevel = FlowDepth(s) + 1 /\ Len(d.indents) = IndentDepth(s) + 1
                        /\ IndentDepth(s) \in Nat /\ FlowDepth(s) \in Nat /\ d.indents # <<>>
  <2>1. Levelled(d, Append(s, state))
    BY <1>2 DEF Stage
  <2>2. /\ FlowDepth(s) \in Nat /\ IndentDepth(s) \in Nat
        /\ FlowDepth(Append(s, state)) = FlowDepth(s) + 1
        /\ IndentDepth(Append(s, state)) = IndentDepth(s) + 1
    BY <1>1, PathGrows, InnerStates
  <2>3. Len(d.indents) = IndentDepth(s) + 1 /\ d.flowLevel = FlowDepth(s) + 1
    BY <2>1, <2>2 DEF Levelled
  <2>4. d.indents # <<>>
    <3> SUFFICES ASSUME d.indents = <<>> PROVE FALSE
      OBVIOUS
    <3>1. Len(d.indents) = 0
      OBVIOUS
    <3> QED BY <2>2, <2>3, <3>1
  <2> QED BY <2>2, <2>3, <2>4
<1>3. /\ Went(d, u) /\ SameStates(d, u) /\ u.indents = d.indents /\ u.indent = d.indent
      /\ u.ok => u.flowLevel = FlowDepth(s)
  <2>1. CASE ~d.ok
    <3>1. u = d
      BY <2>1, Zenon DEF Then
    <3> QED BY <2>1, <3>1, WentSelf
  <2>2. CASE d.ok
    <3>1. d.flowLevel - 1 \in Nat /\ d.flowLevel - 1 = FlowDepth(s)
      BY <1>2, <2>2
    <3>2. u = [d EXCEPT !.flowLevel = d.flowLevel - 1]
      BY <2>2, Zenon DEF Then
    <3> HIDE DEF u
    <3>3. /\ Went(d, u) /\ SameStates(d, u) /\ u.ok
          /\ u.indent = d.indent /\ u.indents = d.indents /\ u.flowLevel = d.flowLevel - 1
      BY <2>2, <3>1, <3>2, FlowLevelGoes
    <3> QED BY <3>1, <3>3
  <2> QED BY <2>1, <2>2
<1> HIDE DEF u
<1>4. /\ Went(u, v) /\ SameStates(u, v) /\ v.flowLevel = u.flowLevel
      /\ v.ok => v.indent = Last(u.indents) /\ v.indents = Front(u.indents)
  <2>1. Well(u) /\ (u.ok => u.indents # <<>>)
    BY <1>2, <1>3 DEF Went
  <2> QED BY <2>1, PopIndentGoes
<1> HIDE DEF v
<1>5. Kept(v, y)
  <2>1. Sound(v) /\ "," \in Indicator
    BY <1>4 DEF Went, Well, Indicator
  <2> DEFINE t == Tight(v, ",")
  <2>2. Kept(v, t)
    BY <2>1, TightKeeps
  <2> HIDE DEF t
  <2>3. Kept(t, WriteIndent(t))
    BY <2>2, WriteIndentDraws DEF Kept, Drawn
  <2>4. Kept(v, WriteIndent(t)) /\ Kept(v, v)
    BY <2>1, <2>2, <2>3, KeptOn, KeptSelf
  <2>5. y = IF d.canonical /\ ~first THEN WriteIndent(t) ELSE v
    BY Zenon DEF t
  <2> QED BY <2>4, <2>5, Zenon
<1> HIDE DEF y
<1>6. Kept(y, z)
  BY <1>5, TightKeeps DEF Kept
<1> HIDE DEF z
<1>7. Went(v, z) /\ SameStates(v, z) /\ SameLevels(v, z)
  <2>1. Well(v) /\ Kept(v, z)
    BY <1>4, <1>5, <1>6, KeptOn DEF Went
  <2> QED BY <2>1, KeptGoes
<1>8. w = PopState(z)
  BY Zenon DEF LeaveFlow, u, v, y, z
<1>9. Well(z) /\ (z.ok => z.states = s) /\ Went(d, z)
  BY <1>3, <1>4, <1>7, WentOn DEF Went, SameStates
<1>10. /\ Went(z, w) /\ SameLevels(z, w)
       /\ w.ok => w.state = Last(z.states) /\ w.states = Front(z.states)
  BY <1>8, <1>9, PopStateGoes
<1>11. Went(d, w)
  BY <1>9, <1>10, WentOn
<1>12. ASSUME w.ok PROVE Mirrors(w, q)
  <2>1. z.ok /\ v.ok /\ u.ok /\ d.ok
    BY <1>3, <1>4, <1>7, <1>10, <1>12 DEF Went
  <2>2. w.indents = Front(d.indents) /\ w.indent = Last(d.indents) /\ w.flowLevel = FlowDepth(s)
    BY <1>3, <1>4, <1>7, <1>10, <2>1 DEF SameLevels
  <2>3. d.indents \in Seq(Level) /\ d.indent \in Level /\ d.indents # <<>>
    BY <1>2, <2>1 DEF Well, Typed
  <2>4. Len(w.indents) = IndentDepth(s)
    <3>1. Len(Front(d.indents)) = Len(d.indents) - 1
      BY <2>3, FrontProperties
    <3>2. Len(d.indents) = IndentDepth(s) + 1 /\ IndentDepth(s) \in Nat
      BY <1>2, <2>1
    <3> QED BY <2>2, <3>1, <3>2
  <2>5. Bottom(w) = -1
    BY <2>1, <2>2, <2>3, BottomFalls DEF Bottom, Stage
  <2>6. Levelled(w, s)
    BY <2>2, <2>4 DEF Levelled
  <2>7. w.state = Last(s) /\ w.states = Front(s)
    BY <1>9, <1>10, <1>12, <2>1
  <2> QED BY <2>5, <2>6, <2>7, MirrorsBack
<1> QED BY <1>11, <1>12 DEF Reaches

(* A node in a construct, written behind v, that leads to next.            *)
LEMMA ChildGoes ==
    ASSUME NEW d, Well(d), NEW state \in Inner, NEW s \in Seq(Inner),
           d.ok => d.states = s /\ Stage(d, state),
           NEW v, Kept(d, v), NEW e \in NodeEvent, e = Head(d.events),
           NEW p, NEW q, NodeMoves(p, e, q), NEW kind \in Stream!Construct,
           p.open = Append(Opened(s), kind), KindOf(state) = Stream!AfterChild(kind),
           NEW root, NEW mapping, NEW simpleKey,
           NEW w, w = EmitNode(PushState(v, state), root, mapping, simpleKey)
    PROVE  Reaches(d, w, q)
<1> DEFINE u == PushState(v, state)
           path == Append(s, state)
<1>1. s \in Seq(State) /\ state \in State
  BY InnerStates
<1>2. Went(d, v) /\ SameStates(d, v) /\ SameLevels(d, v) /\ Well(v)
  <2>1. Went(d, v) /\ SameStates(d, v) /\ SameLevels(d, v)
    BY KeptGoes
  <2> QED BY <2>1 DEF Went
<1>3. /\ Went(v, u) /\ SameLevels(v, u)
      /\ u.ok => u.states = Append(v.states, state)
  BY <1>1, <1>2, PushStateGoes
<1> HIDE DEF u
<1>4. Well(u) /\ Went(d, u) /\ SameLevels(d, u)
  <2>1. Well(u) /\ Went(d, u)
    BY <1>2, <1>3, WentOn DEF Went
  <2> QED BY <1>2, <1>3, <2>1 DEF SameLevels
<1>5. u.ok => d.ok /\ v.ok /\ u.states = path /\ Stage(d, state)
  BY <1>2, <1>3 DEF Went, SameStates
<1>6. path \in Seq(Inner) /\ path \in Seq(State) /\ path # <<>> /\ Last(path) = state /\ Front(path) = s
  BY <1>1, FrontOfAppend, AppendProperties
<1>7. e = Head(u.events)
  BY <1>4 DEF Went
<1>8. /\ Went(u, w)
      /\ w.ok => /\ SameLevels(u, w)
                 /\ IF e.type \in {"ALIAS", "SCALAR"}
                    THEN w.state = Last(u.states) /\ w.states = Front(u.states)
                    ELSE w.state \in FirstStates(e.type) /\ w.states = u.states
  <2>1. u.ok => u.states # <<>>
    BY <1>5, <1>6
  <2>2. w = EmitNode(u, root, mapping, simpleKey)
    BY DEF u
  <2> QED BY <1>4, <1>7, <2>1, <2>2, EmitNodeGoes
<1>9. Went(d, w)
  BY <1>4, <1>8, WentOn
<1>10. q.phase = "stream" /\ Opened(path) = Append(Opened(s), Stream!AfterChild(kind))
  BY <1>1, PathGrows DEF NodeMoves
<1>11. Last(p.open) = kind /\ Front(p.open) = Opened(s)
  <2>1. Opened(s) \in Seq(Stream!Construct)
    BY <1>1, PathGrows
  <2> QED BY <2>1, FrontOfAppend
<1> HIDE DEF path
<1>12. ASSUME w.ok PROVE Mirrors(w, q)
  <2>1. u.ok /\ d.ok /\ u.states = path /\ Stage(d, state) /\ SameLevels(d, w)
    BY <1>4, <1>5, <1>8, <1>12 DEF Went, SameLevels
  <2>2. Levelled(w, path) /\ Bottom(w) = -1
    <3>1. Levelled(d, path) /\ Bottom(d) = -1
      BY <2>1, <1>5 DEF Stage, path
    <3> QED BY <2>1, <3>1 DEF Levelled, Bottom, SameLevels
  <2>3. CASE e.type \in {"ALIAS", "SCALAR"}
    <3>1. q.open = Opened(path)
      BY <1>10, <1>11, <2>3 DEF NodeMoves
    <3>2. w.state = Last(path) /\ w.states = Front(path)
      BY <1>8, <1>12, <2>1, <2>3
    <3> QED BY <1>6, <1>10, <2>2, <3>1, <3>2, MirrorsBack
  <2>4. CASE e.type \notin {"ALIAS", "SCALAR"}
    <3>1. e.type \in {"SEQUENCE-START", "MAPPING-START"}
      BY <2>4, ScalarEventTyped DEF NodeEvent, AliasEvent, CollectionEvent
    <3>2. w.states = path /\ w.state \in FirstStates(e.type)
      BY <1>8, <1>12, <2>1, <2>4
    <3>3. /\ w.state \in Inner \ (FlowStates \cup BlockStates)
          /\ w.state # "STREAM-START" /\ w.state # "END"
          /\ KindOf(w.state) = IF e.type = "SEQUENCE-START" THEN "seq" ELSE "key"
      BY <3>1, <3>2 DEF FirstStates, Inner, FlowStates, BlockStates, SequenceStates,
                        KeyStates, ValueStates, KindOf
    <3>4. q.open = Append(Opened(path), KindOf(w.state))
      BY <1>10, <1>11, <3>1, <3>3 DEF NodeMoves
    <3>5. w.state \in State
      BY <3>3, InnerStates
    <3>6. /\ FlowDepth(Append(path, w.state)) = FlowDepth(path) + 0
          /\ IndentDepth(Append(path, w.state)) = IndentDepth(path) + 0
          /\ Opened(Append(path, w.state)) = Append(Opened(path), KindOf(w.state))
          /\ FlowDepth(path) \in Nat /\ IndentDepth(path) \in Nat
      BY <1>6, <3>3, <3>5, PathGrows
    <3>7. Levelled(w, Path(w)) /\ q.open = Opened(Path(w))
      BY <2>2, <3>2, <3>4, <3>6 DEF Levelled, Path
    <3> QED BY <1>6, <1>10, <2>2, <3>2, <3>3, <3>7 DEF Mirrors
  <2> QED BY <2>3, <2>4
<1> QED BY <1>9, <1>12 DEF Reaches

-----------------------------------------------------------------------------
(***************************************************************************)
(* The handlers: each leads to where the stream of events goes.            *)
(***************************************************************************)
(* The event e is due, and leads from p to q. *)
Due(c, p, e, q) ==
    /\ Well(c) /\ c.ok /\ Mirrors(c, p) /\ Placed(p)
    /\ e \in Event /\ e = Head(c.events) /\ Moves(p, e, q)

LEMMA EventTypes ==
    ASSUME NEW e \in Event
    PROVE  /\ e.type \in NodeType <=> e \in NodeEvent
           /\ e.type \in {"SEQUENCE-START", "MAPPING-START"} <=> e \in CollectionEvent
           /\ e.type = "DOCUMENT-START" <=> e \in DocumentStartEvent
           /\ e.type = "DOCUMENT-END" <=> e \in DocumentEndEvent
<1>1. e \in AliasEvent => e.type = "ALIAS"
  BY DEF AliasEvent
<1>2. e \in ScalarEvent => e.type = "SCALAR"
  BY ScalarEventTyped
<1>3. e \in CollectionEvent => e.type \in {"SEQUENCE-START", "MAPPING-START"}
  BY DEF CollectionEvent
<1>4. e \in DocumentStartEvent => e.type = "DOCUMENT-START"
  BY DEF DocumentStartEvent
<1>5. e \in DocumentEndEvent => e.type = "DOCUMENT-END"
  BY DEF DocumentEndEvent
<1>6. e \in OtherEvent => e.type \in {"STREAM-START", "STREAM-END", "SEQUENCE-END", "MAPPING-END"}
  BY DEF OtherEvent
<1> QED BY <1>1, <1>2, <1>3, <1>4, <1>5, <1>6 DEF Event, NodeEvent, NodeType

(* Inside a document the event that is due is a node, or the end of what   *)
(* is open.                                                                *)
Expected(c, p, e, q) ==
    LET kind == KindOf(c.state)
    IN  \/ e \in NodeEvent /\ NodeMoves(p, e, q) /\ kind # "docEnd"
        \/ e.type = "SEQUENCE-END" /\ kind = "seq" /\ q.open = Opened(c.states)
        \/ e.type = "MAPPING-END" /\ kind = "key" /\ q.open = Opened(c.states)
        \/ e.type = "DOCUMENT-END" /\ kind = "docEnd" /\ q.open = <<>> /\ c.states = <<>>

LEMMA AtWork ==
    ASSUME NEW c, NEW p, NEW e, NEW q, Due(c, p, e, q), c.state \in Inner
    PROVE  /\ Well(c) /\ c.ok /\ c.states \in Seq(Inner) /\ Stage(c, c.state)
           /\ KindOf(c.state) \in Stream!Construct
           /\ p.open = Append(Opened(c.states), KindOf(c.state))
           /\ KindOf(c.state) \notin {"root", "docEnd"} => c.states # <<>>
           /\ p.phase = "stream" /\ q.phase = "stream"
           /\ Expected(c, p, e, q)
<1> DEFINE s == c.states
           kind == KindOf(c.state)
<1>1. /\ Well(c) /\ c.ok /\ Mirrors(c, p) /\ Placed(p) /\ e \in Event /\ Moves(p, e, q)
  BY DEF Due
<1>2. s \in Seq(Inner) /\ s \in Seq(State) /\ c.state \in State
  BY <1>1, InnerStates DEF Mirrors
<1>3. /\ p.open = Append(Opened(s), kind) /\ Opened(s) \in Seq(Stream!Construct)
      /\ kind \in Stream!Construct
  BY <1>1, <1>2, PathGrows, InnerStates DEF Mirrors, Path
<1>4. p.open # <<>> /\ Last(p.open) = kind /\ Front(p.open) = Opened(s)
  BY <1>3, FrontOfAppend
<1>5. p.phase = "stream"
  BY <1>1, <1>4 DEF Placed
<1>6. Stage(c, c.state)
  BY <1>1, <1>2, <1>5 DEF Mirrors, Stage, Path
<1>7. ASSUME kind \notin {"root", "docEnd"}, s = <<>>
      PROVE  FALSE
  <2>1. p.open = <<kind>>
    <3>1. Opened(s) = <<>>
      BY <1>7, EmptyPath, Zenon
    <3> QED BY <1>3, <3>1
  <2>2. p.open[1] = kind
    BY <2>1
  <2> QED BY <1>1, <1>4, <1>7, <2>2 DEF Placed
<1>8. q.phase = "stream"
  BY <1>1, <1>4, <1>5 DEF Moves, NodeMoves, EndMoves
<1> HIDE DEF s, kind
<1>9. Expected(c, p, e, q)
  <2>1. CASE e.type \in NodeType /\ NodeMoves(p, e, q)
    BY <1>1, <1>4, <2>1, EventTypes DEF NodeMoves, Expected, kind
  <2>2. CASE e.type = "SEQUENCE-END" /\ EndMoves(p, "seq", q)
    BY <1>4, <2>2 DEF EndMoves, Expected, kind, s
  <2>3. CASE e.type = "MAPPING-END" /\ EndMoves(p, "key", q)
    BY <1>4, <2>3 DEF EndMoves, Expected, kind, s
  <2>4. CASE e.type = "DOCUMENT-END" /\ p.open = <<"docEnd">> /\ q.open = <<>>
    <3>1. Last(p.open) = "docEnd" /\ Front(p.open) = <<>>
      <4>1. p.open[1] = "docEnd" /\ Len(p.open) = 1
        BY <2>4
      <4>2. Last(p.open) = "docEnd"
        BY <4>1 DEF Last
      <4>3. Opened(s) \in Seq(Stream!Construct) /\ Len(Opened(s)) = 0
        BY <1>3, <4>1, AppendProperties, LenProperties
      <4> QED BY <1>4, <4>2, <4>3, EmptySeq
    <3>2. s = <<>>
      BY <1>2, <1>4, <3>1, OnlyEmptyPathOpensNothing
    <3> QED BY <1>4, <2>4, <3>1, <3>2 DEF Expected, kind, s
  <2> QED BY <1>1, <1>4, <1>5, <2>1, <2>2, <2>3, <2>4 DEF Moves
<1> QED BY <1>1, <1>2, <1>3, <1>5, <1>6, <1>7, <1>8, <1>9 DEF s, kind

LEMMA ReachesOn ==
    ASSUME NEW c, NEW d, NEW w, NEW q, Went(c, d), Reaches(d, w, q)
    PROVE  Reaches(c, w, q)
BY WentOn DEF Reaches

LEMMA BreakLineKeeps ==
    ASSUME NEW c, Sound(c)
    PROVE  Kept(c, BreakLine(c))
BY WriteIndentDraws, KeptSelf DEF BreakLine, Drawn

LEMMA BlockIndicatorKeeps ==
    ASSUME NEW c, Sound(c), NEW what \in Indicator
    PROVE  Kept(c, BlockIndicator(WriteIndent(c), what)) /\ Kept(c, WriteIndent(c))
<1>1. Kept(c, WriteIndent(c))
  BY WriteIndentDraws DEF Drawn
<1> DEFINE d == WriteIndent(c)
<1> HIDE DEF d
<1>2. Kept(c, d)
  BY <1>1 DEF d
<1>3. Kept(d, BlockIndicator(d, what))
  BY <1>2, WriteIndicatorKeeps DEF BlockIndicator, Kept
<1>4. Kept(c, BlockIndicator(d, what))
  BY <1>2, <1>3, KeptOn
<1> QED BY <1>1, <1>4 DEF d

(* A collection is entered with its first item. *)
HasEntered(c, d, e, state) ==
    /\ Well(d) /\ Went(c, d) /\ e = Head(d.events)
    /\ d.ok => d.states = c.states /\ Stage(d, state)

LEMMA EnteredFlow ==
    ASSUME NEW c, NEW p, NEW e, NEW q, Due(c, p, e, q),
           NEW first \in Inner \ (FlowStates \cup BlockStates),
           c.state \in FlowStates \cup {first}, NEW state \in FlowStates,
           NEW opener \in Indicator,
           NEW d, d = IF c.state = first THEN EnterFlow(c, opener) ELSE c
    PROVE  HasEntered(c, d, e, state)
<1>1. c.state \in Inner
  BY InnerStates
<1>2. Well(c) /\ Stage(c, c.state) /\ e = Head(c.events)
  BY <1>1, AtWork DEF Due
<1>3. CASE c.state = first
  <2>1. d = EnterFlow(c, opener)
    BY <1>3, Zenon
  <2>2. Went(c, d) /\ SameStates(c, d) /\ (d.ok => Stage(d, state))
    BY <1>2, <1>3, <2>1, EnterFlowGoes
  <2> QED BY <1>2, <2>2 DEF HasEntered, Went, SameStates
<1>4. CASE c.state # first
  <2>1. d = c
    BY <1>4, Zenon
  <2>2. Stage(c, state)
    BY <1>1, <1>2, <1>4, StageAlike, InnerStates DEF Alike
  <2> QED BY <1>2, <2>1, <2>2, WentSelf DEF HasEntered
<1> QED BY <1>3, <1>4

LEMMA EnteredBlock ==
    ASSUME NEW c, NEW p, NEW e, NEW q, Due(c, p, e, q),
           NEW first \in Inner \ (FlowStates \cup BlockStates),
           c.state \in BlockStates \cup {first}, NEW state \in BlockStates,
           NEW flow, NEW indentless,
           NEW d, d = IF c.state = first THEN IncreaseIndent(c, flow, indentless) ELSE c
    PROVE  HasEntered(c, d, e, state)
<1>1. c.state \in Inner
  BY InnerStates
<1>2. Well(c) /\ Stage(c, c.state) /\ e = Head(c.events)
  BY <1>1, AtWork DEF Due
<1>3. CASE c.state = first
  <2>1. d = IncreaseIndent(c, flow, indentless)
    BY <1>3, Zenon
  <2>2. Went(c, d) /\ SameStates(c, d) /\ (d.ok => Stage(d, state))
    BY <1>2, <1>3, <2>1, EnterBlockGoes
  <2> QED BY <1>2, <2>2 DEF HasEntered, Went, SameStates
<1>4. CASE c.state # first
  <2>1. d = c
    BY <1>4, Zenon
  <2>2. Stage(c, state)
    BY <1>1, <1>2, <1>4, StageAlike, InnerStates DEF Alike
  <2> QED BY <1>2, <2>1, <2>2, WentSelf DEF HasEntered
<1> QED BY <1>3, <1>4

(* The child of a construct the emitter is inside of. *)
LEMMA ChildReaches ==
    ASSUME NEW c, NEW p, NEW e \in NodeEvent, NEW q, Due(c, p, e, q), c.state \in Inner,
           NEW state \in Inner, KindOf(state) = Stream!AfterChild(KindOf(c.state)),
           NEW d, HasEntered(c, d, e, state), NEW v, Kept(d, v),
           NEW root, NEW mapping, NEW simpleKey,
           NEW w, w = EmitNode(PushState(v, state), root, mapping, simpleKey)
    PROVE  Reaches(c, w, q)
<1>1. /\ c.states \in Seq(Inner) /\ KindOf(c.state) \in Stream!Construct
      /\ p.open = Append(Opened(c.states), KindOf(c.state)) /\ Expected(c, p, e, q)
  BY AtWork
<1>2. NodeMoves(p, e, q)
  <2>1. e.type \in NodeType
    BY EventTypes DEF Due
  <2> QED BY <1>1, <2>1 DEF Expected, NodeType
<1>3. Well(d) /\ Went(c, d) /\ e = Head(d.events) /\ (d.ok => d.states = c.states /\ Stage(d, state))
  BY DEF HasEntered
<1>4. Reaches(d, w, q)
  BY <1>1, <1>2, <1>3, ChildGoes
<1> QED BY <1>3, <1>4, ReachesOn

LEMMA FlowSequenceItemReaches ==
    ASSUME NEW c, NEW p, NEW e, NEW q, Due(c, p, e, q),
           c.state \in {"FLOW-SEQUENCE-FIRST-ITEM", "FLOW-SEQUENCE-ITEM"},
           NEW first, first = (c.state = "FLOW-SEQUENCE-FIRST-ITEM"),
           NEW w, w = FlowSequenceItem(c, first)
    PROVE  Reaches(c, w, q)
<1> DEFINE state == "FLOW-SEQUENCE-ITEM"
           begin == "FLOW-SEQUENCE-FIRST-ITEM"
           d == IF first THEN EnterFlow(c, "[") ELSE c
           v == BreakLine(IF first THEN d ELSE Tight(d, ","))
           no == FALSE
<1>1. /\ c.state \in Inner /\ KindOf(c.state) = "seq" /\ KindOf(state) = "seq"
      /\ state \in FlowStates /\ begin \in Inner \ (FlowStates \cup BlockStates)
      /\ c.state \in FlowStates \cup {begin}
  BY DEF Inner, KindOf, SequenceStates, KeyStates, ValueStates, FlowStates, BlockStates
<1>2. "[" \in Indicator /\ "]" \in Indicator /\ "," \in Indicator
  BY DEF Indicator
<1>3. d = IF c.state = begin THEN EnterFlow(c, "[") ELSE c
  BY Zenon
<1>4. Head(c.events) = e
  BY DEF Due
<1>5. w = IF e.type = "SEQUENCE-END"
          THEN LeaveFlow(d, "]", first)
          ELSE EmitNode(PushState(v, state), no, no, no)
  BY <1>4, Zenon DEF FlowSequenceItem
<1> HIDE DEF d, state, begin, no
<1>6. HasEntered(c, d, e, state)
  BY <1>1, <1>2, <1>3, EnteredFlow
<1>7. /\ c.states \in Seq(Inner) /\ c.states # <<>> /\ q.phase = "stream" /\ Expected(c, p, e, q)
  BY <1>1, AtWork
<1>8. CASE e.type = "SEQUENCE-END"
  <2>1. q.open = Opened(c.states)
    <3>1. e \in Event
      BY DEF Due
    <3> QED BY <1>1, <1>7, <1>8, <3>1, EventTypes DEF Expected, NodeType
  <2>2. w = LeaveFlow(d, "]", first)
    BY <1>5, <1>8, Zenon
  <2>3. Well(d) /\ Went(c, d) /\ (d.ok => d.states = c.states /\ Stage(d, state))
    BY <1>6 DEF HasEntered
  <2>4. Reaches(d, w, q)
    BY <1>1, <1>2, <1>7, <2>1, <2>2, <2>3, LeaveFlowGoes
  <2> QED BY <2>3, <2>4, ReachesOn
<1>9. CASE e.type # "SEQUENCE-END"
  <2>1. e \in NodeEvent
    BY <1>1, <1>7, <1>9 DEF Expected
  <2>2. Kept(d, v)
    <3>1. Sound(d)
      BY <1>6 DEF HasEntered, Well
    <3> DEFINE t == IF first THEN d ELSE Tight(d, ",")
    <3>2. Kept(d, t)
      BY <1>2, <3>1, KeptSelf, TightKeeps
    <3> HIDE DEF t
    <3>3. Kept(t, BreakLine(t))
      BY <3>2, BreakLineKeeps DEF Kept
    <3>4. Kept(d, BreakLine(t))
      BY <3>2, <3>3, KeptOn
    <3> QED BY <3>4 DEF t
  <2> HIDE DEF v
  <2>3. w = EmitNode(PushState(v, state), no, no, no)
    BY <1>5, <1>9, Zenon
  <2>4. KindOf(state) = Stream!AfterChild(KindOf(c.state)) /\ state \in Inner
    BY <1>1, InnerStates DEF Stream!AfterChild
  <2> QED BY <1>1, <1>6, <2>1, <2>2, <2>3, <2>4, ChildReaches
<1> QED BY <1>8, <1>9

LEMMA FlowMappingKeyReaches ==
    ASSUME NEW c, NEW p, NEW e, NEW q, Due(c, p, e, q),
           c.state \in {"FLOW-MAPPING-FIRST-KEY", "FLOW-MAPPING-KEY"},
           NEW first, first = (c.state = "FLOW-MAPPING-FIRST-KEY"),
           NEW w, w = FlowMappingKey(c, first)
    PROVE  Reaches(c, w, q)
<1> DEFINE begin == "FLOW-MAPPING-FIRST-KEY"
           d == IF first THEN EnterFlow(c, "{") ELSE c
           v == BreakLine(IF first THEN d ELSE Tight(d, ","))
           simple == ~c.canonical /\ CheckSimpleKey(c)
           yes == TRUE
           no == FALSE
<1>1. /\ c.state \in Inner /\ KindOf(c.state) = "key"
      /\ begin \in Inner \ (FlowStates \cup BlockStates)
      /\ c.state \in FlowStates \cup {begin}
      /\ "FLOW-MAPPING-SIMPLE-VALUE" \in FlowStates /\ "FLOW-MAPPING-VALUE" \in FlowStates
      /\ KindOf("FLOW-MAPPING-SIMPLE-VALUE") = "value" /\ KindOf("FLOW-MAPPING-VALUE") = "value"
  BY DEF Inner, KindOf, SequenceStates, KeyStates, ValueStates, FlowStates, BlockStates
<1>2. "{" \in Indicator /\ "}" \in Indicator /\ "," \in Indicator /\ "?" \in Indicator
  BY DEF Indicator
<1>3. d = IF c.state = begin THEN EnterFlow(c, "{") ELSE c
  BY Zenon
<1>4. Head(c.events) = e
  BY DEF Due
<1>5. /\ e.type = "MAPPING-END" => w = LeaveFlow(d, "}", first)
      /\ e.type # "MAPPING-END" /\ simple
            => w = EmitNode(PushState(v, "FLOW-MAPPING-SIMPLE-VALUE"), no, yes, yes)
      /\ e.type # "MAPPING-END" /\ ~simple
            => w = EmitNode(PushState(Apart(v, "?"), "FLOW-MAPPING-VALUE"), no, yes, no)
  <2>1. ASSUME e.type = "MAPPING-END" PROVE w = LeaveFlow(d, "}", first)
    BY <1>4, <2>1, Zenon DEF FlowMappingKey
  <2>2. ASSUME e.type # "MAPPING-END", simple
        PROVE  w = EmitNode(PushState(v, "FLOW-MAPPING-SIMPLE-VALUE"), no, yes, yes)
    BY <1>4, <2>2, Zenon DEF FlowMappingKey
  <2>3. ASSUME e.type # "MAPPING-END", ~simple
        PROVE  w = EmitNode(PushState(Apart(v, "?"), "FLOW-MAPPING-VALUE"), no, yes, no)
    BY <1>4, <2>3, Zenon DEF FlowMappingKey
  <2> QED BY <2>1, <2>2, <2>3
<1> HIDE DEF d, begin, no, yes, simple
<1>6. \A state \in FlowStates : HasEntered(c, d, e, state)
  BY <1>1, <1>2, <1>3, EnteredFlow
<1>7. /\ c.states \in Seq(Inner) /\ c.states # <<>> /\ q.phase = "stream" /\ Expected(c, p, e, q)
  BY <1>1, AtWork
<1>8. CASE e.type = "MAPPING-END"
  <2>1. q.open = Opened(c.states)
    <3>1. e \in Event
      BY DEF Due
    <3> QED BY <1>1, <1>7, <1>8, <3>1, EventTypes DEF Expected, NodeType
  <2>2. w = LeaveFlow(d, "}", first)
    BY <1>5, <1>8, Zenon
  <2> DEFINE state == "FLOW-MAPPING-VALUE"
  <2>3. state \in FlowStates
    BY <1>1
  <2> HIDE DEF state
  <2>4. Well(d) /\ Went(c, d) /\ (d.ok => d.states = c.states /\ Stage(d, state))
    BY <1>6, <2>3 DEF HasEntered
  <2>5. Reaches(d, w, q)
    BY <1>2, <1>7, <2>1, <2>2, <2>3, <2>4, LeaveFlowGoes
  <2> QED BY <2>4, <2>5, ReachesOn
<1>9. CASE e.type # "MAPPING-END"
  <2>1. e \in NodeEvent
    BY <1>1, <1>7, <1>9 DEF Expected
  <2>2. Kept(d, v)
    <3>1. Sound(d)
      BY <1>1, <1>6 DEF HasEntered, Well
    <3> DEFINE t == IF first THEN d ELSE Tight(d, ",")
    <3>2. Kept(d, t)
      BY <1>2, <3>1, KeptSelf, TightKeeps
    <3> HIDE DEF t
    <3>3. Kept(t, BreakLine(t))
      BY <3>2, BreakLineKeeps DEF Kept
    <3>4. Kept(d, BreakLine(t))
      BY <3>2, <3>3, KeptOn
    <3> QED BY <3>4 DEF t
  <2> HIDE DEF v
  <2>3. Kept(d, Apart(v, "?"))
    <3>1. Kept(v, Apart(v, "?"))
      BY <1>2, <2>2, TightKeeps DEF Kept
    <3> QED BY <2>2, <3>1, KeptOn
  <2>4. CASE simple
    <3> DEFINE state == "FLOW-MAPPING-SIMPLE-VALUE"
    <3>1. w = EmitNode(PushState(v, state), no, yes, yes)
      BY <1>5, <1>9, <2>4, Zenon
    <3>2. /\ KindOf(state) = Stream!AfterChild(KindOf(c.state)) /\ state \in Inner
          /\ HasEntered(c, d, e, state)
      BY <1>1, <1>6, InnerStates DEF Stream!AfterChild
    <3> HIDE DEF state
    <3> QED BY <1>1, <2>1, <2>2, <3>1, <3>2, ChildReaches
  <2>5. CASE ~simple
    <3> DEFINE state == "FLOW-MAPPING-VALUE"
               u == Apart(v, "?")
    <3>1. w = EmitNode(PushState(u, state), no, yes, no)
      BY <1>5, <1>9, <2>5, Zenon
    <3>2. /\ KindOf(state) = Stream!AfterChild(KindOf(c.state)) /\ state \in Inner
          /\ HasEntered(c, d, e, state)
      BY <1>1, <1>6, InnerStates DEF Stream!AfterChild
    <3> HIDE DEF state, u
    <3>3. Kept(d, u)
      BY <2>3 DEF u
    <3> QED BY <1>1, <2>1, <3>1, <3>2, <3>3, ChildReaches
  <2> QED BY <2>4, <2>5
<1> QED BY <1>8, <1>9

LEMMA FlowMappingValueReaches ==
    ASSUME NEW c, NEW p, NEW e, NEW q, Due(c, p, e, q),
           c.state \in {"FLOW-MAPPING-SIMPLE-VALUE", "FLOW-MAPPING-VALUE"},
           NEW simple, NEW w, w = FlowMappingValue(c, simple)
    PROVE  Reaches(c, w, q)
<1> DEFINE state == "FLOW-MAPPING-KEY"
           v == IF simple THEN Tight(c, ":") ELSE Apart(BreakLine(c), ":")
           yes == TRUE
           no == FALSE
<1>1. /\ c.state \in Inner /\ KindOf(c.state) = "value" /\ KindOf(state) = "key"
      /\ state \in FlowStates /\ c.state \in FlowStates
  BY DEF Inner, KindOf, SequenceStates, KeyStates, ValueStates, FlowStates, BlockStates
<1>2. w = EmitNode(PushState(v, state), no, yes, no)
  BY Zenon DEF FlowMappingValue
<1>3. KindOf(state) = Stream!AfterChild(KindOf(c.state)) /\ state \in Inner
  BY <1>1, InnerStates DEF Stream!AfterChild
<1> HIDE DEF state, yes, no
<1>4. Well(c) /\ c.ok /\ Stage(c, c.state) /\ Expected(c, p, e, q)
  BY <1>1, AtWork
<1>5. e \in NodeEvent
  BY <1>1, <1>4 DEF Expected
<1>6. HasEntered(c, c, e, state)
  <2>1. Stage(c, state)
    BY <1>1, <1>3, <1>4, StageAlike DEF Alike
  <2> QED BY <1>4, <2>1, WentSelf DEF HasEntered, Due
<1>7. Kept(c, v)
  <2>1. Sound(c) /\ ":" \in Indicator
    BY <1>4 DEF Well, Indicator
  <2> DEFINE t == BreakLine(c)
  <2>2. Kept(c, t)
    BY <2>1, BreakLineKeeps
  <2> HIDE DEF t
  <2>3. Kept(t, Apart(t, ":"))
    BY <2>1, <2>2, TightKeeps DEF Kept
  <2>4. Kept(c, Apart(t, ":")) /\ Kept(c, Tight(c, ":"))
    BY <2>1, <2>2, <2>3, KeptOn, TightKeeps
  <2>5. v = IF simple THEN Tight(c, ":") ELSE Apart(t, ":")
    BY Zenon DEF t
  <2> QED BY <2>4, <2>5, Zenon
<1> HIDE DEF v
<1> QED BY <1>1, <1>2, <1>3, <1>5, <1>6, <1>7, ChildReaches

LEMMA BlockSequenceItemReaches ==
    ASSUME NEW c, NEW p, NEW e, NEW q, Due(c, p, e, q),
           c.state \in {"BLOCK-SEQUENCE-FIRST-ITEM", "BLOCK-SEQUENCE-ITEM"},
           NEW first, first = (c.state = "BLOCK-SEQUENCE-FIRST-ITEM"),
           NEW w, w = BlockSequenceItem(c, first)
    PROVE  Reaches(c, w, q)
<1> DEFINE state == "BLOCK-SEQUENCE-ITEM"
           begin == "BLOCK-SEQUENCE-FIRST-ITEM"
           no == FALSE
           indentless == c.mappingContext /\ ~c.indention
           d == IF first THEN IncreaseIndent(c, no, indentless) ELSE c
           v == BlockIndicator(WriteIndent(d), "-")
<1>1. /\ c.state \in Inner /\ KindOf(c.state) = "seq" /\ KindOf(state) = "seq"
      /\ state \in BlockStates /\ begin \in Inner \ (FlowStates \cup BlockStates)
      /\ c.state \in BlockStates \cup {begin}
  BY DEF Inner, KindOf, SequenceStates, KeyStates, ValueStates, FlowStates, BlockStates
<1>2. "-" \in Indicator
  BY DEF Indicator
<1>3. d = IF c.state = begin THEN IncreaseIndent(c, no, indentless) ELSE c
  BY Zenon
<1>4. Head(c.events) = e
  BY DEF Due
<1>5. w = IF e.type = "SEQUENCE-END"
          THEN LeaveBlock(d)
          ELSE EmitNode(PushState(v, state), no, no, no)
  BY <1>4, Zenon DEF BlockSequenceItem
<1> HIDE DEF d, state, begin, no, indentless
<1>6. HasEntered(c, d, e, state)
  BY <1>1, <1>3, EnteredBlock
<1>7. /\ c.states \in Seq(Inner) /\ c.states # <<>> /\ q.phase = "stream" /\ Expected(c, p, e, q)
  BY <1>1, AtWork
<1>8. CASE e.type = "SEQUENCE-END"
  <2>1. q.open = Opened(c.states)
    <3>1. e \in Event
      BY DEF Due
    <3> QED BY <1>1, <1>7, <1>8, <3>1, EventTypes DEF Expected, NodeType
  <2>2. w = LeaveBlock(d)
    BY <1>5, <1>8, Zenon
  <2>3. Well(d) /\ Went(c, d) /\ (d.ok => d.states = c.states /\ Stage(d, state))
    BY <1>6 DEF HasEntered
  <2>4. Reaches(d, w, q)
    BY <1>1, <1>7, <2>1, <2>2, <2>3, LeaveBlockGoes
  <2> QED BY <2>3, <2>4, ReachesOn
<1>9. CASE e.type # "SEQUENCE-END"
  <2>1. e \in NodeEvent
    BY <1>1, <1>7, <1>9 DEF Expected
  <2>2. Kept(d, v)
    <3>1. Sound(d)
      BY <1>6 DEF HasEntered, Well
    <3> QED BY <1>2, <3>1, BlockIndicatorKeeps
  <2> HIDE DEF v
  <2>3. w = EmitNode(PushState(v, state), no, no, no)
    BY <1>5, <1>9, Zenon
  <2>4. KindOf(state) = Stream!AfterChild(KindOf(c.state)) /\ state \in Inner
    BY <1>1, InnerStates DEF Stream!AfterChild
  <2> QED BY <1>1, <1>6, <2>1, <2>2, <2>3, <2>4, ChildReaches
<1> QED BY <1>8, <1>9

LEMMA BlockMappingKeyReaches ==
    ASSUME NEW c, NEW p, NEW e, NEW q, Due(c, p, e, q),
           c.state \in {"BLOCK-MAPPING-FIRST-KEY", "BLOCK-MAPPING-KEY"},
           NEW first, first = (c.state = "BLOCK-MAPPING-FIRST-KEY"),
           NEW w, w = BlockMappingKey(c, first)
    PROVE  Reaches(c, w, q)
<1> DEFINE begin == "BLOCK-MAPPING-FIRST-KEY"
           yes == TRUE
           no == FALSE
           d == IF first THEN IncreaseIndent(c, no, no) ELSE c
           v == WriteIndent(d)
           u == BlockIndicator(WriteIndent(d), "?")
           simple == CheckSimpleKey(c)
<1>1. /\ c.state \in Inner /\ KindOf(c.state) = "key"
      /\ begin \in Inner \ (FlowStates \cup BlockStates)
      /\ c.state \in BlockStates \cup {begin}
      /\ "BLOCK-MAPPING-SIMPLE-VALUE" \in BlockStates /\ "BLOCK-MAPPING-VALUE" \in BlockStates
      /\ KindOf("BLOCK-MAPPING-SIMPLE-VALUE") = "value" /\ KindOf("BLOCK-MAPPING-VALUE") = "value"
  BY DEF Inner, KindOf, SequenceStates, KeyStates, ValueStates, FlowStates, BlockStates
<1>2. "?" \in Indicator
  BY DEF Indicator
<1>3. d = IF c.state = begin THEN IncreaseIndent(c, no, no) ELSE c
  BY Zenon
<1>4. Head(c.events) = e
  BY DEF Due
<1>5. /\ e.type = "MAPPING-END" => w = LeaveBlock(d)
      /\ e.type # "MAPPING-END" /\ simple
            => w = EmitNode(PushState(v, "BLOCK-MAPPING-SIMPLE-VALUE"), no, yes, yes)
      /\ e.type # "MAPPING-END" /\ ~simple
            => w = EmitNode(PushState(u, "BLOCK-MAPPING-VALUE"), no, yes, no)
  <2>1. ASSUME e.type = "MAPPING-END" PROVE w = LeaveBlock(d)
    BY <1>4, <2>1, Zenon DEF BlockMappingKey
  <2>2. ASSUME e.type # "MAPPING-END", simple
        PROVE  w = EmitNode(PushState(v, "BLOCK-MAPPING-SIMPLE-VALUE"), no, yes, yes)
    BY <1>4, <2>2, Zenon DEF BlockMappingKey
  <2>3. ASSUME e.type # "MAPPING-END", ~simple
        PROVE  w = EmitNode(PushState(u, "BLOCK-MAPPING-VALUE"), no, yes, no)
    BY <1>4, <2>3, Zenon DEF BlockMappingKey
  <2> QED BY <2>1, <2>2, <2>3
<1> HIDE DEF d, begin, no, yes, simple
<1>6. \A state \in BlockStates : HasEntered(c, d, e, state)
  BY <1>1, <1>3, EnteredBlock
<1>7. /\ c.states \in Seq(Inner) /\ c.states # <<>> /\ q.phase = "stream" /\ Expected(c, p, e, q)
  BY <1>1, AtWork
<1>8. CASE e.type = "MAPPING-END"
  <2>1. q.open = Opened(c.states)
    <3>1. e \in Event
      BY DEF Due
    <3> QED BY <1>1, <1>7, <1>8, <3>1, EventTypes DEF Expected, NodeType
  <2>2. w = LeaveBlock(d)
    BY <1>5, <1>8, Zenon
  <2> DEFINE state == "BLOCK-MAPPING-VALUE"
  <2>3. state \in BlockStates
    BY <1>1
  <2> HIDE DEF state
  <2>4. Well(d) /\ Went(c, d) /\ (d.ok => d.states = c.states /\ Stage(d, state))
    BY <1>6, <2>3 DEF HasEntered
  <2>5. Reaches(d, w, q)
    BY <1>7, <2>1, <2>2, <2>3, <2>4, LeaveBlockGoes
  <2> QED BY <2>4, <2>5, ReachesOn
<1>9. CASE e.type # "MAPPING-END"
  <2>1. e \in NodeEvent
    BY <1>1, <1>7, <1>9 DEF Expected
  <2>2. Kept(d, v) /\ Kept(d, u)
    <3>1. Sound(d)
      BY <1>1, <1>6 DEF HasEntered, Well
    <3> QED BY <1>2, <3>1, BlockIndicatorKeeps
  <2> HIDE DEF v, u
  <2>4. CASE simple
    <3> DEFINE state == "BLOCK-MAPPING-SIMPLE-VALUE"
    <3>1. w = EmitNode(PushState(v, state), no, yes, yes)
      BY <1>5, <1>9, <2>4, Zenon
    <3>2. /\ KindOf(state) = Stream!AfterChild(KindOf(c.state)) /\ state \in Inner
          /\ HasEntered(c, d, e, state)
      BY <1>1, <1>6, InnerStates DEF Stream!AfterChild
    <3> HIDE DEF state
    <3> QED BY <1>1, <2>1, <2>2, <3>1, <3>2, ChildReaches
  <2>5. CASE ~simple
    <3> DEFINE state == "BLOCK-MAPPING-VALUE"
    <3>1. w = EmitNode(PushState(u, state), no, yes, no)
      BY <1>5, <1>9, <2>5, Zenon
    <3>2. /\ KindOf(state) = Stream!AfterChild(KindOf(c.state)) /\ state \in Inner
          /\ HasEntered(c, d, e, state)
      BY <1>1, <1>6, InnerStates DEF Stream!AfterChild
    <3> HIDE DEF state
    <3> QED BY <1>1, <2>1, <2>2, <3>1, <3>2, ChildReaches
  <2> QED BY <2>4, <2>5
<1> QED BY <1>8, <1>9

LEMMA BlockMappingValueReaches ==
    ASSUME NEW c, NEW p, NEW e, NEW q, Due(c, p, e, q),
           c.state \in {"BLOCK-MAPPING-SIMPLE-VALUE", "BLOCK-MAPPING-VALUE"},
           NEW simple, NEW w, w = BlockMappingValue(c, simple)
    PROVE  Reaches(c, w, q)
<1> DEFINE state == "BLOCK-MAPPING-KEY"
           v == IF simple THEN Tight(c, ":") ELSE BlockIndicator(WriteIndent(c), ":")
           yes == TRUE
           no == FALSE
<1>1. /\ c.state \in Inner /\ KindOf(c.state) = "value" /\ KindOf(state) = "key"
      /\ state \in BlockStates /\ c.state \in BlockStates
  BY DEF Inner, KindOf, SequenceStates, KeyStates, ValueStates, FlowStates, BlockStates
<1>2. w = EmitNode(PushState(v, state), no, yes, no)
  BY Zenon DEF BlockMappingValue
<1>3. KindOf(state) = Stream!AfterChild(KindOf(c.state)) /\ state \in Inner
  BY <1>1, InnerStates DEF Stream!AfterChild
<1> HIDE DEF state, yes, no
<1>4. Well(c) /\ c.ok /\ Stage(c, c.state) /\ Expected(c, p, e, q)
  BY <1>1, AtWork
<1>5. e \in NodeEvent
  BY <1>1, <1>4 DEF Expected
<1>6. HasEntered(c, c, e, state)
  <2>1. Stage(c, state)
    BY <1>1, <1>3, <1>4, StageAlike DEF Alike
  <2> QED BY <1>4, <2>1, WentSelf DEF HasEntered, Due
<1>7. Kept(c, v)
  <2>1. Sound(c) /\ ":" \in Indicator
    BY <1>4 DEF Well, Indicator
  <2>2. Kept(c, Tight(c, ":")) /\ Kept(c, BlockIndicator(WriteIndent(c), ":"))
    BY <2>1, TightKeeps, BlockIndicatorKeeps
  <2> QED BY <2>2, Zenon
<1> HIDE DEF v
<1> QED BY <1>1, <1>2, <1>3, <1>5, <1>6, <1>7, ChildReaches

-----------------------------------------------------------------------------
(***************************************************************************)
(* The tag directives of a document.                                       *)
(***************************************************************************)
(* A step that changes nothing but tag directives.                         *)
Near(c, d) ==
    /\ Well(d) /\ SameStates(c, d) /\ SameLevels(c, d)
    /\ d.events = c.events /\ d.canonical = c.canonical /\ d.text = c.text
    /\ ~c.ok => d = c
    /\ d.ok => c.ok /\ d.error = c.error

Knows(c, directive) == directive.handle \in HandlesOf(c.tagDirectives)

(* The directive cannot be added: it is no good, or already there.         *)
Spoilt(c, directive) == directive.handle = BadHandle \/ Knows(c, directive)

(* The document of the event cannot start. *)
Undeclarable(c, e) ==
    \/ e.version \notin {"none", "1.1"}
    \/ e.tagDirectives # <<>> /\ Spoilt(c, e.tagDirectives[1])

LEMMA FailNears ==
    ASSUME NEW c, Well(c), c.ok, NEW kind \in {"none", "emitter", "writer"},
           NEW d, d = Fail(c, kind)
    PROVE  Near(c, d) /\ ~d.ok /\ d.error = kind /\ d.tagDirectives = c.tagDirectives
<1>1. Sound(d) /\ SamePlace(c, d) /\ ~d.ok /\ d.error = kind /\ d.text = c.text
  BY FailKeeps DEF Well
<1>2. Typed(d)
  BY <1>1 DEF Well, Typed, SamePlace
<1> QED BY <1>1, <1>2 DEF Near, Well, SamePlace, SameStates, SameLevels

LEMMA NearOn ==
    ASSUME NEW c, NEW d, NEW w, Near(c, d), Near(d, w)
    PROVE  Near(c, w)
BY DEF Near, SameStates, SameLevels

LEMMA NearSelf ==
    ASSUME NEW c, Well(c)
    PROVE  Near(c, c)
BY DEF Near, SameStates, SameLevels

LEMMA AddDirectiveNears ==
    ASSUME NEW c, Well(c), c.ok, NEW directive \in [handle : Handles \cup {BadHandle}, prefix : TagPrefixes],
           NEW allowDuplicates, NEW d, d = AddDirective(c, directive, allowDuplicates)
    PROVE  /\ Near(c, d)
           /\ d.ok => Knows(d, directive)
           /\ \A i \in DOMAIN c.tagDirectives : Knows(d, c.tagDirectives[i])
           /\ ~d.ok => d.error = "emitter" /\ Spoilt(d, directive)
           /\ allowDuplicates /\ directive.handle # BadHandle => d.ok
           /\ ~allowDuplicates /\ Spoilt(c, directive) => ~d.ok
<1>1. c.tagDirectives \in Seq(Directive)
  BY DEF Well, Typed
<1>2. \A i \in DOMAIN c.tagDirectives : Knows(c, c.tagDirectives[i])
  BY DEF Knows, HandlesOf
<1>3. CASE directive.handle = BadHandle
  <2>1. d = Fail(c, "emitter")
    BY <1>3, Zenon DEF AddDirective
  <2>2. Near(c, d) /\ ~d.ok /\ d.error = "emitter" /\ d.tagDirectives = c.tagDirectives
    BY <2>1, FailNears
  <2> QED BY <1>2, <1>3, <2>2 DEF Spoilt, Knows
<1>4. CASE directive.handle # BadHandle /\ ~Knows(c, directive)
  <2>1. directive \in Directive
    BY <1>4 DEF Directive
  <2> DEFINE more == Append(c.tagDirectives, directive)
  <2>2. d = [c EXCEPT !.tagDirectives = more]
    BY <1>4, Zenon DEF AddDirective, AppendTagDirective, Knows, Then
  <2>3. /\ more \in Seq(Directive) /\ DOMAIN more = 1 .. Len(c.tagDirectives) + 1
        /\ more[Len(c.tagDirectives) + 1] = directive /\ Len(c.tagDirectives) \in Nat
        /\ \A i \in DOMAIN c.tagDirectives : more[i] = c.tagDirectives[i] /\ i \in DOMAIN more
    BY <1>1, <2>1, AppendProperties, LenProperties
  <2> HIDE DEF more
  <2>4. /\ IsEmitter(d) /\ SameStates(c, d) /\ SameLevels(c, d) /\ SameOutcome(c, d)
        /\ d.events = c.events /\ d.canonical = c.canonical /\ d.column = c.column
        /\ d.line = c.line /\ d.tagDirectives = more /\ d.text = c.text
    BY <2>2, ZenonT(40) DEF Well, Sound, IsEmitter, SameStates, SameLevels, SameOutcome
  <2>5. Sound(d) /\ Typed(d)
    BY <2>3, <2>4, Zenon DEF Well, Sound, Typed, SameStates, SameLevels, SameOutcome
  <2>6. Knows(d, directive)
    <3>1. Len(c.tagDirectives) + 1 \in DOMAIN more
      BY <2>3
    <3> QED BY <2>3, <2>4, <3>1 DEF Knows, HandlesOf
  <2>7. \A i \in DOMAIN c.tagDirectives : Knows(d, c.tagDirectives[i])
    BY <2>3, <2>4 DEF Knows, HandlesOf
  <2> QED BY <1>4, <2>4, <2>5, <2>6, <2>7 DEF Near, Well, SameOutcome, Spoilt
<1>5. CASE directive.handle # BadHandle /\ Knows(c, directive) /\ allowDuplicates
  <2>1. d = c
    BY <1>5, Zenon DEF AddDirective, AppendTagDirective, Knows
  <2> QED BY <1>2, <1>5, <2>1, NearSelf
<1>6. CASE directive.handle # BadHandle /\ Knows(c, directive) /\ ~allowDuplicates
  <2>1. d = Fail(c, "emitter")
    BY <1>6, Zenon DEF AddDirective, AppendTagDirective, Knows
  <2>2. Near(c, d) /\ ~d.ok /\ d.error = "emitter" /\ d.tagDirectives = c.tagDirectives
    BY <2>1, FailNears
  <2> QED BY <1>2, <1>6, <2>2 DEF Spoilt, Knows
<1> QED BY <1>3, <1>4, <1>5, <1>6

(* A step that fails leaves the emitter alone from then on.                *)
LEMMA AddDirectiveStays ==
    ASSUME NEW c, ~c.ok, NEW directive, NEW allowDuplicates
    PROVE  AddDirective(c, directive, allowDuplicates) = c
BY Zenon DEF AddDirective, AppendTagDirective, Fail, Then

(* The loop of AddDirectives.                                               *)
Additions(f, c, directives, allowDuplicates, n) ==
    f = [i \in 0 .. n |-> IF i = 0 THEN c ELSE AddDirective(f[i - 1], directives[i], allowDuplicates)]

LEMMA AdditionsExist ==
    ASSUME NEW c, NEW directives, NEW allowDuplicates, NEW n \in Nat
    PROVE  \E f : Additions(f, c, directives, allowDuplicates, n)
<1> DEFINE T == {k \in Nat : \E f : Additions(f, c, directives, allowDuplicates, k)}
<1>1. 0 \in T
  <2> DEFINE f == [i \in 0 .. 0 |-> c]
  <2>1. Additions(f, c, directives, allowDuplicates, 0)
    BY DEF Additions
  <2> QED BY <2>1
<1>2. ASSUME NEW k \in T PROVE k + 1 \in T
  <2>1. PICK f : Additions(f, c, directives, allowDuplicates, k)
    OBVIOUS
  <2> DEFINE g == [i \in 0 .. k + 1 |-> IF i \in 0 .. k THEN f[i]
                                        ELSE AddDirective(f[k], directives[i], allowDuplicates)]
  <2>2. ASSUME NEW i \in 0 .. k + 1
        PROVE  g[i] = IF i = 0 THEN c ELSE AddDirective(g[i - 1], directives[i], allowDuplicates)
    <3>1. CASE i = 0
      BY <2>1, <3>1 DEF Additions
    <3>2. CASE i \in 0 .. k /\ i # 0
      <4>1. i - 1 \in 0 .. k /\ i - 1 \in 0 .. k + 1
        BY <3>2
      <4>2. g[i] = f[i] /\ g[i - 1] = f[i - 1]
        BY <3>2, <4>1
      <4>3. f[i] = AddDirective(f[i - 1], directives[i], allowDuplicates)
        BY <2>1, <3>2 DEF Additions
      <4> QED BY <3>2, <4>2, <4>3
    <3>3. CASE i \notin 0 .. k
      <4>1. i - 1 = k /\ k \in 0 .. k /\ k \in 0 .. k + 1 /\ i # 0
        BY <3>3
      <4>2. g[i] = AddDirective(f[k], directives[i], allowDuplicates) /\ g[k] = f[k]
        BY <3>3, <4>1
      <4> QED BY <4>1, <4>2
    <3> QED BY <3>1, <3>2, <3>3
  <2>3. g = [i \in 0 .. k + 1 |-> g[i]]
    OBVIOUS
  <2> HIDE DEF g
  <2>4. Additions(g, c, directives, allowDuplicates, k + 1)
    BY <2>2, <2>3 DEF Additions
  <2> QED BY <2>4
<1>3. T = Nat
  <2> HIDE DEF T
  <2>1. T \in SUBSET Nat
    BY DEF T
  <2> QED BY <1>1, <1>2, <2>1, SetInduction
<1> QED BY <1>3

(* The directives up to the n-th are added, or one cannot be: then the     *)
(* first could not be, or has been added.                                  *)
Added(c, d, directives, allowDuplicates, n) ==
    /\ Near(c, d)
    /\ d.ok /\ n > 0 => Knows(d, directives[1])
    /\ c.ok /\ ~d.ok => d.error = "emitter" /\ n > 0 /\ Spoilt(d, directives[1])
    /\ c.ok /\ ~allowDuplicates /\ n > 0 /\ Spoilt(c, directives[1]) => ~d.ok
    /\ c.ok /\ allowDuplicates /\ (\A i \in DOMAIN directives : directives[i].handle # BadHandle)
         => d.ok

LEMMA KnownStays ==
    ASSUME NEW c, NEW directive, Knows(c, directive), NEW d,
           \A i \in DOMAIN c.tagDirectives : Knows(d, c.tagDirectives[i])
    PROVE  Knows(d, directive)
BY DEF Knows, HandlesOf

LEMMA AdditionsAdd ==
    ASSUME NEW c, Well(c), NEW allowDuplicates,
           NEW directives \in Seq([handle : Handles \cup {BadHandle}, prefix : TagPrefixes]),
           NEW n \in Nat, n <= Len(directives),
           NEW f, Additions(f, c, directives, allowDuplicates, n)
    PROVE  Added(c, f[n], directives, allowDuplicates, n)
<1> DEFINE T == {k \in Nat : k <= n => Added(c, f[k], directives, allowDuplicates, k)}
<1>1. 0 \in T
  <2>1. f[0] = c
    BY DEF Additions
  <2>2. Added(c, c, directives, allowDuplicates, 0)
    BY NearSelf DEF Added
  <2> QED BY <2>1, <2>2
<1>2. ASSUME NEW k \in T PROVE k + 1 \in T
  <2> SUFFICES ASSUME k + 1 <= n PROVE Added(c, f[k + 1], directives, allowDuplicates, k + 1)
    OBVIOUS
  <2> DEFINE d == f[k]
             w == f[k + 1]
             directive == directives[k + 1]
  <2>1. w = AddDirective(d, directive, allowDuplicates)
    <3>1. k + 1 \in 0 .. n /\ k + 1 # 0 /\ k + 1 - 1 = k
      OBVIOUS
    <3> QED BY <3>1 DEF Additions
  <2>2. Added(c, d, directives, allowDuplicates, k)
    OBVIOUS
  <2>3. /\ directive \in [handle : Handles \cup {BadHandle}, prefix : TagPrefixes]
        /\ k + 1 \in DOMAIN directives
        /\ k = 0 => directive = directives[1]
        /\ k + 1 > 0
        /\ k # 0 => k > 0
    <3>1. Len(directives) \in Nat /\ DOMAIN directives = 1 .. Len(directives)
      BY LenProperties
    <3>2. k \in Nat
      OBVIOUS
    <3>3. k + 1 \in 1 .. Len(directives)
      BY <3>1, <3>2
    <3>4. directive \in [handle : Handles \cup {BadHandle}, prefix : TagPrefixes]
      BY <3>3, ElementOfSeq
    <3> QED BY <3>1, <3>2, <3>3, <3>4
  <2>6. k = 0 => d = c
    BY DEF Additions
  <2> HIDE DEF d, w, directive
  <2>4. CASE ~d.ok
    <3>1. w = d
      BY <2>1, <2>4, AddDirectiveStays
    <3> QED BY <2>2, <2>3, <2>4, <3>1 DEF Added, d, w
  <2>5. CASE d.ok
    <3>1. Well(d) /\ c.ok /\ Near(c, d)
      BY <2>2, <2>5 DEF Added, Near
    <3>2. /\ Near(d, w)
          /\ w.ok => Knows(w, directive)
          /\ \A i \in DOMAIN d.tagDirectives : Knows(w, d.tagDirectives[i])
          /\ ~w.ok => w.error = "emitter" /\ Spoilt(w, directive)
          /\ allowDuplicates /\ directive.handle # BadHandle => w.ok
          /\ ~allowDuplicates /\ Spoilt(d, directive) => ~w.ok
      BY <2>1, <2>3, <2>5, <3>1, AddDirectiveNears
    <3>3. Near(c, w)
      BY <3>1, <3>2, NearOn
    <3>4. k # 0 => Knows(w, directives[1])
      BY <2>2, <2>3, <2>5, <3>2, KnownStays DEF Added
    <3>5. w.ok => Knows(w, directives[1])
      BY <2>3, <3>2, <3>4
    <3>6. ~w.ok => w.error = "emitter" /\ Spoilt(w, directives[1])
      BY <2>3, <3>2, <3>4 DEF Spoilt
    <3>7. allowDuplicates /\ (\A i \in DOMAIN directives : directives[i].handle # BadHandle) => w.ok
      BY <2>3, <3>2 DEF directive
    <3>8. ASSUME ~allowDuplicates, Spoilt(c, directives[1]) PROVE ~w.ok
      <4>1. k = 0 /\ d = c
        BY <2>2, <2>3, <2>5, <2>6, <3>1, <3>8 DEF Added
      <4> QED BY <2>3, <3>2, <3>8, <4>1
    <3>9. Added(c, w, directives, allowDuplicates, k + 1)
      BY <2>3, <3>3, <3>5, <3>6, <3>7, <3>8 DEF Added
    <3> QED BY <3>9 DEF w
  <2> QED BY <2>4, <2>5
<1>3. T = Nat
  <2> HIDE DEF T
  <2>1. T \in SUBSET Nat
    BY DEF T
  <2> QED BY <1>1, <1>2, <2>1, SetInduction
<1> QED BY <1>3

LEMMA AddDirectivesAdds ==
    ASSUME NEW c, Well(c), NEW allowDuplicates,
           NEW directives \in Seq([handle : Handles \cup {BadHandle}, prefix : TagPrefixes])
    PROVE  Added(c, AddDirectives(c, directives, allowDuplicates), directives, allowDuplicates,
                 Len(directives))
<1> DEFINE n == Len(directives)
           f == CHOOSE f : Additions(f, c, directives, allowDuplicates, n)
<1>1. AddDirectives(c, directives, allowDuplicates) = f[n]
  BY DEF AddDirectives, Additions
<1>2. n \in Nat /\ n <= Len(directives)
  BY LenProperties
<1>3. Additions(f, c, directives, allowDuplicates, n)
  <2> HIDE DEF n
  <2> QED BY <1>2, AdditionsExist
<1> HIDE DEF f
<1>4. Added(c, f[n], directives, allowDuplicates, n)
  <2> HIDE DEF n
  <2> QED BY <1>2, <1>3, AdditionsAdd
<1> QED BY <1>1, <1>4

LEMMA WriteTagDirectiveKeeps ==
    ASSUME NEW c, Sound(c), NEW directive
    PROVE  Kept(c, WriteTagDirective(c, directive))
<1> DEFINE d == WriteIndicator(c, "%TAG", <<directive.handle, directive.prefix>>, TRUE, FALSE, FALSE)
<1>1. "%TAG" \in Indicator
  BY DEF Indicator
<1>2. Kept(c, d)
  BY <1>1, WriteIndicatorKeeps
<1> HIDE DEF d
<1>3. Kept(d, WriteIndent(d))
  BY <1>2, WriteIndentDraws DEF Kept, Drawn
<1>4. Kept(c, WriteIndent(d))
  BY <1>2, <1>3, KeptOn
<1> QED BY <1>4 DEF WriteTagDirective, d

(* The loop of WriteTagDirectives.                                          *)
Declarations(f, c, directives, n) ==
    f = [i \in 0 .. n |-> IF i = 0 THEN c ELSE WriteTagDirective(f[i - 1], directives[i])]

LEMMA DeclarationsExist ==
    ASSUME NEW c, NEW directives, NEW n \in Nat
    PROVE  \E f : Declarations(f, c, directives, n)
<1> DEFINE T == {k \in Nat : \E f : Declarations(f, c, directives, k)}
<1>1. 0 \in T
  <2> DEFINE f == [i \in 0 .. 0 |-> c]
  <2>1. Declarations(f, c, directives, 0)
    BY DEF Declarations
  <2> QED BY <2>1
<1>2. ASSUME NEW k \in T PROVE k + 1 \in T
  <2>1. PICK f : Declarations(f, c, directives, k)
    OBVIOUS
  <2> DEFINE g == [i \in 0 .. k + 1 |-> IF i \in 0 .. k THEN f[i]
                                        ELSE WriteTagDirective(f[k], directives[i])]
  <2>2. ASSUME NEW i \in 0 .. k + 1
        PROVE  g[i] = IF i = 0 THEN c ELSE WriteTagDirective(g[i - 1], directives[i])
    <3>1. CASE i = 0
      BY <2>1, <3>1 DEF Declarations
    <3>2. CASE i \in 0 .. k /\ i # 0
      <4>1. i - 1 \in 0 .. k /\ i - 1 \in 0 .. k + 1
        BY <3>2
      <4>2. g[i] = f[i] /\ g[i - 1] = f[i - 1]
        BY <3>2, <4>1
      <4>3. f[i] = WriteTagDirective(f[i - 1], directives[i])
        BY <2>1, <3>2 DEF Declarations
      <4> QED BY <3>2, <4>2, <4>3
    <3>3. CASE i \notin 0 .. k
      <4>1. i - 1 = k /\ k \in 0 .. k /\ k \in 0 .. k + 1 /\ i # 0
        BY <3>3
      <4>2. g[i] = WriteTagDirective(f[k], directives[i]) /\ g[k] = f[k]
        BY <3>3, <4>1
      <4> QED BY <4>1, <4>2
    <3> QED BY <3>1, <3>2, <3>3
  <2>3. g = [i \in 0 .. k + 1 |-> g[i]]
    OBVIOUS
  <2> HIDE DEF g
  <2>4. Declarations(g, c, directives, k + 1)
    BY <2>2, <2>3 DEF Declarations
  <2> QED BY <2>4
<1>3. T = Nat
  <2> HIDE DEF T
  <2>1. T \in SUBSET Nat
    BY DEF T
  <2> QED BY <1>1, <1>2, <2>1, SetInduction
<1> QED BY <1>3

LEMMA WriteTagDirectivesKeeps ==
    ASSUME NEW c, Sound(c), NEW directives, Len(directives) \in Nat
    PROVE  Kept(c, WriteTagDirectives(c, directives))
<1> DEFINE n == Len(directives)
           f == CHOOSE f : Declarations(f, c, directives, n)
           T == {k \in Nat : k <= n => Kept(c, f[k])}
<1>1. WriteTagDirectives(c, directives) = f[n]
  BY DEF WriteTagDirectives, Declarations
<1>2. Declarations(f, c, directives, n)
  <2> HIDE DEF n
  <2>1. n \in Nat
    BY DEF n
  <2> QED BY <2>1, DeclarationsExist
<1> HIDE DEF f
<1>3. 0 \in T
  <2>1. f[0] = c
    BY <1>2 DEF Declarations
  <2> QED BY <2>1, KeptSelf
<1>4. ASSUME NEW k \in T PROVE k + 1 \in T
  <2> SUFFICES ASSUME k + 1 <= n PROVE Kept(c, f[k + 1])
    OBVIOUS
  <2> DEFINE d == f[k]
  <2>1. f[k + 1] = WriteTagDirective(d, directives[k + 1])
    <3>1. k + 1 \in 0 .. n /\ k + 1 # 0 /\ k + 1 - 1 = k
      OBVIOUS
    <3> QED BY <1>2, <3>1 DEF Declarations
  <2>2. Kept(c, d)
    OBVIOUS
  <2> HIDE DEF d
  <2>3. Kept(d, WriteTagDirective(d, directives[k + 1]))
    BY <2>2, WriteTagDirectiveKeeps DEF Kept
  <2> QED BY <2>1, <2>2, <2>3, KeptOn
<1>5. T = Nat
  <2> HIDE DEF T
  <2>1. T \in SUBSET Nat
    BY DEF T
  <2> QED BY <1>3, <1>4, <2>1, SetInduction
<1>6. Kept(c, f[n])
  BY <1>5
<1> QED BY <1>1, <1>6

-----------------------------------------------------------------------------
(***************************************************************************)
(* The stream and its documents.                                           *)
(***************************************************************************)
(* The head of the queue is refused, whatever follows. *)
Doomed(c) ==
    /\ c.events # <<>> /\ ~NeedMoreEvents(c.events)
    /\ LET e == Head(c.events)
       IN  \/ Refused(c, e)
           \/ /\ e.type = "DOCUMENT-START" /\ Undeclarable(c, e)
              /\ c.state \in {"FIRST-DOCUMENT-START", "DOCUMENT-START"}

(* A handler has led the emitter to q, or its event is refused for good.   *)
Handled(c, d, q) ==
    /\ Well(d) /\ d.events = c.events /\ d.canonical = c.canonical
    /\ d.ok => Mirrors(d, q) /\ d.error = c.error
    /\ ~d.ok => d.error = "writer" \/ (d.error = "emitter" /\ Doomed(d))

LEMMA ReachingIsHandling ==
    ASSUME NEW c, c.ok, NEW d, NEW q, Reaches(c, d, q)
    PROVE  Handled(c, d, q)
BY DEF Reaches, Went, Handled

LEMMA DocumentContentReaches ==
    ASSUME NEW c, NEW p, NEW e, NEW q, Due(c, p, e, q), c.state = "DOCUMENT-CONTENT",
           NEW w, w = DocumentContent(c)
    PROVE  Reaches(c, w, q)
<1> DEFINE state == "DOCUMENT-END"
           yes == TRUE
           no == FALSE
<1>1. /\ c.state \in Inner /\ KindOf(c.state) = "root" /\ KindOf(state) = "docEnd"
      /\ state \notin FlowStates \cup BlockStates /\ c.state \notin FlowStates \cup BlockStates
      /\ state \in Inner
  BY DEF Inner, KindOf, SequenceStates, KeyStates, ValueStates, FlowStates, BlockStates
<1>2. w = EmitNode(PushState(c, state), yes, no, no)
  BY Zenon DEF DocumentContent
<1>3. KindOf(state) = Stream!AfterChild(KindOf(c.state))
  BY <1>1 DEF Stream!AfterChild
<1> HIDE DEF state, yes, no
<1>4. Well(c) /\ c.ok /\ Stage(c, c.state) /\ Expected(c, p, e, q)
  BY <1>1, AtWork
<1>5. e \in NodeEvent
  BY <1>1, <1>4 DEF Expected
<1>6. HasEntered(c, c, e, state)
  <2>1. Stage(c, state)
    BY <1>1, <1>4, StageAlike DEF Alike
  <2> QED BY <1>4, <2>1, WentSelf DEF HasEntered, Due
<1>7. Kept(c, c)
  BY <1>4, KeptSelf DEF Well
<1> QED BY <1>1, <1>2, <1>3, <1>5, <1>6, <1>7, ChildReaches

Outer == {"STREAM-START", "FIRST-DOCUMENT-START", "DOCUMENT-START", "END"}

LEMMA ShallowPath ==
    ASSUME NEW state \in State \ (FlowStates \cup BlockStates)
    PROVE  /\ FlowDepth(Append(<<>>, state)) = 0
           /\ IndentDepth(Append(<<>>, state)) = 0
           /\ state \notin Inner => Opened(Append(<<>>, state)) = <<>>
           /\ state \in Inner => Opened(Append(<<>>, state)) = <<KindOf(state)>>
<1> DEFINE s == <<>>
<1>1. s \in Seq(State) /\ FlowDepth(s) = 0 /\ IndentDepth(s) = 0 /\ Opened(s) = <<>>
  BY EmptyPath
<1>2. Append(s, KindOf(state)) = <<KindOf(state)>> /\ Append(<<>>, state) = Append(s, state)
  OBVIOUS
<1> HIDE DEF s
<1>3. state \in State /\ state \notin FlowStates /\ state \notin FlowStates \cup BlockStates
  OBVIOUS
<1>4. FlowDepth(Append(s, state)) = FlowDepth(s) + 0 /\ IndentDepth(Append(s, state)) = IndentDepth(s) + 0
  BY <1>1, <1>3, PathGrows
<1>5. /\ state \in Inner => Opened(Append(s, state)) = Append(Opened(s), KindOf(state))
      /\ state \notin Inner => Opened(Append(s, state)) = Opened(s)
  BY <1>1, <1>3, PathGrows
<1>6. FlowDepth(Append(s, state)) = 0 /\ IndentDepth(Append(s, state)) = 0
  BY <1>1, <1>4
<1>7. /\ state \in Inner => Opened(Append(s, state)) = <<KindOf(state)>>
      /\ state \notin Inner => Opened(Append(s, state)) = <<>>
  BY <1>1, <1>5
<1> QED BY <1>2, <1>6, <1>7, Zenon

(* Between documents nothing is left of any. *)
LEMMA OutsideDocuments ==
    ASSUME NEW c, NEW p, Well(c), Mirrors(c, p), c.state \in Outer
    PROVE  /\ c.states = <<>> /\ c.tagDirectives = <<>> /\ c.flowLevel = 0 /\ c.indents = <<>>
           /\ p.open = <<>>
           /\ c.state # "STREAM-START" => c.indent = -1
<1>1. c.state \in State /\ c.state \notin Inner /\ c.state \notin FlowStates \cup BlockStates
  BY DEF Outer, State, Inner, FlowStates, BlockStates, SequenceStates, KeyStates, ValueStates
<1>2. c.states = <<>> /\ c.tagDirectives = <<>>
  BY <1>1 DEF Mirrors
<1>4. /\ FlowDepth(Append(<<>>, c.state)) = 0
      /\ IndentDepth(Append(<<>>, c.state)) = 0
      /\ Opened(Append(<<>>, c.state)) = <<>>
  BY <1>1, ShallowPath
<1>5. Path(c) = Append(<<>>, c.state)
  BY <1>2 DEF Path
<1>6. c.flowLevel = 0 /\ Len(c.indents) = 0 /\ p.open = <<>>
  BY <1>4, <1>5 DEF Mirrors, Levelled
<1>7. c.indents = <<>>
  BY <1>6, EmptySeq DEF Well, Typed
<1>8. ASSUME c.state # "STREAM-START" PROVE c.indent = -1
  <2>1. Bottom(c) = -1
    BY <1>8 DEF Mirrors
  <2>2. Append(<<>>, c.indent)[1] = c.indent
    OBVIOUS
  <2> QED BY <1>7, <2>1, <2>2 DEF Bottom
<1> QED BY <1>2, <1>6, <1>7, <1>8

LEMMA BetweenDocuments ==
    ASSUME NEW d, d.state \in Outer, d.states = <<>>, d.tagDirectives = <<>>,
           d.flowLevel = 0, d.indents = <<>>, d.indent = -1,
           NEW q, q.open = <<>>, q.phase \in {"stream", "ended"},
           q.phase = "ended" <=> d.state = "END", d.state # "STREAM-START"
    PROVE  Mirrors(d, q)
<1>1. d.state \in State /\ d.state \notin Inner /\ d.state \notin FlowStates \cup BlockStates
  BY DEF Outer, State, Inner, FlowStates, BlockStates, SequenceStates, KeyStates, ValueStates
<1>2. <<>> \in Seq(State) /\ <<>> \in Seq(Inner)
  OBVIOUS
<1>3. /\ FlowDepth(Append(<<>>, d.state)) = 0
      /\ IndentDepth(Append(<<>>, d.state)) = 0
      /\ Opened(Append(<<>>, d.state)) = <<>>
  BY <1>1, ShallowPath
<1>4. Path(d) = Append(<<>>, d.state)
  BY DEF Path
<1>5. Levelled(d, Path(d))
  BY <1>3, <1>4 DEF Levelled
<1>6. Bottom(d) = -1
  <2>1. Append(<<>>, d.indent)[1] = d.indent
    OBVIOUS
  <2> QED BY <2>1 DEF Bottom
<1> QED BY <1>2, <1>3, <1>4, <1>5, <1>6 DEF Mirrors

LEMMA DotsKeep ==
    ASSUME NEW c, Sound(c), NEW what \in Indicator
    PROVE  Kept(c, WriteIndent(Apart(c, what)))
<1> DEFINE d == Apart(c, what)
<1>1. Kept(c, d)
  BY TightKeeps
<1> HIDE DEF d
<1>2. Kept(d, WriteIndent(d))
  BY <1>1, WriteIndentDraws DEF Kept, Drawn
<1>3. Kept(c, WriteIndent(d))
  BY <1>1, <1>2, KeptOn
<1> QED BY <1>3 DEF d

LEMMA EndOpenScalarKeeps ==
    ASSUME NEW c, Sound(c)
    PROVE  Kept(c, EndOpenScalar(c))
<1>1. "..." \in Indicator
  BY DEF Indicator
<1> QED BY <1>1, DotsKeep, KeptSelf DEF EndOpenScalar

LEMMA DocumentEndHandles ==
    ASSUME NEW c, NEW p, NEW e, NEW q, Due(c, p, e, q), c.state = "DOCUMENT-END",
           NEW w, w = DocumentEnd(c)
    PROVE  Handled(c, w, q)
<1> DEFINE d == WriteIndent(c)
           t == IF e.implicit THEN d ELSE WriteIndent(Apart(d, "..."))
           v == Flush(t)
<1>1. c.state \in Inner /\ KindOf(c.state) = "docEnd" /\ c.state \notin FlowStates \cup BlockStates
  BY DEF Inner, KindOf, FlowStates, BlockStates, SequenceStates, KeyStates, ValueStates
<1>2. /\ Well(c) /\ c.ok /\ Stage(c, c.state) /\ q.phase = "stream" /\ Expected(c, p, e, q)
      /\ Head(c.events) = e
  BY <1>1, AtWork DEF Due
<1>3. e.type = "DOCUMENT-END" /\ q.open = <<>> /\ c.states = <<>>
  BY <1>1, <1>2 DEF Expected
<1>4. w = Then(v, LAMBDA x : [x EXCEPT !.state = "DOCUMENT-START", !.tagDirectives = <<>>])
  BY <1>2, <1>3, Zenon DEF DocumentEnd
<1>5. Kept(c, d)
  BY <1>2, WriteIndentDraws DEF Well, Drawn
<1> HIDE DEF d
<1>6. Kept(d, t)
  <2>1. Sound(d) /\ "..." \in Indicator
    BY <1>5 DEF Kept, Indicator
  <2>2. Kept(d, d) /\ Kept(d, WriteIndent(Apart(d, "...")))
    BY <2>1, KeptSelf, DotsKeep
  <2> QED BY <2>2, Zenon
<1> HIDE DEF t
<1>7. Kept(t, v)
  BY <1>6, FlushKeeps DEF Kept
<1> HIDE DEF v
<1>8. Went(c, v) /\ SameStates(c, v) /\ SameLevels(c, v)
  BY <1>2, <1>5, <1>6, <1>7, KeptOn, KeptGoes
<1>9. CASE ~v.ok
  <2>1. w = v
    BY <1>4, <1>9, Zenon DEF Then
  <2> QED BY <1>2, <1>8, <1>9, <2>1 DEF Handled, Went
<1>10. CASE v.ok
  <2>1. w = [v EXCEPT !.state = "DOCUMENT-START", !.tagDirectives = <<>>]
    BY <1>4, <1>10, Zenon DEF Then
  <2>2. Well(v) /\ v.states = <<>> /\ v.events = c.events /\ v.canonical = c.canonical
        /\ v.error = c.error
    BY <1>2, <1>3, <1>8, <1>10 DEF Went, SameStates
  <2>3. /\ IsEmitter(w) /\ w.states = v.states /\ SameLevels(v, w) /\ SameOutcome(v, w)
        /\ w.events = v.events /\ w.canonical = v.canonical /\ w.column = v.column
        /\ w.line = v.line /\ w.state = "DOCUMENT-START" /\ w.tagDirectives = <<>>
    BY <2>1, <2>2, ZenonT(40) DEF Well, Sound, IsEmitter, SameLevels, SameOutcome
  <2>4. Well(w)
    <3>1. <<>> \in Seq(Directive) /\ "DOCUMENT-START" \in State
      BY DEF State
    <3>2. Sound(w)
      BY <2>2, <2>3, Zenon DEF Well, Sound, SameLevels, SameOutcome
    <3>3. Typed(w)
      BY <2>2, <2>3, <3>1, Zenon DEF Well, Typed, SameLevels, SameOutcome
    <3> QED BY <3>2, <3>3 DEF Well
  <2>5. w.flowLevel = 0 /\ w.indents = <<>> /\ w.indent = -1
    <3>1. SameLevels(c, w)
      BY <1>8, <2>3 DEF SameLevels
    <3>2. c.state \in State
      BY <1>1, InnerStates
    <3>3. /\ FlowDepth(Append(<<>>, c.state)) = 0 /\ IndentDepth(Append(<<>>, c.state)) = 0
      BY <1>1, <3>2, ShallowPath
    <3>4. c.flowLevel = 0 /\ Len(c.indents) = 0 /\ Bottom(c) = -1
      BY <1>2, <1>3, <3>3 DEF Stage, Levelled
    <3>5. c.indents = <<>>
      BY <1>2, <3>4, EmptySeq DEF Well, Typed
    <3>6. Append(<<>>, c.indent)[1] = c.indent
      OBVIOUS
    <3> QED BY <3>1, <3>4, <3>5, <3>6 DEF Bottom, SameLevels
  <2>6. "DOCUMENT-START" \in Outer
    BY DEF Outer
  <2>7. Mirrors(w, q)
    BY <1>2, <1>3, <2>2, <2>3, <2>5, <2>6, BetweenDocuments
  <2>8. w.ok = v.ok /\ w.error = v.error
    BY <2>3 DEF SameOutcome
  <2> QED BY <1>10, <2>2, <2>3, <2>4, <2>7, <2>8 DEF Handled
<1> QED BY <1>9, <1>10

(* The emitter goes on to the next document, or to the end. *)
LEMMA OutwardHandles ==
    ASSUME NEW c, NEW d, Well(d), d.events = c.events, d.canonical = c.canonical,
           d.ok => d.error = c.error, ~d.ok => d.error = "writer",
           d.states = <<>>, d.tagDirectives = <<>>, d.flowLevel = 0, d.indents = <<>>, d.indent = -1,
           NEW state \in Outer \ {"STREAM-START"}, NEW w, w = GoTo(d, state),
           NEW q, q.open = <<>>, q.phase \in {"stream", "ended"}, q.phase = "ended" <=> state = "END"
    PROVE  Handled(c, w, q)
<1>1. state \in State
  BY DEF Outer, State
<1>2. /\ Went(d, w) /\ SameLevels(d, w)
      /\ w.ok => w.state = state /\ w.states = d.states
  BY <1>1, GoToGoes
<1>3. ASSUME w.ok PROVE Mirrors(w, q)
  <2>1. /\ w.states = <<>> /\ w.tagDirectives = <<>> /\ w.flowLevel = 0 /\ w.indents = <<>>
        /\ w.indent = -1 /\ w.state = state
    BY <1>2, <1>3 DEF Went, SameLevels
  <2> QED BY <2>1, BetweenDocuments
<1> QED BY <1>2, <1>3 DEF Handled, Went

LEMMA StreamBegins ==
    ASSUME NEW c, Well(c), NEW d, d = [c EXCEPT !.indent = -1, !.column = 0, !.line = 0,
                                                !.whitespace = TRUE, !.indention = TRUE]
    PROVE  /\ Well(d) /\ SameStates(c, d) /\ SameOutcome(c, d) /\ d.events = c.events
           /\ d.canonical = c.canonical /\ d.tagDirectives = c.tagDirectives
           /\ d.flowLevel = c.flowLevel /\ d.indents = c.indents /\ d.indent = -1
<1>1. /\ IsEmitter(d) /\ SameStates(c, d) /\ SameOutcome(c, d) /\ d.events = c.events
      /\ d.canonical = c.canonical /\ d.tagDirectives = c.tagDirectives
      /\ d.flowLevel = c.flowLevel /\ d.indents = c.indents
      /\ d.indent = -1 /\ d.column = 0 /\ d.line = 0
  BY ZenonT(40) DEF Well, Sound, IsEmitter, SameStates, SameOutcome
<1>2. -1 \in Level /\ -1 \in Int /\ 0 \in Nat
  BY DEF Level
<1>3. Sound(d)
  BY <1>1, <1>2, Zenon DEF Well, Sound, SameOutcome
<1>4. Typed(d)
  BY <1>1, <1>2, Zenon DEF Well, Typed, SameStates, SameOutcome
<1> QED BY <1>1, <1>3, <1>4, Zenon DEF Well

LEMMA StreamStartHandles ==
    ASSUME NEW c, NEW p, NEW e, NEW q, Due(c, p, e, q), c.state = "STREAM-START",
           NEW w, w = StreamStart(c)
    PROVE  Handled(c, w, q)
<1> DEFINE d == [c EXCEPT !.indent = -1, !.column = 0, !.line = 0,
                          !.whitespace = TRUE, !.indention = TRUE]
           state == "FIRST-DOCUMENT-START"
<1>1. /\ Well(c) /\ c.ok /\ Mirrors(c, p) /\ Placed(p) /\ Moves(p, e, q) /\ Head(c.events) = e
      /\ c.state \in Outer
  BY DEF Due, Outer
<1>2. p.phase = "before"
  BY <1>1 DEF Mirrors
<1>3. /\ c.states = <<>> /\ c.tagDirectives = <<>> /\ c.flowLevel = 0 /\ c.indents = <<>>
      /\ p.open = <<>>
  BY <1>1, OutsideDocuments
<1>4. e.type = "STREAM-START" /\ q.phase = "stream" /\ q.open = <<>>
  BY <1>1, <1>2, <1>3 DEF Moves, NodeMoves, EndMoves
<1>5. w = GoTo(d, state)
  BY <1>1, <1>4, Zenon DEF StreamStart
<1>6. /\ Well(d) /\ SameStates(c, d) /\ SameOutcome(c, d) /\ d.events = c.events
      /\ d.canonical = c.canonical /\ d.tagDirectives = c.tagDirectives
      /\ d.flowLevel = c.flowLevel /\ d.indents = c.indents /\ d.indent = -1
  BY <1>1, StreamBegins, Zenon
<1>7. state \in Outer \ {"STREAM-START"} /\ state # "END"
  BY DEF Outer
<1> HIDE DEF d, state
<1>8. d.ok /\ d.error = c.error /\ d.states = <<>>
  BY <1>1, <1>3, <1>6 DEF SameStates, SameOutcome
<1> QED BY <1>3, <1>4, <1>5, <1>6, <1>7, <1>8, OutwardHandles

(* The directives of a document, and the defaults: they are known, or the  *)
(* document cannot start.                                                  *)
LEMMA DirectivesKnown ==
    ASSUME NEW c, Well(c), c.ok, NEW e \in DocumentStartEvent,
           NEW known,
           known = AddDirectives(AddDirectives(IF e.version \notin {"none", "1.1"}
                                               THEN Fail(c, "emitter") ELSE c,
                                               e.tagDirectives, FALSE), Defaults, TRUE)
    PROVE  /\ Near(c, known)
           /\ ~known.ok => known.error = "emitter" /\ Undeclarable(known, e)
           /\ Undeclarable(c, e) => ~known.ok
<1> DEFINE checked == IF e.version \notin {"none", "1.1"} THEN Fail(c, "emitter") ELSE c
           given == AddDirectives(checked, e.tagDirectives, FALSE)
           yes == TRUE
           no == FALSE
<1>1. e.tagDirectives \in Seq([handle : Handles \cup {BadHandle}, prefix : TagPrefixes])
  BY DEF DocumentStartEvent
<1>2. /\ Defaults \in Seq([handle : Handles \cup {BadHandle}, prefix : TagPrefixes])
      /\ \A i \in DOMAIN Defaults : Defaults[i].handle # BadHandle
  <2>1. Defaults \in Seq(Directive) /\ BadHandle \notin Handles
    BY EmitterAssumption
  <2>2. Directive \subseteq [handle : Handles \cup {BadHandle}, prefix : TagPrefixes]
    BY DEF Directive
  <2>3. \A i \in DOMAIN Defaults : Defaults[i] \in Directive
    BY <2>1, ElementOfSeq, LenProperties
  <2>4. \A i \in DOMAIN Defaults : Defaults[i].handle \in Handles
    BY <2>3 DEF Directive
  <2>5. Defaults \in Seq([handle : Handles \cup {BadHandle}, prefix : TagPrefixes])
    <3> DEFINE S == [handle : Handles \cup {BadHandle}, prefix : TagPrefixes]
    <3>1. Directive \subseteq S
      BY <2>2
    <3> HIDE DEF S
    <3>2. Defaults \in Seq(S)
      BY <2>1, <3>1
    <3> QED BY <3>2 DEF S
  <2>6. \A i \in DOMAIN Defaults : Defaults[i].handle # BadHandle
    BY <2>1, <2>4
  <2> QED BY <2>5, <2>6
<1>3. /\ Near(c, checked) /\ Well(checked)
      /\ checked.ok => e.version \in {"none", "1.1"} /\ checked = c
      /\ ~checked.ok => checked.error = "emitter" /\ e.version \notin {"none", "1.1"}
  <2>1. CASE e.version \in {"none", "1.1"}
    <3>1. checked = c
      BY <2>1, Zenon
    <3> QED BY <2>1, <3>1, NearSelf
  <2>2. CASE e.version \notin {"none", "1.1"}
    <3>1. checked = Fail(c, "emitter")
      BY <2>2, Zenon
    <3>2. Near(c, checked) /\ ~checked.ok /\ checked.error = "emitter"
      BY <3>1, FailNears
    <3> QED BY <2>2, <3>2 DEF Near
  <2> QED BY <2>1, <2>2
<1> HIDE DEF checked
<1>4. Added(checked, given, e.tagDirectives, no, Len(e.tagDirectives))
  <2>1. given = AddDirectives(checked, e.tagDirectives, no)
    BY DEF no
  <2> HIDE DEF given, no
  <2> QED BY <1>1, <1>3, <2>1, AddDirectivesAdds
<1>5. known = AddDirectives(given, Defaults, yes)
  BY Zenon DEF checked
<1> HIDE DEF given, no
<1>6. Near(checked, given) /\ Well(given)
  BY <1>4 DEF Added, Near
<1>7. yes
  BY DEF yes
<1> HIDE DEF yes
<1>8. Added(given, known, Defaults, yes, Len(Defaults))
  BY <1>2, <1>5, <1>6, AddDirectivesAdds
<1>9. Near(given, known) /\ (given.ok => known.ok)
  BY <1>2, <1>7, <1>8 DEF Added
<1>12. ASSUME Undeclarable(c, e) PROVE ~known.ok
  <2>1. CASE ~checked.ok
    BY <1>6, <1>9, <2>1 DEF Near
  <2>2. CASE checked.ok
    <3>1. checked = c /\ e.tagDirectives # <<>> /\ Spoilt(c, e.tagDirectives[1])
      BY <1>3, <1>12, <2>2 DEF Undeclarable
    <3>2. Len(e.tagDirectives) > 0
      BY <1>1, <3>1, EmptySeq, LenProperties
    <3>3. ~no
      BY DEF no
    <3>4. ~given.ok
      BY <1>4, <2>2, <3>1, <3>2, <3>3 DEF Added
    <3> QED BY <1>9, <3>4 DEF Near
  <2> QED BY <2>1, <2>2
<1>10. Near(c, known)
  BY <1>3, <1>6, <1>9, NearOn
<1>11. ASSUME ~known.ok
       PROVE  known.error = "emitter" /\ Undeclarable(known, e)
  <2>1. ~given.ok /\ known = given
    BY <1>9, <1>11 DEF Near
  <2>2. CASE ~checked.ok
    <3>1. given = checked
      BY <1>6, <2>2 DEF Near
    <3> QED BY <1>3, <2>1, <2>2, <3>1 DEF Undeclarable
  <2>3. CASE checked.ok
    <3>1. known.error = "emitter" /\ Len(e.tagDirectives) > 0 /\ Spoilt(known, e.tagDirectives[1])
      BY <1>4, <2>1, <2>3 DEF Added
    <3>2. e.tagDirectives # <<>>
      <4> SUFFICES ASSUME e.tagDirectives = <<>> PROVE FALSE
        OBVIOUS
      <4>1. Len(e.tagDirectives) = 0
        OBVIOUS
      <4> QED BY <3>1, <4>1
    <3> QED BY <3>1, <3>2 DEF Undeclarable
  <2> QED BY <2>2, <2>3
<1> QED BY <1>10, <1>11, <1>12

(* A document starts once its directives are known. *)
LEMMA StartDocumentGoes ==
    ASSUME NEW c, Well(c), c.ok, NEW e \in DocumentStartEvent, e = Head(c.events),
           c.events # <<>>, ~NeedMoreEvents(c.events),
           c.state \in {"FIRST-DOCUMENT-START", "DOCUMENT-START"},
           NEW first, NEW w, w = StartDocument(c, e, first)
    PROVE  \E known, begun :
              /\ Near(c, known) /\ Kept(known, begun) /\ w = GoTo(begun, "DOCUMENT-CONTENT")
              /\ ~known.ok => known.error = "emitter" /\ Doomed(known) /\ w = known
              /\ Undeclarable(c, e) => ~known.ok
<1> DEFINE directives == e.version # "none" \/ e.tagDirectives # <<>>
           explicit == ~first \/ c.canonical \/ ~e.implicit \/ directives
           checked == IF e.version \notin {"none", "1.1"} THEN Fail(c, "emitter") ELSE c
           known == AddDirectives(AddDirectives(checked, e.tagDirectives, FALSE), Defaults, TRUE)
           ended == IF directives THEN EndOpenScalar(known) ELSE known
           versioned == IF e.version # "none" THEN WriteIndent(Apart(ended, "%YAML")) ELSE ended
           declared == WriteTagDirectives(versioned, e.tagDirectives)
           marked == IF explicit THEN Apart(WriteIndent(declared), "---") ELSE declared
           begun == IF explicit /\ c.canonical THEN WriteIndent(marked) ELSE marked
<1>1. /\ Near(c, known)
      /\ ~known.ok => known.error = "emitter" /\ Undeclarable(known, e)
      /\ Undeclarable(c, e) => ~known.ok
  BY DirectivesKnown, Zenon
<1>4. w = GoTo(begun, "DOCUMENT-CONTENT")
  BY Zenon DEF StartDocument
<1> HIDE DEF known
<1>2. Sound(known) /\ Len(e.tagDirectives) \in Nat
  <2>1. e.tagDirectives \in Seq([handle : Handles \cup {BadHandle}, prefix : TagPrefixes])
    BY DEF DocumentStartEvent
  <2> QED BY <1>1, <2>1, LenProperties DEF Near, Well
<1>3. Kept(known, begun)
  <2>0. Sound(known) /\ Len(e.tagDirectives) \in Nat
    BY <1>2
  <2>9. /\ ended = IF directives THEN EndOpenScalar(known) ELSE known
        /\ versioned = IF e.version # "none" THEN WriteIndent(Apart(ended, "%YAML")) ELSE ended
        /\ declared = WriteTagDirectives(versioned, e.tagDirectives)
        /\ marked = IF explicit THEN Apart(WriteIndent(declared), "---") ELSE declared
        /\ begun = IF explicit /\ c.canonical THEN WriteIndent(marked) ELSE marked
    OBVIOUS
  <2> HIDE DEF directives, explicit, ended, versioned, declared, marked, begun
  <2>1. "%YAML" \in Indicator /\ "---" \in Indicator
    BY DEF Indicator
  <2>2. Kept(known, ended)
    BY <2>0, <2>9, EndOpenScalarKeeps, KeptSelf
  <2>3. Kept(ended, versioned)
    <3>1. Sound(ended)
      BY <2>2 DEF Kept
    <3>2. Kept(ended, ended) /\ Kept(ended, WriteIndent(Apart(ended, "%YAML")))
      BY <2>1, <3>1, KeptSelf, DotsKeep
    <3> QED BY <2>9, <3>2, Zenon
  <2>4. Kept(versioned, declared)
    BY <2>0, <2>3, <2>9, WriteTagDirectivesKeeps DEF Kept
  <2>5. Kept(declared, marked)
    <3> DEFINE d == WriteIndent(declared)
    <3>1. Sound(declared)
      BY <2>4 DEF Kept
    <3>2. Kept(declared, d)
      BY <3>1, WriteIndentDraws DEF Drawn
    <3> HIDE DEF d
    <3>3. Kept(d, Apart(d, "---"))
      BY <2>1, <3>2, TightKeeps DEF Kept
    <3>4. Kept(declared, declared) /\ Kept(declared, Apart(d, "---"))
      BY <3>1, <3>2, <3>3, KeptSelf, KeptOn
    <3>5. marked = IF explicit THEN Apart(d, "---") ELSE declared
      BY <2>9, Zenon DEF d
    <3> QED BY <3>4, <3>5, Zenon
  <2>6. Kept(marked, begun)
    <3>1. Sound(marked)
      BY <2>5 DEF Kept
    <3>2. Kept(marked, marked) /\ Kept(marked, WriteIndent(marked))
      BY <3>1, KeptSelf, WriteIndentDraws DEF Drawn
    <3> QED BY <2>9, <3>2, Zenon
  <2>7. Kept(known, versioned)
    BY <2>2, <2>3, KeptOn
  <2>8. Kept(known, marked)
    BY <2>4, <2>5, <2>7, KeptOn
  <2> QED BY <2>6, <2>8, KeptOn
<1> HIDE DEF begun
<1>5. ASSUME ~known.ok PROVE Doomed(known) /\ w = known
  <2>1. begun = known
    BY <1>3, <1>5 DEF Kept
  <2>2. w = known
    BY <1>4, <1>5, <2>1, Zenon DEF GoTo, Then
  <2>3. e.type = "DOCUMENT-START"
    BY DEF DocumentStartEvent
  <2> QED BY <1>1, <1>5, <2>2, <2>3 DEF Doomed, Near, SameStates
<1> QED BY <1>1, <1>3, <1>4, <1>5

LEMMA DocumentStartHandles ==
    ASSUME NEW c, NEW p, NEW e, NEW q, Due(c, p, e, q),
           c.events # <<>>, ~NeedMoreEvents(c.events),
           c.state \in {"FIRST-DOCUMENT-START", "DOCUMENT-START"},
           NEW first, NEW w, w = DocumentStart(c, first)
    PROVE  Handled(c, w, q)
<1>1. /\ Well(c) /\ c.ok /\ Mirrors(c, p) /\ Placed(p) /\ Moves(p, e, q) /\ Head(c.events) = e
      /\ e \in Event /\ c.state \in Outer /\ c.state # "STREAM-START" /\ c.state # "END"
  BY DEF Due, Outer
<1>2. p.phase = "stream"
  BY <1>1 DEF Mirrors, Placed
<1>3. /\ c.states = <<>> /\ c.tagDirectives = <<>> /\ c.flowLevel = 0 /\ c.indents = <<>>
      /\ p.open = <<>> /\ c.indent = -1
  BY <1>1, OutsideDocuments
<1>4. \/ e.type = "STREAM-END" /\ q.phase = "ended" /\ q.open = <<>>
      \/ e.type = "DOCUMENT-START" /\ q.phase = "stream" /\ q.open = <<"root">>
  <2>1. p.open # <<"docEnd">>
    BY <1>3
  <2> QED BY <1>1, <1>2, <1>3, <2>1 DEF Moves, NodeMoves, EndMoves
<1>5. CASE e.type = "STREAM-END"
  <2> DEFINE state == "END"
             d == EndOpenScalar(c)
             v == Flush(d)
  <2>1. w = GoTo(v, state)
    BY <1>1, <1>5, Zenon DEF DocumentStart
  <2>2. state \in Outer \ {"STREAM-START"} /\ state = "END"
    BY DEF Outer
  <2>3. Kept(c, d)
    BY <1>1, EndOpenScalarKeeps DEF Well
  <2> HIDE DEF d, state
  <2>4. Kept(d, v)
    BY <2>3, FlushKeeps DEF Kept
  <2> HIDE DEF v
  <2>5. Went(c, v) /\ SameStates(c, v) /\ SameLevels(c, v)
    BY <1>1, <2>3, <2>4, KeptOn, KeptGoes
  <2>6. /\ Well(v) /\ v.events = c.events /\ v.canonical = c.canonical
        /\ v.ok => v.error = c.error
        /\ ~v.ok => v.error = "writer"
        /\ v.states = <<>> /\ v.tagDirectives = <<>> /\ v.flowLevel = 0 /\ v.indents = <<>>
        /\ v.indent = -1
    BY <1>1, <1>3, <2>5 DEF Went, SameStates, SameLevels
  <2>7. q.open = <<>> /\ q.phase \in {"stream", "ended"} /\ (q.phase = "ended" <=> state = "END")
    BY <1>4, <1>5, <2>2
  <2> QED BY <2>1, <2>2, <2>6, <2>7, OutwardHandles
<1>6. CASE e.type = "DOCUMENT-START"
  <2> DEFINE state == "DOCUMENT-CONTENT"
  <2>1. w = StartDocument(c, e, first)
    BY <1>1, <1>6, Zenon DEF DocumentStart
  <2>2. e \in DocumentStartEvent
    BY <1>1, <1>6, EventTypes
  <2>3. PICK known, begun :
              /\ Near(c, known) /\ Kept(known, begun) /\ w = GoTo(begun, state)
              /\ ~known.ok => known.error = "emitter" /\ Doomed(known) /\ w = known
    BY <1>1, <2>1, <2>2, StartDocumentGoes
  <2>4. Well(known)
    BY <2>3 DEF Near
  <2>6. Went(known, begun) /\ SameStates(known, begun) /\ SameLevels(known, begun) /\ Well(begun)
    <3>1. Went(known, begun) /\ SameStates(known, begun) /\ SameLevels(known, begun)
      BY <2>3, <2>4, KeptGoes
    <3> QED BY <3>1 DEF Went
  <2>7. /\ state \in State /\ state \in Inner /\ state \notin FlowStates \cup BlockStates
        /\ KindOf(state) = "root" /\ state # "STREAM-START" /\ state # "END"
    BY DEF State, Inner, FlowStates, BlockStates, SequenceStates, KeyStates, ValueStates, KindOf
  <2> HIDE DEF state
  <2>8. /\ Went(begun, w) /\ SameLevels(begun, w)
        /\ w.ok => w.state = state /\ w.states = begun.states
    BY <2>3, <2>6, <2>7, GoToGoes
  <2>9. Well(w) /\ w.events = c.events /\ w.canonical = c.canonical
    BY <2>3, <2>6, <2>8 DEF Went, Near
  <2>10. ASSUME w.ok PROVE Mirrors(w, q) /\ w.error = c.error
    <3>1. /\ w.states = <<>> /\ w.flowLevel = 0 /\ w.indents = <<>> /\ w.indent = -1
          /\ w.state = state /\ w.error = c.error
      BY <1>3, <2>3, <2>6, <2>8, <2>10 DEF Went, Near, SameStates, SameLevels
    <3>2. Path(w) = Append(<<>>, state)
      BY <3>1 DEF Path
    <3>3. /\ FlowDepth(Append(<<>>, state)) = 0 /\ IndentDepth(Append(<<>>, state)) = 0
          /\ Opened(Append(<<>>, state)) = <<KindOf(state)>>
      BY <2>7, ShallowPath
    <3>4. Levelled(w, Path(w)) /\ q.open = Opened(Path(w))
      <4>1. q.open = <<KindOf(state)>>
        BY <1>4, <1>6, <2>7
      <4>2. Len(w.indents) = 0
        BY <3>1
      <4> QED BY <3>1, <3>2, <3>3, <4>1, <4>2, Zenon DEF Levelled
    <3>5. Bottom(w) = -1
      <4>1. Append(<<>>, w.indent)[1] = w.indent
        OBVIOUS
      <4> QED BY <3>1, <4>1 DEF Bottom
    <3>6. w.states \in Seq(Inner)
      BY <3>1
    <3> QED BY <1>4, <1>6, <2>7, <3>1, <3>4, <3>5, <3>6 DEF Mirrors
  <2>11. ASSUME ~w.ok PROVE w.error = "writer" \/ (w.error = "emitter" /\ Doomed(w))
    <3>1. CASE known.ok
      BY <2>6, <2>8, <2>11, <3>1 DEF Went
    <3>2. CASE ~known.ok
      BY <2>3, <3>2
    <3> QED BY <3>1, <3>2
  <2> QED BY <2>9, <2>10, <2>11 DEF Handled
<1> QED BY <1>4, <1>5, <1>6

-----------------------------------------------------------------------------
(***************************************************************************)
(* A turn of the loop.                                                     *)
(***************************************************************************)
LEMMA StateMachineHandles ==
    ASSUME NEW c, NEW p, NEW e, NEW q, Due(c, p, e, q),
           c.events # <<>>, ~NeedMoreEvents(c.events), NEW w, w = StateMachine(c)
    PROVE  Handled(c, w, q)
<1>1. c.ok /\ Mirrors(c, p) /\ Placed(p) /\ Moves(p, e, q) /\ c.state \in State
  BY DEF Due, Well, Typed
<1>2. CASE c.state = "STREAM-START"
  <2>1. w = StreamStart(c)
    BY <1>2, Zenon DEF StateMachine
  <2> QED BY <1>2, <2>1, StreamStartHandles
<1>3. CASE c.state \in {"FIRST-DOCUMENT-START", "DOCUMENT-START"}
  <2> DEFINE first == c.state = "FIRST-DOCUMENT-START"
  <2>1. w = DocumentStart(c, first)
    BY <1>3 DEF StateMachine
  <2> HIDE DEF first
  <2> QED BY <1>3, <2>1, DocumentStartHandles
<1>4. CASE c.state = "DOCUMENT-CONTENT"
  <2>1. w = DocumentContent(c)
    BY <1>4 DEF StateMachine
  <2> QED BY <1>1, <1>4, <2>1, DocumentContentReaches, ReachingIsHandling
<1>5. CASE c.state = "DOCUMENT-END"
  <2>1. w = DocumentEnd(c)
    BY <1>5 DEF StateMachine
  <2> QED BY <1>5, <2>1, DocumentEndHandles
<1>6. CASE c.state \in {"FLOW-SEQUENCE-FIRST-ITEM", "FLOW-SEQUENCE-ITEM"}
  <2> DEFINE first == c.state = "FLOW-SEQUENCE-FIRST-ITEM"
  <2>1. w = FlowSequenceItem(c, first)
    BY <1>6 DEF StateMachine
  <2>2. first = (c.state = "FLOW-SEQUENCE-FIRST-ITEM")
    OBVIOUS
  <2> HIDE DEF first
  <2> QED BY <1>1, <1>6, <2>1, <2>2, FlowSequenceItemReaches, ReachingIsHandling
<1>7. CASE c.state \in {"FLOW-MAPPING-FIRST-KEY", "FLOW-MAPPING-KEY"}
  <2> DEFINE first == c.state = "FLOW-MAPPING-FIRST-KEY"
  <2>1. w = FlowMappingKey(c, first)
    BY <1>7 DEF StateMachine
  <2>2. first = (c.state = "FLOW-MAPPING-FIRST-KEY")
    OBVIOUS
  <2> HIDE DEF first
  <2> QED BY <1>1, <1>7, <2>1, <2>2, FlowMappingKeyReaches, ReachingIsHandling
<1>8. CASE c.state \in {"FLOW-MAPPING-SIMPLE-VALUE", "FLOW-MAPPING-VALUE"}
  <2> DEFINE simple == c.state = "FLOW-MAPPING-SIMPLE-VALUE"
  <2>1. w = FlowMappingValue(c, simple)
    BY <1>8 DEF StateMachine
  <2> HIDE DEF simple
  <2> QED BY <1>1, <1>8, <2>1, FlowMappingValueReaches, ReachingIsHandling
<1>9. CASE c.state \in {"BLOCK-SEQUENCE-FIRST-ITEM", "BLOCK-SEQUENCE-ITEM"}
  <2> DEFINE first == c.state = "BLOCK-SEQUENCE-FIRST-ITEM"
  <2>1. w = BlockSequenceItem(c, first)
    BY <1>9 DEF StateMachine
  <2>2. first = (c.state = "BLOCK-SEQUENCE-FIRST-ITEM")
    OBVIOUS
  <2> HIDE DEF first
  <2> QED BY <1>1, <1>9, <2>1, <2>2, BlockSequenceItemReaches, ReachingIsHandling
<1>10. CASE c.state \in {"BLOCK-MAPPING-FIRST-KEY", "BLOCK-MAPPING-KEY"}
  <2> DEFINE first == c.state = "BLOCK-MAPPING-FIRST-KEY"
  <2>1. w = BlockMappingKey(c, first)
    BY <1>10 DEF StateMachine
  <2>2. first = (c.state = "BLOCK-MAPPING-FIRST-KEY")
    OBVIOUS
  <2> HIDE DEF first
  <2> QED BY <1>1, <1>10, <2>1, <2>2, BlockMappingKeyReaches, ReachingIsHandling
<1>11. CASE c.state \in {"BLOCK-MAPPING-SIMPLE-VALUE", "BLOCK-MAPPING-VALUE"}
  <2> DEFINE simple == c.state = "BLOCK-MAPPING-SIMPLE-VALUE"
  <2>1. w = BlockMappingValue(c, simple)
    BY <1>11 DEF StateMachine
  <2> HIDE DEF simple
  <2> QED BY <1>1, <1>11, <2>1, BlockMappingValueReaches, ReachingIsHandling
<1>12. c.state # "END"
  <2> SUFFICES ASSUME c.state = "END" PROVE FALSE
    OBVIOUS
  <2>1. p.phase = "ended"
    BY <1>1 DEF Mirrors
  <2> QED BY <1>1, <2>1 DEF Moves, NodeMoves, EndMoves
<1> QED BY <1>1, <1>2, <1>3, <1>4, <1>5, <1>6, <1>7, <1>8, <1>9, <1>10, <1>11, <1>12 DEF State

(* A turn has led the emitter to q, or its event is refused for good.      *)
Turned(c, d, q) ==
    /\ Well(d)
    /\ d.ok => Mirrors(d, q) /\ d.error = c.error /\ d.events = Tail(c.events)
    /\ ~d.ok => d.error = "writer" \/ (d.error = "emitter" /\ Doomed(d))

LEMMA TailProperties ==
    ASSUME NEW S, NEW s \in Seq(S), s # <<>>
    PROVE  /\ Tail(s) \in Seq(S) /\ Len(Tail(s)) = Len(s) - 1 /\ Head(s) = s[1] /\ Head(s) \in S
           /\ Len(s) \in Nat \ {0}
           /\ \A i \in 1 .. Len(s) - 1 : Tail(s)[i] = s[i + 1]
BY HeadTailProperties, LenProperties, EmptySeq

(* The event is taken off the queue. *)
LEMMA EventTaken ==
    ASSUME NEW c, Well(c), c.events # <<>>, NEW d, d = [c EXCEPT !.events = Tail(c.events)]
    PROVE  /\ Well(d) /\ SameStates(c, d) /\ SameLevels(c, d) /\ SameOutcome(c, d)
           /\ d.tagDirectives = c.tagDirectives /\ d.events = Tail(c.events)
<1>1. /\ IsEmitter(d) /\ SameStates(c, d) /\ SameLevels(c, d) /\ SameOutcome(c, d)
      /\ d.tagDirectives = c.tagDirectives /\ d.events = Tail(c.events)
      /\ d.column = c.column /\ d.line = c.line
  BY ZenonT(40) DEF Well, Sound, IsEmitter, SameStates, SameLevels, SameOutcome
<1>2. c.events \in Seq(Event)
  BY DEF Well, Typed
<1>3. Tail(c.events) \in Seq(Event)
  BY <1>2, TailProperties
<1>4. Sound(d)
  BY <1>1, Zenon DEF Well, Sound, SameLevels, SameOutcome
<1>5. Typed(d)
  BY <1>1, <1>3, Zenon DEF Well, Typed, SameStates, SameLevels, SameOutcome
<1> QED BY <1>1, <1>4, <1>5, Zenon DEF Well

LEMMA MirrorsSame ==
    ASSUME NEW c, NEW d, NEW p, Mirrors(c, p), SameStates(c, d), SameLevels(c, d),
           d.tagDirectives = c.tagDirectives
    PROVE  Mirrors(d, p)
<1>1. Path(d) = Path(c) /\ Bottom(d) = Bottom(c)
  BY Zenon DEF SameStates, SameLevels, Path, Bottom
<1>2. Levelled(c, Path(c)) => Levelled(d, Path(c))
  BY Zenon DEF Levelled, SameLevels
<1> QED BY <1>1, <1>2, Zenon DEF Mirrors, SameStates

LEMMA EmitHeadTurns ==
    ASSUME NEW c, NEW p, NEW e, NEW q, Due(c, p, e, q),
           c.events # <<>>, ~NeedMoreEvents(c.events), NEW w, w = EmitHead(c)
    PROVE  Turned(c, w, q)
<1> DEFINE d == IF Refused(c, e) THEN Fail(c, "emitter") ELSE StateMachine(c)
<1>1. Well(c) /\ c.ok /\ e = Head(c.events)
  BY DEF Due
<1>2. Handled(c, d, q)
  <2>1. CASE Refused(c, e)
    <3>1. d = Fail(c, "emitter")
      BY <2>1, Zenon
    <3> HIDE DEF d
    <3>2. Near(c, d) /\ ~d.ok /\ d.error = "emitter"
      BY <1>1, <3>1, FailNears
    <3>3. Refused(d, e)
      <4>1. d.canonical = c.canonical
        BY <3>2 DEF Near
      <4> QED BY <2>1, <4>1, Zenon DEF Refused, TagWritten
    <3> QED BY <1>1, <3>2, <3>3 DEF Near, Handled, Doomed
  <2>2. CASE ~Refused(c, e)
    <3>1. d = StateMachine(c)
      BY <2>2, Zenon
    <3> HIDE DEF d
    <3> QED BY <3>1, StateMachineHandles
  <2> QED BY <2>1, <2>2
<1>3. w = Then(d, LAMBDA x : [x EXCEPT !.events = Tail(@)])
  BY <1>1, Zenon DEF EmitHead
<1> HIDE DEF d
<1>4. CASE ~d.ok
  <2>1. w = d
    BY <1>3, <1>4, Zenon DEF Then
  <2> QED BY <1>2, <1>4, <2>1 DEF Handled, Turned
<1>5. CASE d.ok
  <2>1. w = [d EXCEPT !.events = Tail(d.events)]
    BY <1>3, <1>5, Zenon DEF Then
  <2>2. Well(d) /\ d.events = c.events /\ d.events # <<>> /\ Mirrors(d, q) /\ d.error = c.error
    BY <1>2, <1>5 DEF Handled
  <2>3. /\ Well(w) /\ SameStates(d, w) /\ SameLevels(d, w) /\ SameOutcome(d, w)
        /\ w.tagDirectives = d.tagDirectives /\ w.events = Tail(d.events)
    BY <2>1, <2>2, EventTaken
  <2>4. Mirrors(w, q)
    BY <2>2, <2>3, MirrorsSame
  <2>5. w.ok = d.ok /\ w.error = c.error /\ w.events = Tail(c.events)
    BY <2>2, <2>3, Zenon DEF SameOutcome
  <2> QED BY <1>5, <2>3, <2>4, <2>5, Zenon DEF Turned
<1> QED BY <1>4, <1>5

(* An event that is refused is refused again, before anything is written.  *)
LEMMA DoomedFails ==
    ASSUME NEW c, Well(c), c.ok, Doomed(c), NEW w, w = EmitHead(c)
    PROVE  Well(w) /\ ~w.ok /\ w.error = "emitter" /\ w.text = c.text /\ Doomed(w)
<1> DEFINE e == Head(c.events)
           d == IF Refused(c, e) THEN Fail(c, "emitter") ELSE StateMachine(c)
<1>1. Near(c, d) /\ ~d.ok /\ d.error = "emitter" /\ Doomed(d)
  <2>1. CASE Refused(c, e)
    <3>1. d = Fail(c, "emitter")
      BY <2>1, Zenon
    <3> HIDE DEF d
    <3>2. Near(c, d) /\ ~d.ok /\ d.error = "emitter"
      BY <3>1, FailNears
    <3>3. Refused(d, e)
      <4>1. d.canonical = c.canonical
        BY <3>2 DEF Near
      <4> QED BY <2>1, <4>1, Zenon DEF Refused, TagWritten
    <3> QED BY <3>2, <3>3 DEF Near, Doomed
  <2>2. CASE ~Refused(c, e)
    <3> DEFINE first == c.state = "FIRST-DOCUMENT-START"
    <3>1. d = StateMachine(c)
      BY <2>2, Zenon
    <3>2. /\ e.type = "DOCUMENT-START" /\ Undeclarable(c, e)
          /\ c.state \in {"FIRST-DOCUMENT-START", "DOCUMENT-START"}
          /\ c.events # <<>> /\ ~NeedMoreEvents(c.events)
      BY <2>2 DEF Doomed
    <3> HIDE DEF d
    <3>3. d = DocumentStart(c, first)
      BY <3>1, <3>2 DEF StateMachine
    <3> HIDE DEF first
    <3>4. d = StartDocument(c, e, first)
      BY <3>2, <3>3, Zenon DEF DocumentStart
    <3>5. e \in DocumentStartEvent
      <4>1. c.events \in Seq(Event)
        BY DEF Well, Typed
      <4>2. e \in Event
        BY <3>2, <4>1, TailProperties
      <4> QED BY <3>2, <4>2, EventTypes
    <3>6. e = Head(c.events)
      OBVIOUS
    <3> HIDE DEF e
    <3>7. PICK known, begun :
              /\ Near(c, known)
              /\ ~known.ok => known.error = "emitter" /\ Doomed(known) /\ d = known
              /\ Undeclarable(c, e) => ~known.ok
      BY <3>2, <3>4, <3>5, <3>6, StartDocumentGoes
    <3> QED BY <3>2, <3>7
  <2> QED BY <2>1, <2>2
<1>2. w = Then(d, LAMBDA x : [x EXCEPT !.events = Tail(@)])
  BY Zenon DEF EmitHead
<1> HIDE DEF d
<1>3. w = d
  BY <1>1, <1>2, Zenon DEF Then
<1> QED BY <1>1, <1>3 DEF Near

-----------------------------------------------------------------------------
(***************************************************************************)
(* The positions the stream of events goes through.                        *)
(***************************************************************************)
(* Where the stream is, with the events given so far. *)
Here == [phase |-> phase, open |-> open]

(* How much is open. *)
Depth(p) == Len(p.open) + IF p.phase = "stream" THEN 1 ELSE 0

LEMMA EventKinds ==
    /\ Opening \cap Closing = {} /\ NodeType \cap Closing = {}
    /\ "ALIAS" \notin Opening /\ "SCALAR" \notin Opening
    /\ "ALIAS" \notin Closing /\ "SCALAR" \notin Closing
    /\ "SEQUENCE-START" \in Opening /\ "MAPPING-START" \in Opening
    /\ "STREAM-START" \in Opening /\ "DOCUMENT-START" \in Opening
    /\ "STREAM-END" \in Closing /\ "DOCUMENT-END" \in Closing
    /\ "SEQUENCE-END" \in Closing /\ "MAPPING-END" \in Closing
BY DEF Opening, Closing, NodeType

(* An event leads from a position to a position, and opens or closes one   *)
(* thing.                                                                  *)
LEMMA MovesKeepPlaced ==
    ASSUME NEW p, NEW e, NEW q, Placed(p), Moves(p, e, q)
    PROVE  /\ Placed(q)
           /\ Depth(p) \in Nat /\ Depth(q) \in Nat
           /\ Depth(q) = Depth(p) + (IF e.type \in Opening THEN 1 ELSE 0)
                                  - (IF e.type \in Closing THEN 1 ELSE 0)
<1> DEFINE s == p.open
<1>1. s \in Seq(Stream!Construct) /\ Len(s) \in Nat
  BY LenProperties DEF Placed
<1>2. s # <<>> => /\ Len(s) # 0
                  /\ Last(s) = s[Len(s)] /\ Last(s) \in Stream!Construct
                  /\ Front(s) \in Seq(Stream!Construct) /\ Len(Front(s)) = Len(s) - 1
                  /\ \A i \in 1 .. Len(s) - 1 : Front(s)[i] = s[i]
                  /\ s[1] \in {"root", "docEnd"}
  BY <1>1, FrontProperties, EmptySeq DEF Last, Placed
<1>3. CASE e.type \in NodeType /\ NodeMoves(p, e, q)
  <2> DEFINE child == Stream!AfterChild(Last(s))
             advanced == Append(Front(s), child)
  <2>1. /\ p.phase = "stream" /\ s # <<>> /\ Last(s) # "docEnd" /\ q.phase = "stream"
        /\ e.type \in {"ALIAS", "SCALAR"} => q.open = advanced
        /\ e.type = "SEQUENCE-START" => q.open = Append(advanced, "seq")
        /\ e.type = "MAPPING-START" => q.open = Append(advanced, "key")
    BY <1>3 DEF NodeMoves
  <2>2. child \in Stream!Construct /\ (Last(s) = "root" => child = "docEnd")
    BY <1>2, <2>1 DEF Stream!AfterChild, Stream!Construct
  <2> HIDE DEF child
  <2>3. /\ advanced \in Seq(Stream!Construct) /\ Len(advanced) = Len(s)
        /\ advanced[Len(s)] = child
        /\ \A i \in 1 .. Len(s) - 1 : advanced[i] = s[i]
    BY <1>1, <1>2, <2>1, <2>2, AppendProperties
  <2>4. advanced[1] \in {"root", "docEnd"}
    BY <1>1, <1>2, <2>1, <2>2, <2>3
  <2> HIDE DEF advanced
  <2>5. ASSUME NEW k \in Stream!Construct
        PROVE  /\ Append(advanced, k) \in Seq(Stream!Construct)
               /\ Len(Append(advanced, k)) = Len(s) + 1
               /\ Append(advanced, k)[1] = advanced[1]
    <3>1. 1 \in 1 .. Len(advanced)
      BY <1>1, <1>2, <2>1, <2>3
    <3> QED BY <2>3, <3>1, AppendProperties
  <2>6. "seq" \in Stream!Construct /\ "key" \in Stream!Construct
    BY DEF Stream!Construct
  <2>10. s[1] \in {"root", "docEnd"} /\ Len(s) \in Nat /\ Len(s) # 0
    BY <1>1, <1>2, <2>1
  <2>7. CASE e.type \in {"ALIAS", "SCALAR"}
    <3>1. q.open = advanced /\ e.type \notin Opening /\ e.type \notin Closing
      BY <2>1, <2>7, EventKinds
    <3>2. Depth(p) = Len(s) + 1 /\ Depth(q) = Len(s) + 1
      BY <2>1, <2>3, <3>1 DEF Depth
    <3>3. Placed(q)
      BY <2>1, <2>3, <2>4, <3>1 DEF Placed
    <3> QED BY <2>10, <3>1, <3>2, <3>3
  <2>8. CASE e.type \in {"SEQUENCE-START", "MAPPING-START"}
    <3>1. PICK k \in Stream!Construct : q.open = Append(advanced, k)
      BY <2>1, <2>6, <2>8
    <3>2. e.type \in Opening /\ e.type \notin Closing
      BY <2>8, EventKinds
    <3>3. Depth(p) = Len(s) + 1 /\ Depth(q) = Len(s) + 1 + 1
      BY <2>1, <2>5, <3>1 DEF Depth
    <3>4. Placed(q)
      BY <2>1, <2>4, <2>5, <3>1 DEF Placed
    <3> QED BY <2>10, <3>2, <3>3, <3>4
  <2> QED BY <1>3, <2>7, <2>8 DEF NodeType
<1>4. CASE e.type \in {"SEQUENCE-END", "MAPPING-END"} /\ s # <<>> /\ p.phase = "stream"
             /\ q.phase = "stream" /\ q.open = Front(s)
  <2>1. Front(s) # <<>> => Front(s)[1] = s[1]
    <3>1. Front(s) # <<>> => Len(Front(s)) \in Nat \ {0}
      BY <1>2, <1>4, EmptySeq, LenProperties
    <3> QED BY <1>1, <1>2, <1>4, <3>1
  <2>2. e.type \notin Opening /\ e.type \in Closing
    BY <1>4, EventKinds
  <2>3. Depth(p) = Len(s) + 1 /\ Depth(q) = Len(s) - 1 + 1
    BY <1>2, <1>4 DEF Depth
  <2>4. Placed(q)
    BY <1>2, <1>4, <2>1 DEF Placed
  <2>5. Len(s) # 0
    BY <1>2, <1>4
  <2> QED BY <1>1, <2>2, <2>3, <2>4, <2>5
<1>5. CASE e.type = "STREAM-START" /\ p.phase = "before" /\ q.phase = "stream" /\ q.open = s
  <2>1. s = <<>>
    BY <1>5 DEF Placed
  <2> QED BY <1>1, <1>5, <2>1, EventKinds DEF Placed, Depth
<1>6. CASE e.type = "STREAM-END" /\ p.phase = "stream" /\ s = <<>> /\ q.phase = "ended" /\ q.open = <<>>
  BY <1>1, <1>6, EventKinds DEF Placed, Depth
<1>7. CASE e.type = "DOCUMENT-START" /\ p.phase = "stream" /\ s = <<>>
             /\ q.phase = "stream" /\ q.open = <<"root">>
  <2>1. /\ <<"root">> \in Seq(Stream!Construct) /\ Len(<<"root">>) = 1 /\ <<"root">>[1] = "root"
        /\ Len(<<>>) = 0
    BY DEF Stream!Construct
  <2> QED BY <1>1, <1>7, <2>1, EventKinds DEF Placed, Depth
<1>8. CASE e.type = "DOCUMENT-END" /\ p.phase = "stream" /\ s = <<"docEnd">>
             /\ q.phase = "stream" /\ q.open = <<>>
  <2>1. Len(<<"docEnd">>) = 1 /\ Len(<<>>) = 0
    OBVIOUS
  <2> QED BY <1>1, <1>8, <2>1, EventKinds DEF Placed, Depth
<1> QED BY <1>3, <1>4, <1>5, <1>6, <1>7, <1>8 DEF Moves, EndMoves

(* What the caller's next event does. *)
LEMMA ContinuingMoves ==
    ASSUME NEW e \in Event, Continues(e), Placed(Here)
    PROVE  Moves(Here, e, Here')
<1>1. /\ Here.phase = phase /\ Here.open = open
      /\ (Here').phase = phase' /\ (Here').open = open'
      /\ Stream!Last(open) = Last(open) /\ Stream!Front(open) = Front(open)
  BY DEF Here, Last, Front, Stream!Last, Stream!Front
<1> HIDE DEF Here
<1>2. CASE e.type = "STREAM-START" /\ Stream!StreamStart
  BY <1>1, <1>2 DEF Stream!StreamStart, Moves
<1>3. CASE e.type = "STREAM-END" /\ Stream!StreamEnd
  BY <1>1, <1>3 DEF Stream!StreamEnd, Moves
<1>4. CASE e.type = "DOCUMENT-START" /\ Stream!DocumentStart
  BY <1>1, <1>4 DEF Stream!DocumentStart, Moves
<1>5. CASE e.type = "DOCUMENT-END" /\ Stream!DocumentEnd
  BY <1>1, <1>5 DEF Stream!DocumentEnd, Moves
<1>6. CASE e.type = "SEQUENCE-END" /\ Stream!SequenceEnd
  BY <1>1, <1>6 DEF Stream!SequenceEnd, Moves, EndMoves
<1>7. CASE e.type = "MAPPING-END" /\ Stream!MappingEnd
  BY <1>1, <1>7 DEF Stream!MappingEnd, Moves, EndMoves
<1>8. CASE e.type = "ALIAS" /\ Stream!Alias(e.anchor)
  BY <1>1, <1>8 DEF Stream!Alias, Stream!AcceptsNode, Stream!Advanced, Moves, NodeMoves, NodeType
<1>9. CASE e.type = "SCALAR" /\ Stream!Scalar(e.anchor)
  BY <1>1, <1>9 DEF Stream!Scalar, Stream!AcceptsNode, Stream!Advanced, Moves, NodeMoves, NodeType
<1>10. CASE e.type = "SEQUENCE-START" /\ Stream!SequenceStart(e.anchor)
  BY <1>1, <1>10
     DEF Stream!SequenceStart, Stream!AcceptsNode, Stream!Advanced, Moves, NodeMoves, NodeType
<1>11. CASE e.type = "MAPPING-START" /\ Stream!MappingStart(e.anchor)
  BY <1>1, <1>11
     DEF Stream!MappingStart, Stream!AcceptsNode, Stream!Advanced, Moves, NodeMoves, NodeType
<1> QED BY <1>2, <1>3, <1>4, <1>5, <1>6, <1>7, <1>8, <1>9, <1>10, <1>11 DEF Continues

(* The positions f that the events lead through, up to p. *)
Leads(f, events, p) ==
    /\ \A i \in 0 .. Len(events) : Placed(f[i])
    /\ \A i \in 0 .. Len(events) - 1 : Moves(f[i], events[i + 1], f[i + 1])
    /\ f[Len(events)] = p

(* The emitter has written what leads to where its queue begins.           *)
Follows(c, p) == \E f : Mirrors(c, f[0]) /\ Leads(f, c.events, p)

LEMMA LeadsOn ==
    ASSUME NEW f, NEW events \in Seq(Event), NEW p, Leads(f, events, p),
           NEW e \in Event, NEW q, Moves(p, e, q),
           NEW g, g = [i \in 0 .. Len(events) + 1 |-> IF i = Len(events) + 1 THEN q ELSE f[i]]
    PROVE  Leads(g, Append(events, e), q) /\ g[0] = f[0]
<1> DEFINE n == Len(events)
           more == Append(events, e)
<1>1. /\ n \in Nat /\ Len(more) = n + 1 /\ more[n + 1] = e
      /\ \A i \in 1 .. n : more[i] = events[i]
  BY AppendProperties, LenProperties
<1>2. Placed(p) /\ Placed(q)
  BY <1>1, MovesKeepPlaced DEF Leads
<1> HIDE DEF more
<1>3. g[n + 1] = q /\ \A i \in 0 .. n : g[i] = f[i]
  BY <1>1
<1>4. \A i \in 0 .. n + 1 : Placed(g[i])
  BY <1>1, <1>2, <1>3 DEF Leads
<1>5. ASSUME NEW i \in 0 .. n PROVE Moves(g[i], more[i + 1], g[i + 1])
  <2>1. CASE i = n
    BY <1>1, <1>3, <2>1 DEF Leads
  <2>2. CASE i # n
    <3>1. i \in 0 .. n - 1 /\ i + 1 \in 1 .. n /\ i + 1 \in 0 .. n
      BY <1>1, <2>2
    <3> QED BY <1>1, <1>3, <3>1 DEF Leads
  <2> QED BY <2>1, <2>2
<1> QED BY <1>1, <1>3, <1>4, <1>5 DEF Leads, more

LEMMA LeadsBehindHead ==
    ASSUME NEW f, NEW events \in Seq(Event), NEW p, Leads(f, events, p), events # <<>>,
           NEW g, g = [i \in 0 .. Len(events) - 1 |-> f[i + 1]]
    PROVE  /\ Placed(f[0]) /\ Moves(f[0], Head(events), f[1]) /\ Head(events) \in Event
           /\ Leads(g, Tail(events), p) /\ g[0] = f[1]
<1> DEFINE n == Len(events)
           rest == Tail(events)
<1>1. /\ n \in Nat \ {0} /\ Len(rest) = n - 1 /\ Head(events) = events[1] /\ Head(events) \in Event
      /\ \A i \in 1 .. n - 1 : rest[i] = events[i + 1]
  BY TailProperties
<1> HIDE DEF rest
<1>2. \A i \in 0 .. n - 1 : g[i] = f[i + 1]
  BY <1>1
<1>3. 0 \in 0 .. n /\ 0 \in 0 .. n - 1 /\ n - 1 \in 0 .. n - 1
  BY <1>1
<1>4. Placed(f[0]) /\ Moves(f[0], Head(events), f[1])
  BY <1>1, <1>3 DEF Leads
<1>5. \A i \in 0 .. n - 1 : Placed(g[i])
  BY <1>1, <1>2 DEF Leads
<1>6. ASSUME NEW i \in 0 .. n - 2 PROVE Moves(g[i], rest[i + 1], g[i + 1])
  <2>1. i + 1 \in 0 .. n - 1 /\ i \in 0 .. n - 1 /\ i + 1 \in 1 .. n - 1
    BY <1>1
  <2> QED BY <1>1, <1>2, <2>1 DEF Leads
<1>7. g[n - 1] = p
  BY <1>1, <1>2, <1>3 DEF Leads
<1> QED BY <1>1, <1>2, <1>3, <1>4, <1>5, <1>6, <1>7 DEF Leads, rest

-----------------------------------------------------------------------------
(***************************************************************************)
(* The queue of events.                                                    *)
(***************************************************************************)
LEMMA NothingIsNotEnough == NeedMoreEvents(<<>>)
BY DEF NeedMoreEvents

(* What is enough stays enough, whatever comes behind it. *)
LEMMA EnoughStaysEnough ==
    ASSUME NEW s \in Seq(Event), ~NeedMoreEvents(s), NEW e \in Event, NEW t, t = Append(s, e)
    PROVE  t # <<>> /\ Head(t) = Head(s) /\ ~NeedMoreEvents(t)
<1>1. /\ s # <<>> /\ Len(s) \in Nat \ {0} /\ t \in Seq(Event) /\ Len(t) = Len(s) + 1
      /\ \A i \in 1 .. Len(s) : t[i] = s[i]
      /\ DOMAIN s = 1 .. Len(s) /\ DOMAIN t = 1 .. Len(t)
  BY AppendProperties, LenProperties, EmptySeq DEF NeedMoreEvents
<1>2. t # <<>> /\ Head(t) = Head(s)
  <2>1. 1 \in 1 .. Len(s)
    BY <1>1
  <2>2. t # <<>>
    BY <1>1, EmptySeq
  <2> QED BY <1>1, <2>1, <2>2, HeadTailProperties
<1> DEFINE least == Accumulate(Head(s).type)
<1>3. least \in 0 .. 3
  BY DEF Accumulate
<1>4. CASE ~(least > 0 /\ Len(t) <= least)
  BY <1>2, <1>4, Zenon DEF NeedMoreEvents
<1>5. CASE least > 0 /\ Len(t) <= least
  <2> HIDE DEF least
  <2>1. least > 0 /\ Len(s) <= least
    BY <1>1, <1>3, <1>5
  <2>2. PICK n \in DOMAIN s : IsComplete(s, n)
    BY <2>1 DEF NeedMoreEvents, least
  <2>3. n \in DOMAIN t /\ \A i \in 1 .. n : t[i] = s[i]
    BY <1>1, <2>2
  <2>4. ASSUME NEW S
        PROVE  {i \in 1 .. n : t[i].type \in S} = {i \in 1 .. n : s[i].type \in S}
    BY <2>3
  <2>5. IsComplete(t, n)
    BY <2>2, <2>4, Zenon DEF IsComplete
  <2> QED BY <1>2, <2>3, <2>5, Zenon DEF NeedMoreEvents
<1> QED BY <1>4, <1>5

(* What yaml_emitter_emit begins with: the event goes to the queue.        *)
Queued(c, e, room) == [c EXCEPT !.events = Append(c.events, e), !.ok = TRUE, !.room = room]

LEMMA EventQueued ==
    ASSUME NEW c, Well(c), NEW e \in Event, NEW room, NEW d, d = Queued(c, e, room)
    PROVE  /\ Well(d) /\ d.ok /\ d.error = c.error /\ d.text = c.text
           /\ SameStates(c, d) /\ SameLevels(c, d)
           /\ d.tagDirectives = c.tagDirectives /\ d.canonical = c.canonical
           /\ d.events = Append(c.events, e)
<1>1. /\ IsEmitter(d) /\ SameStates(c, d) /\ SameLevels(c, d) /\ d.ok /\ d.error = c.error
      /\ d.tagDirectives = c.tagDirectives /\ d.canonical = c.canonical /\ d.text = c.text
      /\ d.column = c.column /\ d.line = c.line /\ d.events = Append(c.events, e)
      /\ d.ok \in BOOLEAN
  BY ZenonT(40) DEF Queued, Well, Sound, IsEmitter, SameStates, SameLevels
<1>2. c.events \in Seq(Event)
  BY DEF Well, Typed
<1>3. Append(c.events, e) \in Seq(Event)
  BY <1>2, AppendProperties
<1>4. Sound(d)
  BY <1>1, Zenon DEF Well, Sound, SameLevels
<1>5. Typed(d)
  BY <1>1, <1>3, Zenon DEF Well, Typed, SameStates, SameLevels
<1> QED BY <1>1, <1>4, <1>5, Zenon DEF Well

(* What it ends with: the write handler of this call is gone. *)
LEMMA RoomForgotten ==
    ASSUME NEW c, Well(c), NEW d, d = [c EXCEPT !.room = -1]
    PROVE  /\ Well(d) /\ SameOutcome(c, d) /\ d.text = c.text
           /\ SameStates(c, d) /\ SameLevels(c, d)
           /\ d.tagDirectives = c.tagDirectives /\ d.canonical = c.canonical
           /\ d.events = c.events
<1>1. /\ IsEmitter(d) /\ SameStates(c, d) /\ SameLevels(c, d) /\ SameOutcome(c, d)
      /\ d.tagDirectives = c.tagDirectives /\ d.canonical = c.canonical /\ d.text = c.text
      /\ d.column = c.column /\ d.line = c.line /\ d.events = c.events
  BY ZenonT(40) DEF Well, Sound, IsEmitter, SameStates, SameLevels, SameOutcome
<1>2. Sound(d)
  BY <1>1, Zenon DEF Well, Sound, SameLevels, SameOutcome
<1>3. Typed(d)
  BY <1>1, Zenon DEF Well, Typed, SameStates, SameLevels, SameOutcome
<1> QED BY <1>1, <1>2, <1>3, Zenon DEF Well

(* An emitter like one that refuses its next event refuses it, too.        *)
LEMMA DoomStays ==
    ASSUME NEW c, Doomed(c), NEW d, d.state = c.state, d.tagDirectives = c.tagDirectives,
           d.canonical = c.canonical, d.events # <<>>, Head(d.events) = Head(c.events),
           ~NeedMoreEvents(d.events)
    PROVE  Doomed(d)
<1> DEFINE e == Head(c.events)
<1>1. Refused(c, e) => Refused(d, e)
  BY Zenon DEF Refused, TagWritten
<1>2. Undeclarable(c, e) => Undeclarable(d, e)
  BY Zenon DEF Undeclarable, Spoilt, Knows, HandlesOf
<1> HIDE DEF e
<1>3. e = Head(d.events)
  BY DEF e
<1>4. \/ Refused(c, e)
      \/ /\ e.type = "DOCUMENT-START" /\ Undeclarable(c, e)
         /\ c.state \in {"FIRST-DOCUMENT-START", "DOCUMENT-START"}
  BY DEF Doomed, e
<1> QED BY <1>1, <1>2, <1>3, <1>4 DEF Doomed

(* The loop of yaml_emitter_emit. *)
Turns(f, c, n) ==
    f = [i \in 0 .. n |-> IF i = 0 THEN c ELSE Turn(f[i - 1])]

LEMMA TurnsExist ==
    ASSUME NEW c, NEW n \in Nat
    PROVE  \E f : Turns(f, c, n)
<1> DEFINE T == {k \in Nat : \E f : Turns(f, c, k)}
<1>1. 0 \in T
  <2> DEFINE f == [i \in 0 .. 0 |-> c]
  <2>1. Turns(f, c, 0)
    BY DEF Turns
  <2> QED BY <2>1
<1>2. ASSUME NEW k \in T PROVE k + 1 \in T
  <2>1. PICK f : Turns(f, c, k)
    OBVIOUS
  <2> DEFINE g == [i \in 0 .. k + 1 |-> IF i \in 0 .. k THEN f[i]
                                        ELSE Turn(f[k])]
  <2>2. ASSUME NEW i \in 0 .. k + 1
        PROVE  g[i] = IF i = 0 THEN c ELSE Turn(g[i - 1])
    <3>1. CASE i = 0
      BY <2>1, <3>1 DEF Turns
    <3>2. CASE i \in 0 .. k /\ i # 0
      <4>1. i - 1 \in 0 .. k /\ i - 1 \in 0 .. k + 1
        BY <3>2
      <4>2. g[i] = f[i] /\ g[i - 1] = f[i - 1]
        BY <3>2, <4>1
      <4>3. f[i] = Turn(f[i - 1])
        BY <2>1, <3>2 DEF Turns
      <4> QED BY <3>2, <4>2, <4>3
    <3>3. CASE i \notin 0 .. k
      <4>1. i - 1 = k /\ k \in 0 .. k /\ k \in 0 .. k + 1 /\ i # 0
        BY <3>3
      <4>2. g[i] = Turn(f[k]) /\ g[k] = f[k]
        BY <3>3, <4>1
      <4> QED BY <4>1, <4>2
    <3> QED BY <3>1, <3>2, <3>3
  <2>3. g = [i \in 0 .. k + 1 |-> g[i]]
    OBVIOUS
  <2> HIDE DEF g
  <2>4. Turns(g, c, k + 1)
    BY <2>2, <2>3 DEF Turns
  <2> QED BY <2>4
<1>3. T = Nat
  <2> HIDE DEF T
  <2>1. T \in SUBSET Nat
    BY DEF T
  <2> QED BY <1>1, <1>2, <2>1, SetInduction
<1> QED BY <1>3


(***************************************************************************)
(* After k turns of the loop: the queue is shorter by k events, or long    *)
(* enough for no more of them to be written, or the loop has failed.       *)
(***************************************************************************)
AfterTurns(c, d, p, k) ==
    /\ Well(d)
    /\ ~d.ok => d.error = "writer" \/ (d.error = "emitter" /\ Doomed(d))
    /\ d.ok => /\ d.error = c.error /\ Follows(d, p)
               /\ NeedMoreEvents(d.events) \/ Len(d.events) + k = Len(c.events)

LEMMA TurnGoesOn ==
    ASSUME NEW c, NEW d, NEW p, NEW k \in Nat, AfterTurns(c, d, p, k), NEW w, w = Turn(d)
    PROVE  AfterTurns(c, w, p, k + 1)
<1>1. CASE ~(d.ok /\ ~NeedMoreEvents(d.events))
  <2>1. w = d
    BY <1>1, Zenon DEF Turn
  <2> QED BY <1>1, <2>1 DEF AfterTurns
<1>2. CASE d.ok /\ ~NeedMoreEvents(d.events)
  <2> DEFINE e == Head(d.events)
  <2>1. w = EmitHead(d)
    BY <1>2, Zenon DEF Turn
  <2>2. d.events # <<>>
    BY <1>2 DEF NeedMoreEvents
  <2>3. /\ Well(d) /\ d.error = c.error /\ Len(d.events) + k = Len(c.events)
        /\ d.events \in Seq(Event)
    BY <1>2 DEF AfterTurns, Well, Typed
  <2>4. PICK f : Mirrors(d, f[0]) /\ Leads(f, d.events, p)
    BY <1>2, Zenon DEF AfterTurns, Follows
  <2> DEFINE g == [i \in 0 .. Len(d.events) - 1 |-> f[i + 1]]
  <2>5. /\ Placed(f[0]) /\ Moves(f[0], e, f[1]) /\ e \in Event
        /\ Leads(g, Tail(d.events), p) /\ g[0] = f[1]
    BY <2>2, <2>3, <2>4, LeadsBehindHead
  <2> HIDE DEF g
  <2>6. Due(d, f[0], e, f[1])
    BY <1>2, <2>3, <2>4, <2>5 DEF Due
  <2>7. Turned(d, w, f[1])
    BY <1>2, <2>1, <2>2, <2>6, EmitHeadTurns
  <2>8. CASE ~w.ok
    BY <2>7, <2>8 DEF Turned, AfterTurns
  <2>9. CASE w.ok
    <3>1. Well(w) /\ Mirrors(w, f[1]) /\ w.error = c.error /\ w.events = Tail(d.events)
      BY <2>3, <2>7, <2>9 DEF Turned
    <3>2. Follows(w, p)
      <4>1. Mirrors(w, g[0]) /\ Leads(g, w.events, p)
        BY <2>5, <3>1
      <4> QED BY <4>1 DEF Follows
    <3>3. Len(w.events) + (k + 1) = Len(c.events)
      <4>1. Len(w.events) = Len(d.events) - 1 /\ Len(d.events) \in Nat \ {0}
        BY <2>2, <2>3, <3>1, TailProperties
      <4> QED BY <2>3, <4>1
    <3> QED BY <2>9, <3>1, <3>2, <3>3 DEF AfterTurns
  <2> QED BY <2>8, <2>9
<1> QED BY <1>1, <1>2

LEMMA TurnsGoOn ==
    ASSUME NEW c, Well(c), c.ok, NEW p, Follows(c, p), NEW n \in Nat, NEW f, Turns(f, c, n)
    PROVE  AfterTurns(c, f[n], p, n)
<1> DEFINE T == {k \in Nat : k <= n => AfterTurns(c, f[k], p, k)}
<1>1. 0 \in T
  <2>1. f[0] = c
    BY DEF Turns
  <2>2. Len(c.events) + 0 = Len(c.events)
    <3>1. c.events \in Seq(Event)
      BY DEF Well, Typed
    <3>2. Len(c.events) \in Nat
      BY <3>1, LenProperties
    <3> QED BY <3>2
  <2>3. AfterTurns(c, c, p, 0)
    BY <2>2 DEF AfterTurns
  <2> QED BY <2>1, <2>3
<1>2. ASSUME NEW k \in T PROVE k + 1 \in T
  <2> SUFFICES ASSUME k + 1 <= n PROVE AfterTurns(c, f[k + 1], p, k + 1)
    OBVIOUS
  <2>1. f[k + 1] = Turn(f[k])
    <3>1. k + 1 \in 0 .. n /\ k + 1 # 0 /\ k + 1 - 1 = k
      OBVIOUS
    <3> QED BY <3>1 DEF Turns
  <2>2. AfterTurns(c, f[k], p, k) /\ k \in Nat
    OBVIOUS
  <2> QED BY <2>1, <2>2, TurnGoesOn
<1>3. T = Nat
  <2> HIDE DEF T
  <2>1. T \in SUBSET Nat
    BY DEF T
  <2> QED BY <1>1, <1>2, <2>1, SetInduction
<1> QED BY <1>3

(* All that the loop does, up to the last of its turns. *)
LEMMA EmitLoopTurns ==
    ASSUME NEW c, c.events \in Seq(Event)
    PROVE  \E f : Turns(f, c, Len(c.events)) /\ EmitLoop(c) = f[Len(c.events)]
<1> DEFINE n == Len(c.events)
           f == CHOOSE f : Turns(f, c, n)
<1>1. EmitLoop(c) = f[n]
  BY DEF EmitLoop, Turns
<1>2. n \in Nat
  BY LenProperties
<1>3. Turns(f, c, n)
  <2> HIDE DEF n
  <2> QED BY <1>2, TurnsExist
<1> HIDE DEF f
<1> QED BY <1>1, <1>3

(* The call writes what it can, and holds back what it must. *)
LEMMA EmitLoopGoesOn ==
    ASSUME NEW c, Well(c), c.ok, NEW p, Follows(c, p), NEW w, w = EmitLoop(c)
    PROVE  /\ Well(w)
           /\ ~w.ok => w.error = "writer" \/ (w.error = "emitter" /\ Doomed(w))
           /\ w.ok => w.error = c.error /\ NeedMoreEvents(w.events) /\ Follows(w, p)
<1> DEFINE n == Len(c.events)
<1>1. PICK f : Turns(f, c, n) /\ w = f[n]
  BY EmitLoopTurns DEF Well, Typed
<1>2. n \in Nat
  BY LenProperties DEF Well, Typed
<1>3. AfterTurns(c, w, p, n)
  <2> HIDE DEF n
  <2> QED BY <1>1, <1>2, TurnsGoOn
<1>4. ASSUME w.ok PROVE NeedMoreEvents(w.events)
  <2>1. CASE NeedMoreEvents(w.events)
    BY <2>1
  <2>2. CASE Len(w.events) + n = n
    <3>1. w.events \in Seq(Event)
      BY <1>3 DEF AfterTurns, Well, Typed
    <3>2. Len(w.events) \in Nat
      BY <3>1, LenProperties
    <3>3. Len(w.events) = 0
      <4> HIDE DEF n
      <4> QED BY <1>2, <2>2, <3>2
    <3>4. w.events = <<>>
      BY <3>1, <3>3, EmptySeq
    <3> QED BY <3>4, NothingIsNotEnough
  <2> QED BY <1>3, <1>4, <2>1, <2>2 DEF AfterTurns
<1> QED BY <1>3, <1>4 DEF AfterTurns

(* No turn follows one that has failed. *)
LEMMA EmitLoopFails ==
    ASSUME NEW c, Well(c), c.ok, Doomed(c), NEW w, w = EmitLoop(c)
    PROVE  Well(w) /\ ~w.ok /\ w.error = "emitter" /\ w.text = c.text /\ Doomed(w)
<1> DEFINE n == Len(c.events)
           d == EmitHead(c)
<1>1. PICK f : Turns(f, c, n) /\ w = f[n]
  BY EmitLoopTurns DEF Well, Typed
<1>2. n \in Nat \ {0} /\ c.events # <<>> /\ ~NeedMoreEvents(c.events)
  BY LenProperties, EmptySeq DEF Well, Typed, Doomed
<1>3. Well(d) /\ ~d.ok /\ d.error = "emitter" /\ d.text = c.text /\ Doomed(d)
  BY DoomedFails
<1>4. d = Turn(c)
  BY <1>2, Zenon DEF Turn
<1> HIDE DEF d, n
<1> DEFINE T == {k \in Nat : k + 1 <= n => f[k + 1] = d}
<1>5. 0 \in T
  <2>1. f[0] = c /\ f[1] = Turn(f[0])
    <3>1. 0 \in 0 .. n /\ 1 \in 0 .. n /\ 1 # 0 /\ 1 - 1 = 0
      BY <1>2
    <3> QED BY <1>1, <3>1 DEF Turns
  <2> QED BY <1>4, <2>1
<1>6. ASSUME NEW k \in T PROVE k + 1 \in T
  <2> SUFFICES ASSUME k + 1 + 1 <= n PROVE f[k + 1 + 1] = d
    OBVIOUS
  <2> DEFINE j == k + 1
  <2>1. j + 1 \in 0 .. n /\ j + 1 # 0 /\ j + 1 - 1 = j /\ j \in Nat /\ n \in Nat
    BY <1>2
  <2>2. f[j] = d
    BY <1>2
  <2> HIDE DEF j
  <2>3. f[j + 1] = Turn(f[j])
    BY <1>1, <2>1 DEF Turns
  <2>4. f[j + 1] = d
    BY <1>3, <2>2, <2>3, Zenon DEF Turn
  <2> QED BY <2>4 DEF j
<1>7. T = Nat
  <2> HIDE DEF T
  <2>1. T \in SUBSET Nat
    BY DEF T
  <2> QED BY <1>5, <1>6, <2>1, SetInduction
<1>8. n - 1 \in T
  <2> HIDE DEF T
  <2>1. n - 1 \in Nat
    BY <1>2
  <2> QED BY <1>7, <2>1
<1>9. n - 1 + 1 = n /\ n - 1 + 1 <= n
  BY <1>2
<1>10. w = d
  BY <1>1, <1>8, <1>9
<1> QED BY <1>3, <1>10

-----------------------------------------------------------------------------
(***************************************************************************)
(* Whatever writes have failed.                                            *)
(*                                                                         *)
(* When a handler runs again after a failed write the emitter need not be  *)
(* where the stream is, but its fields keep their types: what follows is   *)
(* about every emitter and every queue of events.                          *)
(***************************************************************************)
Fit(c) ==
    /\ Sound(c)
    /\ c.state \in State /\ c.states \in Seq(State)
    /\ c.indent \in Level /\ c.indents \in Seq(Level)
    /\ c.flowLevel \in Int
    /\ c.tagDirectives \in Seq(Directive)
    /\ c.events \in Seq(Event)
    /\ c.error \in {"none", "emitter", "writer", "undefined"}
    /\ ~c.ok => c.error # "none"

(* A step of a handler; an error stays an error. *)
Fits(c, d) == /\ Fit(d) /\ d.events = c.events
              /\ d.error = "none" => c.error = "none"

LEMMA FitsSelf ==
    ASSUME NEW c, Fit(c)
    PROVE  Fits(c, c)
BY DEF Fits

LEMMA FitsOn ==
    ASSUME NEW c, NEW d, NEW w, Fits(c, d), Fits(d, w)
    PROVE  Fits(c, w)
BY DEF Fits

LEMMA KeptFits ==
    ASSUME NEW c, Fit(c), NEW d, Kept(c, d)
    PROVE  Fits(c, d)
<1>1. /\ d.error \in {"none", "emitter", "writer", "undefined"}
      /\ ~d.ok => d.error # "none"
      /\ d.error = "none" => c.error = "none"
  BY DEF Kept, Fit
<1> QED BY <1>1 DEF Kept, SamePlace, Fit, Fits

LEMMA FailFits ==
    ASSUME NEW c, Fit(c), NEW kind \in {"emitter", "writer", "undefined"}
    PROVE  Fits(c, Fail(c, kind))
<1> DEFINE d == Fail(c, kind)
<1>1. /\ Sound(d) /\ SamePlace(c, d) /\ ~d.ok
      /\ IF c.ok THEN d.error = kind ELSE d = c
  BY FailKeeps DEF Fit
<1> HIDE DEF d
<1>2. Fits(c, d)
  <2>1. d.error \in {"none", "emitter", "writer", "undefined"} /\ d.error # "none"
    BY <1>1 DEF Fit
  <2> QED BY <1>1, <2>1 DEF SamePlace, Fit, Fits
<1> QED BY <1>2 DEF d

(* A step that changes some fields of an emitter. *)
LEMMA FieldsFit ==
    ASSUME NEW c, Fit(c), c.ok, NEW d, IsEmitter(d), d.events = c.events,
           SameOutcome(c, d), d.column \in Nat, d.line \in Nat,
           d.state \in State, d.states \in Seq(State),
           d.indent \in Level, d.indents \in Seq(Level), d.flowLevel \in Int,
           d.tagDirectives \in Seq(Directive)
    PROVE  Fits(c, d)
<1>1. Sound(d)
  BY DEF Fit, Sound, SameOutcome, Level
<1> QED BY <1>1 DEF Fit, Fits, SameOutcome

(* The steps that change the stacks. *)
LEMMA GoToFits ==
    ASSUME NEW c, Fit(c), NEW state \in State
    PROVE  Fits(c, GoTo(c, state))
<1>1. CASE ~c.ok
  BY <1>1, FitsSelf, Zenon DEF GoTo, Then
<1>2. CASE c.ok
  <2> SUFFICES ASSUME NEW d, d = [c EXCEPT !.state = state] PROVE Fits(c, d)
    BY <1>2, Zenon DEF GoTo, Then
  <2>1. /\ IsEmitter(d) /\ d.events = c.events /\ SameOutcome(c, d) /\ d.column = c.column
        /\ d.line = c.line /\ d.state = state /\ d.states = c.states /\ SameLevels(c, d)
        /\ d.tagDirectives = c.tagDirectives
    BY ZenonT(40) DEF Fit, Sound, IsEmitter, SameOutcome, SameLevels
  <2>2. /\ d.column \in Nat /\ d.line \in Nat /\ d.state \in State /\ d.states \in Seq(State)
        /\ d.indent \in Level /\ d.indents \in Seq(Level) /\ d.flowLevel \in Int
        /\ d.tagDirectives \in Seq(Directive)
    BY <2>1, Zenon DEF Fit, Sound, SameLevels
  <2> QED BY <1>2, <2>1, <2>2, FieldsFit
<1> QED BY <1>1, <1>2

LEMMA PushStateFits ==
    ASSUME NEW c, Fit(c), NEW state \in State
    PROVE  Fits(c, PushState(c, state))
<1>1. CASE ~c.ok
  BY <1>1, FitsSelf, Zenon DEF PushState, Then
<1>2. CASE c.ok
  <2> DEFINE pushed == Append(c.states, state)
  <2> SUFFICES ASSUME NEW d, d = [c EXCEPT !.states = pushed] PROVE Fits(c, d)
    BY <1>2, Zenon DEF PushState, Then
  <2>1. pushed \in Seq(State)
    BY AppendProperties DEF Fit
  <2> HIDE DEF pushed
  <2>2. /\ IsEmitter(d) /\ d.events = c.events /\ SameOutcome(c, d) /\ d.column = c.column
        /\ d.line = c.line /\ d.state = c.state /\ d.states = pushed /\ SameLevels(c, d)
        /\ d.tagDirectives = c.tagDirectives
    BY ZenonT(40) DEF Fit, Sound, IsEmitter, SameOutcome, SameLevels
  <2>3. /\ d.column \in Nat /\ d.line \in Nat /\ d.state \in State /\ d.states \in Seq(State)
        /\ d.indent \in Level /\ d.indents \in Seq(Level) /\ d.flowLevel \in Int
        /\ d.tagDirectives \in Seq(Directive)
    BY <2>1, <2>2, Zenon DEF Fit, Sound, SameLevels
  <2> QED BY <1>2, <2>2, <2>3, FieldsFit
<1> QED BY <1>1, <1>2

LEMMA PopStateFits ==
    ASSUME NEW c, Fit(c)
    PROVE  Fits(c, PopState(c))
<1>1. CASE ~c.ok
  BY <1>1, FitsSelf, Zenon DEF PopState, Then
<1>2. CASE c.ok /\ c.states = <<>>
  BY <1>2, FailFits, Zenon DEF PopState, Underflow
<1>3. CASE c.ok /\ c.states # <<>>
  <2> DEFINE state == Last(c.states)
             states == Front(c.states)
  <2> SUFFICES ASSUME NEW d, d = [c EXCEPT !.state = state, !.states = states] PROVE Fits(c, d)
    BY <1>3, Zenon DEF PopState, Then
  <2>1. state \in State /\ states \in Seq(State)
    BY <1>3, FrontProperties DEF Fit
  <2> HIDE DEF state, states
  <2>2. /\ IsEmitter(d) /\ d.events = c.events /\ SameOutcome(c, d) /\ d.column = c.column
        /\ d.line = c.line /\ d.state = state /\ d.states = states /\ SameLevels(c, d)
        /\ d.tagDirectives = c.tagDirectives
    BY ZenonT(40) DEF Fit, Sound, IsEmitter, SameOutcome, SameLevels
  <2>3. /\ d.column \in Nat /\ d.line \in Nat /\ d.state \in State /\ d.states \in Seq(State)
        /\ d.indent \in Level /\ d.indents \in Seq(Level) /\ d.flowLevel \in Int
        /\ d.tagDirectives \in Seq(Directive)
    BY <2>1, <2>2, Zenon DEF Fit, Sound, SameLevels
  <2> QED BY <1>3, <2>2, <2>3, FieldsFit
<1> QED BY <1>1, <1>2, <1>3

LEMMA LevelsFit ==
    ASSUME NEW c, Fit(c), c.ok, NEW indent \in Level, NEW indents \in Seq(Level), NEW level \in Int,
           NEW d, IsEmitter(d), d.events = c.events, SameStates(c, d), SameOutcome(c, d),
           d.column = c.column, d.line = c.line, d.tagDirectives = c.tagDirectives,
           d.indent = indent, d.indents = indents, d.flowLevel = level
    PROVE  Fits(c, d)
<1>1. /\ d.column \in Nat /\ d.line \in Nat /\ d.state \in State /\ d.states \in Seq(State)
      /\ d.indent \in Level /\ d.indents \in Seq(Level) /\ d.flowLevel \in Int
      /\ d.tagDirectives \in Seq(Directive)
  BY Zenon DEF Fit, Sound, SameStates
<1> QED BY <1>1, FieldsFit

LEMMA IncreaseIndentFits ==
    ASSUME NEW c, Fit(c), NEW flow, NEW indentless
    PROVE  Fits(c, IncreaseIndent(c, flow, indentless))
<1>1. CASE ~c.ok
  BY <1>1, FitsSelf, Zenon DEF IncreaseIndent, Then
<1>2. CASE c.ok
  <2> DEFINE indents == Append(c.indents, c.indent)
             indent == CASE c.indent < 0 -> IF flow THEN BestIndent ELSE 0
                         [] c.indent >= 0 /\ indentless -> c.indent
                         [] OTHER -> c.indent + BestIndent
  <2> SUFFICES ASSUME NEW d, d = [c EXCEPT !.indents = indents, !.indent = indent]
               PROVE  Fits(c, d)
    BY <1>2, Zenon DEF IncreaseIndent, Then
  <2>1. c.indent \in Level /\ c.indents \in Seq(Level) /\ c.flowLevel \in Int
    BY DEF Fit
  <2>2. indent \in Level
    <3>1. indent \in {BestIndent, 0, c.indent, c.indent + BestIndent}
      BY Zenon
    <3> HIDE DEF indent
    <3> QED BY <2>1, <3>1 DEF Level, BestIndent
  <2>3. indents \in Seq(Level)
    BY <2>1, AppendProperties
  <2> HIDE DEF indent, indents
  <2>4. /\ IsEmitter(d) /\ d.events = c.events /\ SameStates(c, d) /\ SameOutcome(c, d)
        /\ d.column = c.column /\ d.line = c.line /\ d.tagDirectives = c.tagDirectives
        /\ d.indent = indent /\ d.indents = indents /\ d.flowLevel = c.flowLevel
    BY ZenonT(40) DEF Fit, Sound, IsEmitter, SameStates, SameOutcome
  <2> QED BY <1>2, <2>1, <2>2, <2>3, <2>4, LevelsFit
<1> QED BY <1>1, <1>2

LEMMA PopIndentFits ==
    ASSUME NEW c, Fit(c)
    PROVE  Fits(c, PopIndent(c))
<1>1. CASE ~c.ok
  BY <1>1, FitsSelf, Zenon DEF PopIndent, Then
<1>2. CASE c.ok /\ c.indents = <<>>
  BY <1>2, FailFits, Zenon DEF PopIndent, Underflow
<1>3. CASE c.ok /\ c.indents # <<>>
  <2> DEFINE indent == Last(c.indents)
             indents == Front(c.indents)
  <2> SUFFICES ASSUME NEW d, d = [c EXCEPT !.indent = indent, !.indents = indents]
               PROVE  Fits(c, d)
    BY <1>3, Zenon DEF PopIndent, Then
  <2>1. indent \in Level /\ indents \in Seq(Level) /\ c.flowLevel \in Int
    BY <1>3, FrontProperties DEF Fit
  <2> HIDE DEF indent, indents
  <2>2. /\ IsEmitter(d) /\ d.events = c.events /\ SameStates(c, d) /\ SameOutcome(c, d)
        /\ d.column = c.column /\ d.line = c.line /\ d.tagDirectives = c.tagDirectives
        /\ d.indent = indent /\ d.indents = indents /\ d.flowLevel = c.flowLevel
    BY ZenonT(40) DEF Fit, Sound, IsEmitter, SameStates, SameOutcome
  <2> QED BY <1>3, <2>1, <2>2, LevelsFit
<1> QED BY <1>1, <1>2, <1>3

LEMMA FlowLevelFits ==
    ASSUME NEW c, Fit(c), c.ok, NEW level \in Int
    PROVE  Fits(c, [c EXCEPT !.flowLevel = level])
<1> SUFFICES ASSUME NEW d, d = [c EXCEPT !.flowLevel = level] PROVE Fits(c, d)
  OBVIOUS
<1>1. /\ IsEmitter(d) /\ d.events = c.events /\ SameStates(c, d) /\ SameOutcome(c, d)
      /\ d.column = c.column /\ d.line = c.line /\ d.tagDirectives = c.tagDirectives
      /\ d.indent = c.indent /\ d.indents = c.indents /\ d.flowLevel = level
  BY ZenonT(40) DEF Fit, Sound, IsEmitter, SameStates, SameOutcome
<1>2. c.indent \in Level /\ c.indents \in Seq(Level)
  BY DEF Fit
<1> QED BY <1>1, <1>2, LevelsFit

LEMMA WritingFits ==
    ASSUME NEW c, Fit(c), NEW what \in Indicator, NEW e, NEW handle, NEW prefix
    PROVE  /\ Fits(c, Tight(c, what)) /\ Fits(c, Apart(c, what)) /\ Fits(c, WriteIndent(c))
           /\ Fits(c, BreakLine(c)) /\ Fits(c, BlockIndicator(c, what))
           /\ Fits(c, BlockIndicator(WriteIndent(c), what)) /\ Fits(c, WriteIndent(Apart(c, what)))
           /\ Fits(c, WriteIndicator(c, what, <<>>, TRUE, TRUE, FALSE))
           /\ Fits(c, ProcessAnchor(c, e)) /\ Fits(c, ProcessTag(c, e))
           /\ Fits(c, WriteTag(c, handle, prefix))
           /\ Fits(c, Flush(c)) /\ Fits(c, EndOpenScalar(c))
<1>1. Sound(c)
  BY DEF Fit
<1>2. Kept(c, Tight(c, what)) /\ Kept(c, Apart(c, what))
  BY <1>1, TightKeeps
<1>3. Kept(c, WriteIndent(c)) /\ Kept(c, BlockIndicator(WriteIndent(c), what))
  BY <1>1, BlockIndicatorKeeps
<1>4. Kept(c, BreakLine(c)) /\ Kept(c, WriteIndent(Apart(c, what)))
  BY <1>1, BreakLineKeeps, DotsKeep
<1>5. Kept(c, BlockIndicator(c, what)) /\ Kept(c, WriteIndicator(c, what, <<>>, TRUE, TRUE, FALSE))
  BY <1>1, WriteIndicatorKeeps DEF BlockIndicator
<1>6. /\ Kept(c, ProcessAnchor(c, e)) /\ Kept(c, ProcessTag(c, e))
      /\ Kept(c, WriteTag(c, handle, prefix))
  BY <1>1, ProcessAnchorKeeps, ProcessTagKeeps, WriteTagKeeps
<1>7. Kept(c, Flush(c)) /\ Kept(c, EndOpenScalar(c))
  BY <1>1, FlushKeeps, EndOpenScalarKeeps
<1> QED BY <1>2, <1>3, <1>4, <1>5, <1>6, <1>7, KeptFits

LEMMA SomeIndicators ==
    /\ "," \in Indicator /\ ":" \in Indicator /\ "?" \in Indicator /\ "-" \in Indicator
    /\ "[" \in Indicator /\ "]" \in Indicator /\ "{" \in Indicator /\ "}" \in Indicator
    /\ "..." \in Indicator /\ "---" \in Indicator /\ "%YAML" \in Indicator
BY DEF Indicator

-----------------------------------------------------------------------------
(* Nodes. *)
LEMMA EmitScalarFits ==
    ASSUME NEW c, Fit(c), NEW e \in ScalarEvent
    PROVE  Fits(c, EmitScalar(c, e))
<1> DEFINE style == ScalarStyle(c, e)
           anchored == ProcessAnchor(c, e)
           tagged == IF ~TagWritten(c, e) /\ ~e.quotedImplicit /\ style # "plain"
                     THEN WriteTag(anchored, <<"!">>, NoTag) ELSE ProcessTag(anchored, e)
           inner == IncreaseIndent(tagged, TRUE, FALSE)
           written == ProcessScalar(inner, e.text, style)
           outer == PopIndent(written)
<1>1. EmitScalar(c, e) = PopState(outer)
  <2>1. ~(~TagWritten(c, e) /\ ~e.plainImplicit /\ ~e.quotedImplicit)
    BY ScalarsHaveTags
  <2> QED BY <2>1, Zenon DEF EmitScalar
<1>2. style \in ScalarStyles /\ Len(e.text) \in Nat
  BY ScalarEventTyped, ScalarStyleKnown
<1>3. Fits(c, anchored)
  BY SomeIndicators, WritingFits
<1> HIDE DEF anchored, style
<1>4. Fits(anchored, tagged)
  <2>1. Fit(anchored)
    BY <1>3 DEF Fits
  <2> QED BY <2>1, SomeIndicators, WritingFits
<1> HIDE DEF tagged
<1>5. Fits(tagged, inner)
  BY <1>4, IncreaseIndentFits DEF Fits
<1> HIDE DEF inner
<1>6. Fits(inner, written)
  <2>1. Kept(inner, written)
    BY <1>2, <1>5, ProcessScalarKeeps DEF Fits, Fit
  <2> HIDE DEF written
  <2> QED BY <1>5, <2>1, KeptFits DEF Fits
<1> HIDE DEF written
<1>7. Fits(written, outer)
  BY <1>6, PopIndentFits DEF Fits
<1> HIDE DEF outer
<1>8. Fits(outer, PopState(outer))
  BY <1>7, PopStateFits DEF Fits
<1> QED BY <1>1, <1>3, <1>4, <1>5, <1>6, <1>7, <1>8, FitsOn

LEMMA EmitCollectionStartFits ==
    ASSUME NEW c, Fit(c), NEW e, NEW empty, NEW flowState \in State, NEW blockState \in State
    PROVE  Fits(c, EmitCollectionStart(c, e, empty, flowState, blockState))
<1> DEFINE anchored == ProcessAnchor(c, e)
           tagged == ProcessTag(anchored, e)
           state == IF c.flowLevel > 0 \/ c.canonical \/ e.flow \/ empty
                    THEN flowState ELSE blockState
<1>1. Fits(c, anchored)
  BY SomeIndicators, WritingFits
<1>2. EmitCollectionStart(c, e, empty, flowState, blockState) = GoTo(tagged, state)
  BY Zenon DEF EmitCollectionStart
<1> HIDE DEF anchored
<1>3. Fits(anchored, tagged)
  <2>1. Fit(anchored)
    BY <1>1 DEF Fits
  <2> QED BY <2>1, SomeIndicators, WritingFits
<1> HIDE DEF tagged
<1>4. Fits(tagged, GoTo(tagged, state))
  <2>1. state \in State
    BY Zenon
  <2> HIDE DEF state
  <2> QED BY <1>3, <2>1, GoToFits DEF Fits
<1> HIDE DEF state
<1> QED BY <1>1, <1>2, <1>3, <1>4, FitsOn

LEMMA EmitNodeFits ==
    ASSUME NEW c, Fit(c), c.events # <<>>, NEW root, NEW mapping, NEW simpleKey
    PROVE  Fits(c, EmitNode(c, root, mapping, simpleKey))
<1> DEFINE w == Then(c, LAMBDA v : [v EXCEPT !.rootContext = root, !.mappingContext = mapping,
                                             !.simpleKeyContext = simpleKey])
           e == Head(c.events)
           d == EmitNode(c, root, mapping, simpleKey)
<1>1. Fits(c, w)
  <2>1. CASE ~c.ok
    BY <2>1, FitsSelf, Zenon DEF Then
  <2>2. CASE c.ok
    <3> SUFFICES ASSUME NEW u, u = [c EXCEPT !.rootContext = root, !.mappingContext = mapping,
                                             !.simpleKeyContext = simpleKey]
                 PROVE  Fits(c, u)
      BY <2>2, Zenon DEF Then
    <3>1. /\ IsEmitter(u) /\ SamePlace(c, u) /\ SameOutcome(c, u)
          /\ u.column = c.column /\ u.line = c.line
      BY ZenonT(40) DEF Fit, Sound, IsEmitter, SamePlace, SameOutcome
    <3>2. Drawn(c, u)
      BY <2>2, <3>1, PageStepDraws, Zenon DEF Sound, Fit
    <3> QED BY <3>2, KeptFits DEF Drawn
  <2> QED BY <2>1, <2>2
<1>2. Fit(w) /\ e \in Event
  <2>1. c.events \in Seq(Event)
    BY DEF Fit
  <2>2. e \in Event
    BY <2>1, TailProperties
  <2> HIDE DEF w, e
  <2> QED BY <1>1, <2>2 DEF Fits
<1>3. d = CASE e.type = "ALIAS" -> PopState(ProcessAnchor(w, e))
            [] e.type = "SCALAR" -> EmitScalar(w, e)
            [] e.type = "SEQUENCE-START" ->
                  EmitCollectionStart(w, e, CheckEmptySequence(w),
                                      "FLOW-SEQUENCE-FIRST-ITEM", "BLOCK-SEQUENCE-FIRST-ITEM")
            [] e.type = "MAPPING-START" ->
                  EmitCollectionStart(w, e, CheckEmptyMapping(w),
                                      "FLOW-MAPPING-FIRST-KEY", "BLOCK-MAPPING-FIRST-KEY")
            [] OTHER -> Fail(w, "emitter")
  BY Zenon DEF EmitNode
<1> HIDE DEF w, e, d
<1>4. CASE e.type = "ALIAS"
  <2>1. Fits(w, ProcessAnchor(w, e))
    BY <1>2, SomeIndicators, WritingFits
  <2> DEFINE v == ProcessAnchor(w, e)
  <2> HIDE DEF v
  <2>2. Fits(w, v)
    BY <2>1 DEF v
  <2>3. Fits(v, PopState(v))
    BY <2>2, PopStateFits DEF Fits
  <2>4. d = PopState(v)
    BY <1>3, <1>4, Zenon DEF v
  <2> QED BY <1>1, <2>2, <2>3, <2>4, FitsOn DEF d
<1>5. CASE e.type = "SCALAR"
  <2>1. d = EmitScalar(w, e)
    BY <1>3, <1>5
  <2>2. e \in ScalarEvent
    <3>1. e \notin AliasEvent /\ e \notin CollectionEvent
      BY <1>5 DEF AliasEvent, CollectionEvent
    <3> QED BY <1>2, <1>5, <3>1, EventTypes DEF NodeType, NodeEvent
  <2>3. Fits(w, d)
    BY <1>2, <2>1, <2>2, EmitScalarFits
  <2> QED BY <1>1, <2>3, FitsOn DEF d
<1>6. CASE e.type = "SEQUENCE-START"
  <2> DEFINE empty == CheckEmptySequence(w)
  <2>1. d = EmitCollectionStart(w, e, empty, "FLOW-SEQUENCE-FIRST-ITEM",
                                "BLOCK-SEQUENCE-FIRST-ITEM")
    BY <1>3, <1>6
  <2> HIDE DEF empty
  <2>2. Fits(w, d)
    <3>1. "FLOW-SEQUENCE-FIRST-ITEM" \in State /\ "BLOCK-SEQUENCE-FIRST-ITEM" \in State
      BY DEF State
    <3> QED BY <1>2, <2>1, <3>1, EmitCollectionStartFits
  <2> QED BY <1>1, <2>2, FitsOn DEF d
<1>7. CASE e.type = "MAPPING-START"
  <2> DEFINE empty == CheckEmptyMapping(w)
  <2>1. d = EmitCollectionStart(w, e, empty, "FLOW-MAPPING-FIRST-KEY",
                                "BLOCK-MAPPING-FIRST-KEY")
    BY <1>3, <1>7
  <2> HIDE DEF empty
  <2>2. Fits(w, d)
    <3>1. "FLOW-MAPPING-FIRST-KEY" \in State /\ "BLOCK-MAPPING-FIRST-KEY" \in State
      BY DEF State
    <3> QED BY <1>2, <2>1, <3>1, EmitCollectionStartFits
  <2> QED BY <1>1, <2>2, FitsOn DEF d
<1>8. CASE e.type \notin {"ALIAS", "SCALAR", "SEQUENCE-START", "MAPPING-START"}
  <2>1. d = Fail(w, "emitter")
    BY <1>3, <1>8
  <2>2. Fits(w, d)
    BY <1>2, <2>1, FailFits
  <2> QED BY <1>1, <2>2, FitsOn DEF d
<1> QED BY <1>4, <1>5, <1>6, <1>7, <1>8 DEF d

(* A state is pushed, and the node behind it emitted. *)
LEMMA ChildFits ==
    ASSUME NEW c, Fit(c), c.events # <<>>, NEW state \in State,
           NEW root, NEW mapping, NEW simpleKey
    PROVE  Fits(c, EmitNode(PushState(c, state), root, mapping, simpleKey))
<1> DEFINE d == PushState(c, state)
<1>1. Fits(c, d)
  BY PushStateFits
<1> HIDE DEF d
<1>2. Fits(d, EmitNode(d, root, mapping, simpleKey))
  BY <1>1, EmitNodeFits DEF Fits
<1>3. Fits(c, EmitNode(d, root, mapping, simpleKey))
  BY <1>1, <1>2, FitsOn
<1> QED BY <1>3 DEF d

(* Flow collections. *)
LEMMA EnterFlowFits ==
    ASSUME NEW c, Fit(c), NEW opener \in Indicator
    PROVE  Fits(c, EnterFlow(c, opener))
<1> DEFINE w == WriteIndicator(c, opener, <<>>, TRUE, TRUE, FALSE)
           v == IncreaseIndent(w, TRUE, FALSE)
           d == EnterFlow(c, opener)
<1>1. Fits(c, w)
  BY WritingFits
<1>2. d = Then(v, LAMBDA u : [u EXCEPT !.flowLevel = @ + 1])
  BY Zenon DEF EnterFlow
<1> HIDE DEF w, d
<1>3. Fits(w, v)
  BY <1>1, IncreaseIndentFits DEF Fits
<1> HIDE DEF v
<1>4. Fits(v, d)
  <2>1. Fit(v) /\ v.flowLevel + 1 \in Int
    BY <1>3 DEF Fits, Fit
  <2>2. CASE ~v.ok
    BY <1>2, <2>1, <2>2, FitsSelf, Zenon DEF Then
  <2>3. CASE v.ok
    <3>1. d = [v EXCEPT !.flowLevel = v.flowLevel + 1]
      BY <1>2, <2>3, Zenon DEF Then
    <3> QED BY <2>1, <2>3, <3>1, FlowLevelFits
  <2> QED BY <2>2, <2>3
<1>5. Fits(c, d)
  BY <1>1, <1>3, <1>4, FitsOn
<1> QED BY <1>5 DEF d

LEMMA LeaveFlowFits ==
    ASSUME NEW c, Fit(c), NEW closer \in Indicator, NEW first
    PROVE  Fits(c, LeaveFlow(c, closer, first))
<1> DEFINE u == Then(c, LAMBDA w : [w EXCEPT !.flowLevel = @ - 1])
           d == PopIndent(u)
           w == IF c.canonical /\ ~first THEN WriteIndent(Tight(d, ",")) ELSE d
           v == Tight(w, closer)
<1>1. LeaveFlow(c, closer, first) = PopState(v)
  BY Zenon DEF LeaveFlow
<1>2. Fits(c, u)
  <2>1. c.flowLevel - 1 \in Int
    BY DEF Fit
  <2>2. CASE ~c.ok
    BY <2>2, FitsSelf, Zenon DEF Then
  <2>3. CASE c.ok
    <3>1. u = [c EXCEPT !.flowLevel = c.flowLevel - 1]
      BY <2>3, Zenon DEF Then
    <3> HIDE DEF u
    <3> QED BY <2>1, <2>3, <3>1, FlowLevelFits
  <2> QED BY <2>2, <2>3
<1> HIDE DEF u
<1>3. Fits(u, d)
  BY <1>2, PopIndentFits DEF Fits
<1> HIDE DEF d
<1>4. Fits(d, w)
  <2>1. Fit(d)
    BY <1>3 DEF Fits
  <2>2. Fits(d, Tight(d, ","))
    BY <2>1, SomeIndicators, WritingFits
  <2> DEFINE x == Tight(d, ",")
  <2> HIDE DEF x
  <2>3. Fit(x) /\ Fits(d, x)
    BY <2>2 DEF Fits, x
  <2>4. Fits(x, WriteIndent(x))
    BY <2>3, SomeIndicators, WritingFits
  <2>5. Fits(d, WriteIndent(x))
    BY <2>3, <2>4, FitsOn
  <2> QED BY <2>1, <2>5, FitsSelf DEF x
<1> HIDE DEF w
<1>5. Fits(w, v)
  <2>1. Fit(w)
    BY <1>4 DEF Fits
  <2> QED BY <2>1, WritingFits
<1> HIDE DEF v
<1>6. Fits(v, PopState(v))
  BY <1>5, PopStateFits DEF Fits
<1> QED BY <1>1, <1>2, <1>3, <1>4, <1>5, <1>6, FitsOn

LEMMA FlowSequenceItemFits ==
    ASSUME NEW c, Fit(c), c.events # <<>>, NEW first
    PROVE  Fits(c, FlowSequenceItem(c, first))
<1> DEFINE d == IF first THEN EnterFlow(c, "[") ELSE c
           w == IF first THEN d ELSE Tight(d, ",")
           v == BreakLine(w)
           yes == TRUE
           no == FALSE
<1>1. Fits(c, d)
  BY SomeIndicators, EnterFlowFits, FitsSelf
<1>2. FlowSequenceItem(c, first) =
          IF Head(c.events).type = "SEQUENCE-END" THEN LeaveFlow(d, "]", first)
          ELSE EmitNode(PushState(v, "FLOW-SEQUENCE-ITEM"), no, no, no)
  BY Zenon DEF FlowSequenceItem
<1> HIDE DEF d, yes, no
<1>3. Fit(d) /\ d.events = c.events
  BY <1>1 DEF Fits
<1>4. Fits(d, LeaveFlow(d, "]", first))
  BY <1>3, SomeIndicators, LeaveFlowFits
<1>5. Fits(d, w)
  BY <1>3, SomeIndicators, WritingFits, FitsSelf
<1> HIDE DEF w
<1>6. Fits(w, v)
  <2>1. Fit(w)
    BY <1>5 DEF Fits
  <2> QED BY <2>1, SomeIndicators, WritingFits
<1> HIDE DEF v
<1>7. Fits(v, EmitNode(PushState(v, "FLOW-SEQUENCE-ITEM"), no, no, no))
  <2>1. Fit(v) /\ v.events # <<>> /\ "FLOW-SEQUENCE-ITEM" \in State
    BY <1>3, <1>5, <1>6 DEF Fits, State
  <2> QED BY <2>1, ChildFits
<1> QED BY <1>1, <1>2, <1>4, <1>5, <1>6, <1>7, FitsOn

LEMMA FlowMappingKeyFits ==
    ASSUME NEW c, Fit(c), c.events # <<>>, NEW first
    PROVE  Fits(c, FlowMappingKey(c, first))
<1> DEFINE d == IF first THEN EnterFlow(c, "{") ELSE c
           u == IF first THEN d ELSE Tight(d, ",")
           w == BreakLine(u)
           v == Apart(w, "?")
           yes == TRUE
           no == FALSE
           simple == EmitNode(PushState(w, "FLOW-MAPPING-SIMPLE-VALUE"), no, yes, yes)
           complex == EmitNode(PushState(v, "FLOW-MAPPING-VALUE"), no, yes, no)
<1>1. Fits(c, d)
  BY SomeIndicators, EnterFlowFits, FitsSelf
<1>2. FlowMappingKey(c, first) \in {LeaveFlow(d, "}", first), simple, complex}
  BY Zenon DEF FlowMappingKey
<1> HIDE DEF d, yes, no
<1>3. Fit(d) /\ d.events = c.events
  BY <1>1 DEF Fits
<1>4. Fits(d, LeaveFlow(d, "}", first))
  BY <1>3, SomeIndicators, LeaveFlowFits
<1>5. Fits(d, u)
  BY <1>3, SomeIndicators, WritingFits, FitsSelf
<1> HIDE DEF u
<1>6. Fits(u, w)
  <2>1. Fit(u)
    BY <1>5 DEF Fits
  <2> QED BY <2>1, SomeIndicators, WritingFits
<1> HIDE DEF w
<1>7. Fit(w) /\ w.events # <<>>
  BY <1>3, <1>5, <1>6 DEF Fits
<1>8. Fits(w, v)
  BY <1>7, SomeIndicators, WritingFits
<1> HIDE DEF v
<1>9. Fit(v) /\ v.events # <<>>
  BY <1>7, <1>8 DEF Fits
<1>10. "FLOW-MAPPING-SIMPLE-VALUE" \in State /\ "FLOW-MAPPING-VALUE" \in State
  BY DEF State
<1>11. Fits(w, simple)
  BY <1>7, <1>10, ChildFits
<1>12. Fits(v, complex)
  BY <1>9, <1>10, ChildFits
<1> HIDE DEF simple, complex
<1>13. Fits(d, w)
  BY <1>5, <1>6, FitsOn
<1>14. Fits(c, simple) /\ Fits(c, complex)
  BY <1>1, <1>8, <1>11, <1>12, <1>13, FitsOn
<1>15. Fits(c, LeaveFlow(d, "}", first))
  BY <1>1, <1>4, FitsOn
<1> QED BY <1>2, <1>14, <1>15

LEMMA FlowMappingValueFits ==
    ASSUME NEW c, Fit(c), c.events # <<>>, NEW simple
    PROVE  Fits(c, FlowMappingValue(c, simple))
<1> DEFINE w == BreakLine(c)
           d == IF simple THEN Tight(c, ":") ELSE Apart(w, ":")
           yes == TRUE
           no == FALSE
<1>1. FlowMappingValue(c, simple) = EmitNode(PushState(d, "FLOW-MAPPING-KEY"), no, yes, no)
  BY Zenon DEF FlowMappingValue
<1> HIDE DEF yes, no
<1>2. Fits(c, w)
  BY SomeIndicators, WritingFits
<1> HIDE DEF w
<1>3. Fits(c, d)
  <2>1. Fits(c, Tight(c, ":"))
    BY SomeIndicators, WritingFits
  <2>2. Fits(w, Apart(w, ":"))
    BY <1>2, SomeIndicators, WritingFits DEF Fits
  <2> QED BY <1>2, <2>1, <2>2, FitsOn
<1> HIDE DEF d
<1>4. Fits(d, EmitNode(PushState(d, "FLOW-MAPPING-KEY"), no, yes, no))
  <2>1. Fit(d) /\ d.events # <<>> /\ "FLOW-MAPPING-KEY" \in State
    BY <1>3 DEF Fits, State
  <2> QED BY <2>1, ChildFits
<1> QED BY <1>1, <1>3, <1>4, FitsOn

-----------------------------------------------------------------------------
(* Block collections. *)
LEMMA LeaveBlockFits ==
    ASSUME NEW c, Fit(c)
    PROVE  Fits(c, LeaveBlock(c))
<1> DEFINE d == PopIndent(c)
<1>1. Fits(c, d)
  BY PopIndentFits
<1> HIDE DEF d
<1>2. Fits(d, PopState(d))
  BY <1>1, PopStateFits DEF Fits
<1>3. Fits(c, PopState(d))
  BY <1>1, <1>2, FitsOn
<1> QED BY <1>3 DEF LeaveBlock, d

LEMMA BlockSequenceItemFits ==
    ASSUME NEW c, Fit(c), c.events # <<>>, NEW first
    PROVE  Fits(c, BlockSequenceItem(c, first))
<1> DEFINE indentless == c.mappingContext /\ ~c.indention
           no == FALSE
           d == IF first THEN IncreaseIndent(c, no, indentless) ELSE c
           w == BlockIndicator(WriteIndent(d), "-")
<1>1. BlockSequenceItem(c, first) =
          IF Head(c.events).type = "SEQUENCE-END" THEN LeaveBlock(d)
          ELSE EmitNode(PushState(w, "BLOCK-SEQUENCE-ITEM"), no, no, no)
  BY Zenon DEF BlockSequenceItem
<1> HIDE DEF no, indentless
<1>2. Fits(c, d)
  BY IncreaseIndentFits, FitsSelf
<1> HIDE DEF d
<1>3. Fit(d) /\ d.events = c.events
  BY <1>2 DEF Fits
<1>4. Fits(d, LeaveBlock(d))
  BY <1>3, LeaveBlockFits
<1>5. Fits(d, w)
  BY <1>3, SomeIndicators, WritingFits
<1> HIDE DEF w
<1>6. Fits(w, EmitNode(PushState(w, "BLOCK-SEQUENCE-ITEM"), no, no, no))
  <2>1. Fit(w) /\ w.events # <<>> /\ "BLOCK-SEQUENCE-ITEM" \in State
    BY <1>3, <1>5 DEF Fits, State
  <2> QED BY <2>1, ChildFits
<1> QED BY <1>1, <1>2, <1>4, <1>5, <1>6, FitsOn

LEMMA BlockMappingKeyFits ==
    ASSUME NEW c, Fit(c), c.events # <<>>, NEW first
    PROVE  Fits(c, BlockMappingKey(c, first))
<1> DEFINE yes == TRUE
           no == FALSE
           d == IF first THEN IncreaseIndent(c, no, no) ELSE c
           w == WriteIndent(d)
           v == BlockIndicator(w, "?")
           simple == EmitNode(PushState(w, "BLOCK-MAPPING-SIMPLE-VALUE"), no, yes, yes)
           complex == EmitNode(PushState(v, "BLOCK-MAPPING-VALUE"), no, yes, no)
<1>1. BlockMappingKey(c, first) \in {LeaveBlock(d), simple, complex}
  BY Zenon DEF BlockMappingKey
<1> HIDE DEF no, yes
<1>2. Fits(c, d)
  BY IncreaseIndentFits, FitsSelf
<1> HIDE DEF d
<1>3. Fit(d) /\ d.events = c.events
  BY <1>2 DEF Fits
<1>4. Fits(d, LeaveBlock(d))
  BY <1>3, LeaveBlockFits
<1>5. Fits(d, w)
  BY <1>3, SomeIndicators, WritingFits
<1> HIDE DEF w
<1>6. Fit(w) /\ w.events # <<>>
  BY <1>3, <1>5 DEF Fits
<1>7. Fits(w, v)
  BY <1>6, SomeIndicators, WritingFits
<1> HIDE DEF v
<1>8. Fit(v) /\ v.events # <<>>
  BY <1>6, <1>7 DEF Fits
<1>9. "BLOCK-MAPPING-SIMPLE-VALUE" \in State /\ "BLOCK-MAPPING-VALUE" \in State
  BY DEF State
<1>10. Fits(w, simple)
  BY <1>6, <1>9, ChildFits
<1>11. Fits(v, complex)
  BY <1>8, <1>9, ChildFits
<1> HIDE DEF simple, complex
<1>12. Fits(c, simple) /\ Fits(c, complex)
  BY <1>2, <1>5, <1>7, <1>10, <1>11, FitsOn
<1> QED BY <1>1, <1>2, <1>4, <1>12, FitsOn

LEMMA BlockMappingValueFits ==
    ASSUME NEW c, Fit(c), c.events # <<>>, NEW simple
    PROVE  Fits(c, BlockMappingValue(c, simple))
<1> DEFINE d == IF simple THEN Tight(c, ":") ELSE BlockIndicator(WriteIndent(c), ":")
           yes == TRUE
           no == FALSE
<1>1. BlockMappingValue(c, simple) = EmitNode(PushState(d, "BLOCK-MAPPING-KEY"), no, yes, no)
  BY Zenon DEF BlockMappingValue
<1> HIDE DEF yes, no
<1>2. Fits(c, d)
  BY SomeIndicators, WritingFits
<1> HIDE DEF d
<1>3. Fits(d, EmitNode(PushState(d, "BLOCK-MAPPING-KEY"), no, yes, no))
  <2>1. Fit(d) /\ d.events # <<>> /\ "BLOCK-MAPPING-KEY" \in State
    BY <1>2 DEF Fits, State
  <2> QED BY <2>1, ChildFits
<1> QED BY <1>1, <1>2, <1>3, FitsOn

-----------------------------------------------------------------------------
(* The stream and its documents. *)
LEMMA StreamStartFits ==
    ASSUME NEW c, Fit(c), c.ok
    PROVE  Fits(c, StreamStart(c))
<1>1. CASE Head(c.events).type # "STREAM-START"
  BY <1>1, FailFits, Zenon DEF StreamStart
<1>2. CASE Head(c.events).type = "STREAM-START"
  <2> SUFFICES ASSUME NEW d, d = [c EXCEPT !.indent = -1, !.column = 0, !.line = 0,
                                           !.whitespace = TRUE, !.indention = TRUE]
               PROVE  Fits(c, GoTo(d, "FIRST-DOCUMENT-START"))
    BY <1>2, Zenon DEF StreamStart
  <2>2. /\ IsEmitter(d) /\ d.events = c.events /\ SameOutcome(c, d) /\ SameStates(c, d)
        /\ d.tagDirectives = c.tagDirectives /\ d.flowLevel = c.flowLevel /\ d.indents = c.indents
        /\ d.indent = -1 /\ d.column = 0 /\ d.line = 0
    BY ZenonT(40) DEF Fit, Sound, IsEmitter, SameStates, SameOutcome
  <2>3. -1 \in Level /\ 0 \in Nat
    BY DEF Level
  <2>4. /\ d.column \in Nat /\ d.line \in Nat /\ d.state \in State /\ d.states \in Seq(State)
        /\ d.indent \in Level /\ d.indents \in Seq(Level) /\ d.flowLevel \in Int
        /\ d.tagDirectives \in Seq(Directive)
    BY <2>2, <2>3, Zenon DEF Fit, SameStates
  <2>5. Fits(c, d)
    BY <2>2, <2>4, FieldsFit
  <2>6. Fits(d, GoTo(d, "FIRST-DOCUMENT-START"))
    <3>1. "FIRST-DOCUMENT-START" \in State
      BY DEF State
    <3> QED BY <2>5, <3>1, GoToFits DEF Fits
  <2> QED BY <2>5, <2>6, FitsOn
<1> QED BY <1>1, <1>2

LEMMA AddDirectiveFits ==
    ASSUME NEW c, Fit(c), NEW directive \in [handle : Handles \cup {BadHandle}, prefix : TagPrefixes],
           NEW allowDuplicates
    PROVE  Fits(c, AddDirective(c, directive, allowDuplicates))
<1>1. CASE ~c.ok
  BY <1>1, AddDirectiveStays, FitsSelf
<1>2. CASE directive.handle = BadHandle
  BY <1>2, FailFits, Zenon DEF AddDirective
<1>3. CASE c.ok /\ directive.handle # BadHandle /\ directive.handle \notin HandlesOf(c.tagDirectives)
  <2> DEFINE more == Append(c.tagDirectives, directive)
  <2>1. more \in Seq(Directive)
    <3>1. directive \in Directive
      BY <1>3 DEF Directive
    <3> QED BY <3>1, AppendProperties DEF Fit
  <2> SUFFICES ASSUME NEW d, d = [c EXCEPT !.tagDirectives = more] PROVE Fits(c, d)
    BY <1>3, Zenon DEF AddDirective, AppendTagDirective, Then
  <2> HIDE DEF more
  <2>2. /\ IsEmitter(d) /\ d.events = c.events /\ SameOutcome(c, d) /\ SameStates(c, d)
        /\ SameLevels(c, d) /\ d.tagDirectives = more /\ d.column = c.column /\ d.line = c.line
    BY ZenonT(40) DEF Fit, Sound, IsEmitter, SameStates, SameLevels, SameOutcome
  <2>3. /\ d.column \in Nat /\ d.line \in Nat /\ d.state \in State /\ d.states \in Seq(State)
        /\ d.indent \in Level /\ d.indents \in Seq(Level) /\ d.flowLevel \in Int
        /\ d.tagDirectives \in Seq(Directive)
    BY <2>1, <2>2, Zenon DEF Fit, Sound, SameStates, SameLevels
  <2> QED BY <1>3, <2>2, <2>3, FieldsFit
<1>4. CASE directive.handle # BadHandle /\ directive.handle \in HandlesOf(c.tagDirectives)
  <2>1. AddDirective(c, directive, allowDuplicates) \in {c, Fail(c, "emitter")}
    BY <1>4, Zenon DEF AddDirective, AppendTagDirective
  <2>2. Fits(c, Fail(c, "emitter"))
    BY FailFits
  <2> QED BY <2>1, <2>2, FitsSelf
<1> QED BY <1>1, <1>2, <1>3, <1>4

LEMMA AddDirectivesFits ==
    ASSUME NEW c, Fit(c), NEW allowDuplicates,
           NEW directives \in Seq([handle : Handles \cup {BadHandle}, prefix : TagPrefixes])
    PROVE  Fits(c, AddDirectives(c, directives, allowDuplicates))
<1> DEFINE n == Len(directives)
           f == CHOOSE f : Additions(f, c, directives, allowDuplicates, n)
           T == {k \in Nat : k <= n => Fits(c, f[k])}
<1>1. AddDirectives(c, directives, allowDuplicates) = f[n]
  BY DEF AddDirectives, Additions
<1>2. n \in Nat
  BY LenProperties
<1>3. Additions(f, c, directives, allowDuplicates, n)
  <2> HIDE DEF n
  <2> QED BY <1>2, AdditionsExist
<1> HIDE DEF f
<1>4. 0 \in T
  <2>1. f[0] = c
    BY <1>2, <1>3 DEF Additions
  <2> QED BY <2>1, FitsSelf
<1>5. ASSUME NEW k \in T PROVE k + 1 \in T
  <2> SUFFICES ASSUME k + 1 <= n PROVE Fits(c, f[k + 1])
    OBVIOUS
  <2> DEFINE d == f[k]
             directive == directives[k + 1]
  <2>1. f[k + 1] = AddDirective(d, directive, allowDuplicates)
    <3>1. k + 1 \in 0 .. n /\ k + 1 # 0 /\ k + 1 - 1 = k
      BY <1>2
    <3> QED BY <1>3, <3>1 DEF Additions
  <2>2. directive \in [handle : Handles \cup {BadHandle}, prefix : TagPrefixes]
    <3>1. k + 1 \in 1 .. Len(directives)
      BY <1>2
    <3> QED BY <3>1, ElementOfSeq
  <2>3. Fits(c, d)
    BY <1>2
  <2> HIDE DEF d, directive
  <2>4. Fits(d, AddDirective(d, directive, allowDuplicates))
    BY <2>2, <2>3, AddDirectiveFits DEF Fits
  <2> QED BY <2>1, <2>3, <2>4, FitsOn
<1>6. T = Nat
  <2> HIDE DEF T
  <2>1. T \in SUBSET Nat
    BY DEF T
  <2> QED BY <1>4, <1>5, <2>1, SetInduction
<1>7. Fits(c, f[n])
  BY <1>2, <1>6
<1> QED BY <1>1, <1>7

LEMMA StartDocumentFits ==
    ASSUME NEW c, Fit(c), NEW e \in DocumentStartEvent, NEW first
    PROVE  Fits(c, StartDocument(c, e, first))
<1> DEFINE directives == e.version # "none" \/ e.tagDirectives # <<>>
           explicit == ~first \/ c.canonical \/ ~e.implicit \/ directives
           checked == IF e.version \notin {"none", "1.1"} THEN Fail(c, "emitter") ELSE c
           added == AddDirectives(checked, e.tagDirectives, FALSE)
           known == AddDirectives(added, Defaults, TRUE)
           ended == IF directives THEN EndOpenScalar(known) ELSE known
           version == Apart(ended, "%YAML")
           versioned == IF e.version # "none" THEN WriteIndent(version) ELSE ended
           declared == WriteTagDirectives(versioned, e.tagDirectives)
           indented == WriteIndent(declared)
           marked == IF explicit THEN Apart(indented, "---") ELSE declared
           begun == IF explicit /\ c.canonical THEN WriteIndent(marked) ELSE marked
<1>1. StartDocument(c, e, first) = GoTo(begun, "DOCUMENT-CONTENT")
  BY Zenon DEF StartDocument
<1>2. /\ e.tagDirectives \in Seq([handle : Handles \cup {BadHandle}, prefix : TagPrefixes])
      /\ Defaults \in Seq([handle : Handles \cup {BadHandle}, prefix : TagPrefixes])
  <2>1. Directive \subseteq [handle : Handles \cup {BadHandle}, prefix : TagPrefixes]
    BY DEF Directive
  <2>2. Defaults \in Seq([handle : Handles \cup {BadHandle}, prefix : TagPrefixes])
    <3> DEFINE S == [handle : Handles \cup {BadHandle}, prefix : TagPrefixes]
    <3>1. Directive \subseteq S
      BY <2>1
    <3> HIDE DEF S
    <3>2. Defaults \in Seq(S)
      BY <3>1, EmitterAssumption
    <3> QED BY <3>2 DEF S
  <2> QED BY <2>2 DEF DocumentStartEvent
<1> HIDE DEF directives, explicit
<1>3. Fits(c, checked)
  BY FailFits, FitsSelf
<1> HIDE DEF checked
<1>4. Fits(checked, added)
  BY <1>2, <1>3, AddDirectivesFits DEF Fits
<1> HIDE DEF added
<1>5. Fits(added, known)
  BY <1>2, <1>4, AddDirectivesFits DEF Fits
<1> HIDE DEF known
<1>6. Fits(known, ended)
  <2>1. Fit(known)
    BY <1>5 DEF Fits
  <2> QED BY <2>1, SomeIndicators, WritingFits, FitsSelf
<1> HIDE DEF ended
<1>7. Fits(ended, version)
  <2>1. Fit(ended)
    BY <1>6 DEF Fits
  <2> QED BY <2>1, SomeIndicators, WritingFits
<1> HIDE DEF version
<1>8. Fits(ended, versioned)
  <2>1. Fit(ended) /\ Fit(version)
    BY <1>6, <1>7 DEF Fits
  <2>2. Fits(version, WriteIndent(version))
    BY <2>1, SomeIndicators, WritingFits
  <2> QED BY <1>7, <2>1, <2>2, FitsOn, FitsSelf
<1> HIDE DEF versioned
<1>9. Fits(versioned, declared)
  <2>1. Fit(versioned) /\ Sound(versioned)
    BY <1>8 DEF Fits, Fit
  <2>2. Len(e.tagDirectives) \in Nat
    BY <1>2, LenProperties
  <2>3. Kept(versioned, declared)
    BY <2>1, <2>2, WriteTagDirectivesKeeps
  <2> QED BY <2>1, <2>3, KeptFits
<1> HIDE DEF declared
<1>10. Fits(declared, indented)
  <2>1. Fit(declared)
    BY <1>9 DEF Fits
  <2> QED BY <2>1, SomeIndicators, WritingFits
<1> HIDE DEF indented
<1>11. Fits(declared, marked)
  <2>1. Fit(declared) /\ Fit(indented)
    BY <1>9, <1>10 DEF Fits
  <2>2. Fits(indented, Apart(indented, "---"))
    BY <2>1, SomeIndicators, WritingFits
  <2> QED BY <1>10, <2>1, <2>2, FitsOn, FitsSelf
<1> HIDE DEF marked
<1>12. Fits(marked, begun)
  <2>1. Fit(marked)
    BY <1>11 DEF Fits
  <2> QED BY <2>1, SomeIndicators, WritingFits, FitsSelf
<1> HIDE DEF begun
<1>13. Fits(begun, GoTo(begun, "DOCUMENT-CONTENT"))
  <2>1. Fit(begun) /\ "DOCUMENT-CONTENT" \in State
    BY <1>12 DEF Fits, State
  <2> QED BY <2>1, GoToFits
<1>14. Fits(c, ended)
  BY <1>3, <1>4, <1>5, <1>6, FitsOn
<1>15. Fits(ended, begun)
  BY <1>8, <1>9, <1>11, <1>12, FitsOn
<1> QED BY <1>1, <1>13, <1>14, <1>15, FitsOn

LEMMA DocumentStartFits ==
    ASSUME NEW c, Fit(c), c.events # <<>>, NEW first
    PROVE  Fits(c, DocumentStart(c, first))
<1> DEFINE e == Head(c.events)
<1>1. e \in Event
  BY TailProperties DEF Fit
<1>2. CASE e.type = "DOCUMENT-START"
  <2>1. DocumentStart(c, first) = StartDocument(c, e, first)
    BY <1>2, Zenon DEF DocumentStart
  <2>2. e \in DocumentStartEvent
    BY <1>1, <1>2, EventTypes
  <2> HIDE DEF e
  <2> QED BY <2>1, <2>2, StartDocumentFits
<1>3. CASE e.type = "STREAM-END"
  <2> DEFINE d == EndOpenScalar(c)
             w == Flush(d)
  <2>1. DocumentStart(c, first) = GoTo(w, "END")
    BY <1>3, Zenon DEF DocumentStart
  <2>2. Fits(c, d)
    BY SomeIndicators, WritingFits
  <2> HIDE DEF d
  <2>3. Fits(d, w)
    <3>1. Fit(d)
      BY <2>2 DEF Fits
    <3> QED BY <3>1, SomeIndicators, WritingFits
  <2> HIDE DEF w
  <2>4. Fits(w, GoTo(w, "END"))
    <3>1. Fit(w) /\ "END" \in State
      BY <2>3 DEF Fits, State
    <3> QED BY <3>1, GoToFits
  <2> QED BY <2>1, <2>2, <2>3, <2>4, FitsOn
<1>4. CASE e.type \notin {"DOCUMENT-START", "STREAM-END"}
  <2>1. DocumentStart(c, first) = Fail(c, "emitter")
    BY <1>4 DEF DocumentStart
  <2> QED BY <2>1, FailFits
<1> QED BY <1>2, <1>3, <1>4

LEMMA DocumentEndFits ==
    ASSUME NEW c, Fit(c)
    PROVE  Fits(c, DocumentEnd(c))
<1> DEFINE d == WriteIndent(c)
           x == WriteIndent(Apart(d, "..."))
           v == IF Head(c.events).implicit THEN d ELSE x
           u == Flush(v)
           w == Then(u, LAMBDA y : [y EXCEPT !.state = "DOCUMENT-START", !.tagDirectives = <<>>])
<1>1. CASE Head(c.events).type # "DOCUMENT-END"
  BY <1>1, FailFits, Zenon DEF DocumentEnd
<1>2. CASE Head(c.events).type = "DOCUMENT-END"
  <2>1. DocumentEnd(c) = w
    BY <1>2, Zenon DEF DocumentEnd
  <2>2. Fits(c, d)
    BY SomeIndicators, WritingFits
  <2> HIDE DEF d
  <2>3. Fit(d)
    BY <2>2 DEF Fits
  <2>4. Fits(d, x)
    BY <2>3, SomeIndicators, WritingFits
  <2> HIDE DEF x
  <2>5. Fits(d, v)
    BY <2>3, <2>4, FitsSelf
  <2> HIDE DEF v
  <2>6. Fits(v, u)
    <3>1. Fit(v)
      BY <2>5 DEF Fits
    <3> QED BY <3>1, SomeIndicators, WritingFits
  <2> HIDE DEF u
  <2>7. Fits(u, w)
    <3>1. Fit(u)
      BY <2>6 DEF Fits
    <3>2. CASE ~u.ok
      BY <3>1, <3>2, FitsSelf, Zenon DEF Then
    <3>3. CASE u.ok
      <4> DEFINE state == "DOCUMENT-START"
      <4> SUFFICES ASSUME NEW y, y = [u EXCEPT !.state = state, !.tagDirectives = <<>>]
                   PROVE  Fits(u, y)
        BY <3>3, Zenon DEF Then
      <4>1. state \in State /\ <<>> \in Seq(Directive)
        BY DEF State
      <4> HIDE DEF state
      <4>2. /\ IsEmitter(y) /\ y.events = u.events /\ SameOutcome(u, y) /\ y.column = u.column
            /\ y.line = u.line /\ y.state = state /\ y.states = u.states /\ SameLevels(u, y)
            /\ y.tagDirectives = <<>>
        BY <3>1, ZenonT(40) DEF Fit, Sound, IsEmitter, SameOutcome, SameLevels
      <4>3. /\ y.column \in Nat /\ y.line \in Nat /\ y.state \in State /\ y.states \in Seq(State)
            /\ y.indent \in Level /\ y.indents \in Seq(Level) /\ y.flowLevel \in Int
            /\ y.tagDirectives \in Seq(Directive)
        BY <3>1, <4>1, <4>2, Zenon DEF Fit, Sound, SameLevels
      <4> QED BY <3>1, <3>3, <4>2, <4>3, FieldsFit
    <3> QED BY <3>2, <3>3
  <2> HIDE DEF w
  <2> QED BY <2>1, <2>2, <2>5, <2>6, <2>7, FitsOn
<1> QED BY <1>1, <1>2

-----------------------------------------------------------------------------
(* A call of yaml_emitter_emit. *)
LEMMA StateMachineFits ==
    ASSUME NEW c, Fit(c), c.ok, c.events # <<>>
    PROVE  Fits(c, StateMachine(c))
<1> DEFINE first == c.state
<1>1. c.state \in State
  BY DEF Fit
<1>2. DocumentContent(c) = EmitNode(PushState(c, "DOCUMENT-END"), TRUE, FALSE, FALSE)
  BY Zenon DEF DocumentContent
<1>3. Fits(c, DocumentContent(c))
  <2> DEFINE yes == TRUE
             no == FALSE
  <2>1. DocumentContent(c) = EmitNode(PushState(c, "DOCUMENT-END"), yes, no, no)
    BY <1>2
  <2> HIDE DEF yes, no
  <2>2. "DOCUMENT-END" \in State
    BY DEF State
  <2> QED BY <2>1, <2>2, ChildFits
<1>4. CASE c.state = "STREAM-START"
  BY <1>4, StreamStartFits, Zenon DEF StateMachine
<1>5. CASE c.state \in {"FIRST-DOCUMENT-START", "DOCUMENT-START"}
  <2> DEFINE b == c.state = "FIRST-DOCUMENT-START"
  <2>1. StateMachine(c) = DocumentStart(c, b)
    BY <1>5 DEF StateMachine
  <2> HIDE DEF b
  <2> QED BY <2>1, DocumentStartFits
<1>6. CASE c.state = "DOCUMENT-CONTENT"
  BY <1>3, <1>6 DEF StateMachine
<1>7. CASE c.state = "DOCUMENT-END"
  BY <1>7, DocumentEndFits DEF StateMachine
<1>8. CASE c.state \in {"FLOW-SEQUENCE-FIRST-ITEM", "FLOW-SEQUENCE-ITEM"}
  <2> DEFINE b == c.state = "FLOW-SEQUENCE-FIRST-ITEM"
  <2>1. StateMachine(c) = FlowSequenceItem(c, b)
    BY <1>8 DEF StateMachine
  <2> HIDE DEF b
  <2> QED BY <2>1, FlowSequenceItemFits
<1>9. CASE c.state \in {"FLOW-MAPPING-FIRST-KEY", "FLOW-MAPPING-KEY"}
  <2> DEFINE b == c.state = "FLOW-MAPPING-FIRST-KEY"
  <2>1. StateMachine(c) = FlowMappingKey(c, b)
    BY <1>9 DEF StateMachine
  <2> HIDE DEF b
  <2> QED BY <2>1, FlowMappingKeyFits
<1>10. CASE c.state \in {"FLOW-MAPPING-SIMPLE-VALUE", "FLOW-MAPPING-VALUE"}
  <2> DEFINE b == c.state = "FLOW-MAPPING-SIMPLE-VALUE"
  <2>1. StateMachine(c) = FlowMappingValue(c, b)
    BY <1>10 DEF StateMachine
  <2> HIDE DEF b
  <2> QED BY <2>1, FlowMappingValueFits
<1>11. CASE c.state \in {"BLOCK-SEQUENCE-FIRST-ITEM", "BLOCK-SEQUENCE-ITEM"}
  <2> DEFINE b == c.state = "BLOCK-SEQUENCE-FIRST-ITEM"
  <2>1. StateMachine(c) = BlockSequenceItem(c, b)
    BY <1>11 DEF StateMachine
  <2> HIDE DEF b
  <2> QED BY <2>1, BlockSequenceItemFits
<1>12. CASE c.state \in {"BLOCK-MAPPING-FIRST-KEY", "BLOCK-MAPPING-KEY"}
  <2> DEFINE b == c.state = "BLOCK-MAPPING-FIRST-KEY"
  <2>1. StateMachine(c) = BlockMappingKey(c, b)
    BY <1>12 DEF StateMachine
  <2> HIDE DEF b
  <2> QED BY <2>1, BlockMappingKeyFits
<1>13. CASE c.state \in {"BLOCK-MAPPING-SIMPLE-VALUE", "BLOCK-MAPPING-VALUE"}
  <2> DEFINE b == c.state = "BLOCK-MAPPING-SIMPLE-VALUE"
  <2>1. StateMachine(c) = BlockMappingValue(c, b)
    BY <1>13 DEF StateMachine
  <2> HIDE DEF b
  <2> QED BY <2>1, BlockMappingValueFits
<1>14. CASE c.state = "END"
  <2>1. StateMachine(c) = Fail(c, "emitter")
    BY <1>14 DEF StateMachine
  <2> QED BY <2>1, FailFits
<1> QED BY <1>1, <1>4, <1>5, <1>6, <1>7, <1>8, <1>9, <1>10, <1>11, <1>12, <1>13, <1>14 DEF State

(* The queue gets shorter, or longer, by an event. *)
Outlasts(c, d) == Fit(d) /\ (d.error = "none" => c.error = "none")

LEMMA EventsFit ==
    ASSUME NEW c, Fit(c), NEW events \in Seq(Event)
    PROVE  Outlasts(c, [c EXCEPT !.events = events])
<1> SUFFICES ASSUME NEW d, d = [c EXCEPT !.events = events] PROVE Outlasts(c, d)
  OBVIOUS
<1>1. /\ IsEmitter(d) /\ d.events = events /\ SameStates(c, d) /\ SameLevels(c, d)
      /\ SameOutcome(c, d) /\ d.tagDirectives = c.tagDirectives /\ d.column = c.column
      /\ d.line = c.line
  BY ZenonT(40) DEF Fit, Sound, IsEmitter, SameStates, SameLevels, SameOutcome
<1>2. Sound(d)
  BY <1>1 DEF Fit, Sound, SameLevels, SameOutcome
<1> QED BY <1>1, <1>2 DEF Fit, Outlasts, SameStates, SameLevels, SameOutcome

LEMMA TurnFits ==
    ASSUME NEW c, Fit(c)
    PROVE  Outlasts(c, Turn(c))
<1>1. CASE ~(c.ok /\ ~NeedMoreEvents(c.events))
  BY <1>1, Zenon DEF Turn, Outlasts
<1>2. CASE c.ok /\ ~NeedMoreEvents(c.events)
  <2> DEFINE d == IF Refused(c, Head(c.events)) THEN Fail(c, "emitter") ELSE StateMachine(c)
             w == Then(d, LAMBDA x : [x EXCEPT !.events = Tail(@)])
  <2>1. Turn(c) = w
    BY <1>2, Zenon DEF Turn, EmitHead
  <2>2. c.events # <<>>
    BY <1>2 DEF NeedMoreEvents
  <2>3. Fits(c, d)
    BY <1>2, <2>2, FailFits, StateMachineFits
  <2> HIDE DEF d
  <2>4. Fit(d) /\ d.events # <<>> /\ (d.error = "none" => c.error = "none")
    BY <2>2, <2>3 DEF Fits
  <2>5. CASE ~d.ok
    <3>1. w = d
      BY <2>5, Zenon DEF Then
    <3> QED BY <2>1, <2>4, <3>1 DEF Outlasts
  <2>6. CASE d.ok
    <3>1. w = [d EXCEPT !.events = Tail(d.events)]
      BY <2>6, Zenon DEF Then
    <3>2. Tail(d.events) \in Seq(Event)
      BY <2>4, TailProperties DEF Fit
    <3>3. Outlasts(d, w)
      BY <2>4, <3>1, <3>2, EventsFit
    <3> QED BY <2>1, <2>4, <3>3 DEF Outlasts
  <2> QED BY <2>5, <2>6
<1> QED BY <1>1, <1>2

LEMMA TurnsFit ==
    ASSUME NEW c, Fit(c), NEW n \in Nat, NEW f, Turns(f, c, n)
    PROVE  Outlasts(c, f[n])
<1> DEFINE T == {k \in Nat : k <= n => Outlasts(c, f[k])}
<1>1. 0 \in T
  <2>1. f[0] = c
    BY DEF Turns
  <2> QED BY <2>1 DEF Outlasts
<1>2. ASSUME NEW k \in T PROVE k + 1 \in T
  <2> SUFFICES ASSUME k + 1 <= n PROVE Outlasts(c, f[k + 1])
    OBVIOUS
  <2>1. f[k + 1] = Turn(f[k])
    <3>1. k + 1 \in 0 .. n /\ k + 1 # 0 /\ k + 1 - 1 = k
      OBVIOUS
    <3> QED BY <3>1 DEF Turns
  <2>2. Outlasts(c, f[k])
    OBVIOUS
  <2>3. Outlasts(f[k], Turn(f[k]))
    BY <2>2, TurnFits DEF Outlasts
  <2> QED BY <2>1, <2>2, <2>3 DEF Outlasts
<1>3. T = Nat
  <2> HIDE DEF T
  <2>1. T \in SUBSET Nat
    BY DEF T
  <2> QED BY <1>1, <1>2, <2>1, SetInduction
<1> QED BY <1>3

LEMMA EmitLoopFits ==
    ASSUME NEW c, Fit(c)
    PROVE  Outlasts(c, EmitLoop(c))
<1>1. c.events \in Seq(Event)
  BY DEF Fit
<1>2. PICK f : Turns(f, c, Len(c.events)) /\ EmitLoop(c) = f[Len(c.events)]
  BY <1>1, EmitLoopTurns
<1>3. Len(c.events) \in Nat
  BY <1>1, LenProperties
<1> QED BY <1>2, <1>3, TurnsFit

LEMMA CallFits ==
    ASSUME Fit(emitter), NEW e \in Event, NEW room, Emit(e, room)
    PROVE  Outlasts(emitter, emitter')
<1> DEFINE c == Queued(emitter, e, room)
           w == EmitLoop(c)
<1>1. emitter' = [w EXCEPT !.room = -1]
  BY Zenon DEF Emit, Queued
<1>2. Outlasts(emitter, c)
  <2> SUFFICES ASSUME NEW d, d = c PROVE Outlasts(emitter, d)
    OBVIOUS
  <2> DEFINE events == Append(emitter.events, e)
  <2>1. events \in Seq(Event)
    BY AppendProperties DEF Fit
  <2>2. d = [emitter EXCEPT !.events = events, !.ok = TRUE, !.room = room]
    BY Zenon DEF Queued
  <2> HIDE DEF events, c
  <2>3. /\ IsEmitter(d) /\ d.events = events /\ SameStates(emitter, d) /\ SameLevels(emitter, d)
        /\ d.ok = TRUE /\ d.error = emitter.error /\ d.tagDirectives = emitter.tagDirectives
        /\ d.column = emitter.column /\ d.line = emitter.line
    BY <2>2, ZenonT(40) DEF Fit, Sound, IsEmitter, SameStates, SameLevels
  <2>4. Sound(d)
    BY <2>3 DEF Fit, Sound, SameLevels
  <2> QED BY <2>1, <2>3, <2>4 DEF Fit, Outlasts, SameStates, SameLevels
<1> HIDE DEF c
<1>3. Outlasts(c, w)
  BY <1>2, EmitLoopFits DEF Outlasts
<1> HIDE DEF w
<1>4. Outlasts(w, emitter')
  <2> DEFINE d == emitter'
  <2>1. d = [w EXCEPT !.room = -1]
    BY <1>1
  <2> HIDE DEF d
  <2>2. /\ IsEmitter(d) /\ d.events = w.events /\ SameStates(w, d) /\ SameLevels(w, d)
        /\ SameOutcome(w, d) /\ d.tagDirectives = w.tagDirectives /\ d.column = w.column
        /\ d.line = w.line
    BY <1>3, <2>1, ZenonT(40) DEF Outlasts, Fit, Sound, IsEmitter, SameStates, SameLevels, SameOutcome
  <2>3. Sound(d)
    BY <1>3, <2>2 DEF Outlasts, Fit, Sound, SameLevels, SameOutcome
  <2>4. Outlasts(w, d)
    BY <1>3, <2>2, <2>3 DEF Fit, Outlasts, SameStates, SameLevels, SameOutcome
  <2> QED BY <2>4 DEF d
<1> QED BY <1>2, <1>3, <1>4 DEF Outlasts

-----------------------------------------------------------------------------
(***************************************************************************)
(* The inductive invariant.  An emitter without an error has written what  *)
(* leads to the head of its queue, the queue leads from there to where the *)
(* stream is, and is too short to go on; one that has refused an event     *)
(* will refuse it again.  Once a write has failed, handlers that ran half  *)
(* way run again, and the emitter need not be where the stream is: all     *)
(* that is left of it is that it has an error and that its fields fit.     *)
(***************************************************************************)
Inv ==
    /\ Fit(emitter) /\ lost \in BOOLEAN /\ Placed(Here)
    /\ ~lost => Well(emitter) /\ emitter.error \in {"none", "emitter"}
    /\ emitter.error = "none" =>
           ~lost /\ emitter.ok /\ NeedMoreEvents(emitter.events) /\ Follows(emitter, Here)
    /\ emitter.error = "emitter" /\ ~lost => ~emitter.ok /\ Doomed(emitter)

(* An emitter that is well is fit. *)
LEMMA WellFits ==
    ASSUME NEW c, Well(c), ~c.ok => c.error # "none"
    PROVE  Fit(c)
<1>1. c.flowLevel \in Int
  BY DEF Well, Typed
<1> QED BY <1>1 DEF Well, Typed, Fit

LEMMA InitialRecord ==
    ASSUME Init
    PROVE  /\ IsEmitter(emitter)
           /\ emitter.state = "STREAM-START" /\ emitter.states = <<>> /\ emitter.events = <<>>
           /\ emitter.indent = 0 /\ emitter.indents = <<>> /\ emitter.flowLevel = 0
           /\ emitter.tagDirectives = <<>> /\ emitter.column = 0 /\ emitter.line = 0
           /\ emitter.ok = TRUE /\ emitter.error = "none" /\ lost = FALSE
BY DEF Init, IsEmitter

LEMMA StartsInv ==
    ASSUME Init, Stream!Init
    PROVE  Inv
<1> DEFINE c == emitter
<1>1. /\ IsEmitter(c)
      /\ c.state = "STREAM-START" /\ c.states = <<>> /\ c.events = <<>>
      /\ c.indent = 0 /\ c.indents = <<>> /\ c.flowLevel = 0
      /\ c.tagDirectives = <<>> /\ c.column = 0 /\ c.line = 0
      /\ c.ok = TRUE /\ c.error = "none"
  BY InitialRecord
<1>2. Here.phase = "before" /\ Here.open = <<>>
  BY DEF Here, Stream!Init
<1> HIDE DEF c
<1>3. Well(c)
  <2>1. /\ <<>> \in Seq(State) /\ <<>> \in Seq(Level) /\ <<>> \in Seq(Directive) /\ <<>> \in Seq(Event)
        /\ "STREAM-START" \in State /\ 0 \in Level /\ 0 \in Nat /\ 0 \in Int
    BY DEF State, Level
  <2>2. Sound(c)
    <3>1. 0 \in Nat /\ 0 \in Int /\ TRUE \in BOOLEAN
      OBVIOUS
    <3> QED BY <1>1, <3>1, Zenon DEF Sound
  <2>3. Typed(c)
    BY <1>1, <2>1, Zenon DEF Typed
  <2> QED BY <2>2, <2>3 DEF Well
<1>4. Placed(Here)
  <2>1. <<>> \in Seq(Stream!Construct)
    OBVIOUS
  <2> QED BY <1>2, <2>1 DEF Placed
<1>5. Mirrors(c, Here)
  <2>1. /\ c.state \notin Inner /\ c.state \in State \ (FlowStates \cup BlockStates)
        /\ c.state # "END"
    BY <1>1 DEF Inner, State, FlowStates, BlockStates, SequenceStates, KeyStates, ValueStates
  <2>2. Path(c) = Append(<<>>, c.state)
    BY <1>1 DEF Path
  <2>3. FlowDepth(Path(c)) = 0 /\ IndentDepth(Path(c)) = 0 /\ Opened(Path(c)) = <<>>
    BY <2>1, <2>2, ShallowPath
  <2>4. Levelled(c, Path(c))
    <3>1. Len(<<>>) = 0
      OBVIOUS
    <3> QED BY <1>1, <2>3, <3>1 DEF Levelled
  <2>5. <<>> \in Seq(Inner)
    OBVIOUS
  <2> QED BY <1>1, <1>2, <2>1, <2>3, <2>4, <2>5 DEF Mirrors
<1>6. Follows(c, Here)
  <2> DEFINE f == [i \in 0 .. 0 |-> Here]
             s == <<>>
  <2>1. f[0] = Here
    OBVIOUS
  <2>2. c.events = s /\ Len(s) = 0
    BY <1>1
  <2> HIDE DEF f, s
  <2>3. Leads(f, s, Here)
    BY <1>4, <2>1, <2>2 DEF Leads
  <2>4. Mirrors(c, f[0]) /\ Leads(f, c.events, Here)
    BY <1>5, <2>1, <2>2, <2>3
  <2> QED BY <2>4 DEF Follows
<1>7. NeedMoreEvents(c.events)
  BY <1>1, NothingIsNotEnough
<1>8. Fit(c)
  BY <1>1, <1>3, WellFits
<1> QED BY <1>1, <1>3, <1>4, <1>6, <1>7, <1>8, InitialRecord DEF Inv, c

(* One call of yaml_emitter_emit on an emitter without an error. *)
LEMMA GoodCallKeepsInv ==
    ASSUME Inv, NEW e \in Event, NEW room,
           emitter' = [EmitLoop(Queued(emitter, e, room)) EXCEPT !.room = -1],
           emitter.error = "none", Moves(Here, e, Here'), Placed(Here'), Fit(emitter'),
           lost' = (lost \/ emitter'.error = "writer")
    PROVE  Inv'
<1> DEFINE c == Queued(emitter, e, room)
           w == EmitLoop(c)
<1>1. /\ Well(emitter) /\ Placed(Here) /\ emitter.events \in Seq(Event) /\ ~lost /\ lost \in BOOLEAN
  BY DEF Inv, Well, Typed
<1>2. /\ Well(c) /\ c.ok /\ c.error = emitter.error
      /\ SameStates(emitter, c) /\ SameLevels(emitter, c)
      /\ c.tagDirectives = emitter.tagDirectives /\ c.canonical = emitter.canonical
      /\ c.events = Append(emitter.events, e)
  BY <1>1, EventQueued
<1> HIDE DEF c
<1>3. PICK f : Mirrors(emitter, f[0]) /\ Leads(f, emitter.events, Here)
  BY DEF Inv, Follows
<1>4. Follows(c, Here')
  <2> DEFINE n == Len(emitter.events)
             g == [i \in 0 .. n + 1 |-> IF i = n + 1 THEN Here' ELSE f[i]]
  <2>1. Leads(g, c.events, Here') /\ g[0] = f[0]
    BY <1>1, <1>2, <1>3, LeadsOn
  <2> HIDE DEF g
  <2>2. Mirrors(c, g[0])
    BY <1>2, <1>3, <2>1, MirrorsSame
  <2> QED BY <2>1, <2>2 DEF Follows
<1>5. /\ Well(w)
      /\ ~w.ok => w.error = "writer" \/ (w.error = "emitter" /\ Doomed(w))
      /\ w.ok => w.error = c.error /\ NeedMoreEvents(w.events) /\ Follows(w, Here')
  BY <1>2, <1>4, EmitLoopGoesOn
<1> DEFINE d == emitter'
<1>6. d = [w EXCEPT !.room = -1]
  BY Zenon DEF c
<1>7. Fit(d) /\ lost' = (d.error = "writer")
  BY <1>1
<1> HIDE DEF d, w
<1>8. /\ Well(d) /\ SameOutcome(w, d) /\ SameStates(w, d) /\ SameLevels(w, d)
      /\ d.tagDirectives = w.tagDirectives /\ d.canonical = w.canonical /\ d.events = w.events
  BY <1>5, <1>6, RoomForgotten
<1>9. ASSUME w.ok PROVE d.ok /\ d.error = "none" /\ NeedMoreEvents(d.events) /\ Follows(d, Here')
  <2>1. PICK h : Mirrors(w, h[0]) /\ Leads(h, w.events, Here')
    BY <1>5, <1>9 DEF Follows
  <2>2. Mirrors(d, h[0])
    BY <1>8, <2>1, MirrorsSame
  <2>3. Follows(d, Here')
    BY <1>8, <2>1, <2>2 DEF Follows
  <2> QED BY <1>2, <1>5, <1>8, <1>9, <2>3 DEF SameOutcome
<1>10. ASSUME ~w.ok
       PROVE  ~d.ok /\ d.error \in {"writer", "emitter"} /\ (d.error = "emitter" => Doomed(d))
  <2>1. Doomed(w) => w.events # <<>> /\ ~NeedMoreEvents(w.events)
    BY DEF Doomed
  <2>2. Doomed(w) => Doomed(d)
    BY <1>8, <2>1, DoomStays DEF SameStates
  <2> QED BY <1>5, <1>8, <1>10, <2>2 DEF SameOutcome
<1>11. CASE w.ok
  <2>1. lost' = FALSE /\ d.error = "none"
    BY <1>7, <1>9, <1>11
  <2> QED BY <1>7, <1>8, <1>9, <1>11, <2>1 DEF Inv, d
<1>12. CASE ~w.ok
  <2>1. lost' \in BOOLEAN /\ d.error # "none" /\ (~lost' => d.error = "emitter")
    BY <1>7, <1>10, <1>12
  <2> QED BY <1>7, <1>8, <1>10, <1>12, <2>1 DEF Inv, d
<1> QED BY <1>11, <1>12

(* One call on an emitter that has refused an event. *)
LEMMA RefusedCallKeepsInv ==
    ASSUME Inv, NEW e \in Event, NEW room,
           emitter' = [EmitLoop(Queued(emitter, e, room)) EXCEPT !.room = -1],
           emitter.error = "emitter", ~lost, Placed(Here'), Fit(emitter'),
           lost' = (lost \/ emitter'.error = "writer")
    PROVE  Inv' /\ ~emitter'.ok /\ emitter'.error = "emitter" /\ emitter'.text = emitter.text
<1> DEFINE c == Queued(emitter, e, room)
           w == EmitLoop(c)
<1>1. Well(emitter) /\ emitter.events \in Seq(Event) /\ Doomed(emitter)
  BY DEF Inv, Well, Typed
<1>2. /\ Well(c) /\ c.ok /\ c.text = emitter.text /\ SameStates(emitter, c)
      /\ c.tagDirectives = emitter.tagDirectives /\ c.canonical = emitter.canonical
      /\ c.events = Append(emitter.events, e)
  BY <1>1, EventQueued
<1> HIDE DEF c
<1>3. Doomed(c)
  <2>1. ~NeedMoreEvents(emitter.events)
    BY <1>1 DEF Doomed
  <2>2. c.events # <<>> /\ Head(c.events) = Head(emitter.events) /\ ~NeedMoreEvents(c.events)
    BY <1>1, <1>2, <2>1, EnoughStaysEnough
  <2> QED BY <1>1, <1>2, <2>2, DoomStays DEF SameStates
<1>4. Well(w) /\ ~w.ok /\ w.error = "emitter" /\ w.text = c.text /\ Doomed(w)
  BY <1>2, <1>3, EmitLoopFails
<1> DEFINE d == emitter'
<1>5. d = [w EXCEPT !.room = -1]
  BY Zenon DEF c
<1>6. Fit(d) /\ lost' = (d.error = "writer")
  OBVIOUS
<1> HIDE DEF d, w
<1>7. /\ Well(d) /\ SameOutcome(w, d) /\ SameStates(w, d) /\ d.text = w.text
      /\ d.tagDirectives = w.tagDirectives /\ d.canonical = w.canonical /\ d.events = w.events
  BY <1>4, <1>5, RoomForgotten
<1>8. Doomed(d)
  <2>1. w.events # <<>> /\ ~NeedMoreEvents(w.events)
    BY <1>4 DEF Doomed
  <2> QED BY <1>4, <1>7, <2>1, DoomStays DEF SameStates
<1>9. ~d.ok /\ d.error = "emitter" /\ lost' = FALSE /\ d.text = emitter.text
  BY <1>2, <1>4, <1>6, <1>7 DEF SameOutcome
<1> QED BY <1>6, <1>7, <1>8, <1>9 DEF Inv, d

(* One call of yaml_emitter_emit. *)
LEMMA CallKeepsInv ==
    ASSUME Inv, EmitNext
    PROVE  /\ Inv'
           /\ emitter.error = "emitter" /\ ~lost
                => ~emitter'.ok /\ emitter'.error = "emitter" /\ emitter'.text = emitter.text
<1>1. PICK e \in Event, room \in Nat \cup {-1} : Continues(e) /\ Emit(e, room)
  BY DEF EmitNext
<1>2. emitter' = [EmitLoop(Queued(emitter, e, room)) EXCEPT !.room = -1]
  BY <1>1, Zenon DEF Emit, Queued
<1>3. /\ Fit(emitter) /\ Placed(Here) /\ lost \in BOOLEAN
      /\ ~lost => Well(emitter) /\ emitter.error \in {"none", "emitter"}
  BY DEF Inv
<1>4. /\ Fit(emitter')
      /\ emitter'.error = "none" => emitter.error = "none"
      /\ lost' = (lost \/ emitter'.error = "writer")
  <2>1. Outlasts(emitter, emitter')
    BY <1>1, <1>3, CallFits
  <2> QED BY <1>1, <2>1 DEF Outlasts, Emit
<1>5. Moves(Here, e, Here') /\ Placed(Here')
  BY <1>1, <1>3, ContinuingMoves, MovesKeepPlaced
<1>6. CASE lost
  <2>1. lost' /\ emitter'.error # "none"
    BY <1>4, <1>6 DEF Inv
  <2>2. lost' \in BOOLEAN
    BY <1>3, <1>4
  <2> QED BY <1>4, <1>5, <1>6, <2>1, <2>2 DEF Inv
<1>7. CASE emitter.error = "none" /\ ~lost
  BY <1>1, <1>2, <1>4, <1>5, <1>7, GoodCallKeepsInv
<1>8. CASE emitter.error = "emitter" /\ ~lost
  BY <1>1, <1>2, <1>4, <1>5, <1>8, RefusedCallKeepsInv
<1> QED BY <1>3, <1>6, <1>7, <1>8

-----------------------------------------------------------------------------
(***************************************************************************)
(* What a queue can be waiting for.                                        *)
(***************************************************************************)

(* What the first events open and do not close is open behind them. *)
LEMMA DepthCounted ==
    ASSUME NEW events \in Seq(Event), NEW p, NEW f, Leads(f, events, p), NEW n \in 0 .. Len(events)
    PROVE  /\ Depth(f[n]) \in Nat /\ Depth(f[0]) \in Nat
           /\ IsComplete(events, n) <=> Depth(f[n]) = Depth(f[0])
           /\ n < Len(events) => Depth(f[n + 1]) \in Nat /\ Depth(f[n + 1]) >= Depth(f[n]) - 1
<1> DEFINE o(k) == Count(events, Opening, k)
           x(k) == Count(events, Closing, k)
           d(k) == Depth(f[k])
           T == {k \in Nat : k <= Len(events) => d(k) \in Nat /\ o(k) - x(k) = d(k) - d(0)}
<1>1. Len(events) \in Nat
  BY LenProperties
<1>2. Placed(f[0]) /\ d(0) \in Nat
  <2>1. Placed(f[0])
    BY <1>1 DEF Leads
  <2>2. Len(f[0].open) \in Nat
    BY <2>1, LenProperties DEF Placed
  <2>3. d(0) = Len(f[0].open) + 1 \/ d(0) = Len(f[0].open) + 0
    BY DEF Depth
  <2>4. d(0) \in Nat
    <3> HIDE DEF d
    <3> QED BY <2>2, <2>3
  <2> QED BY <2>1, <2>4
<1>3. ASSUME NEW k \in Nat, k < Len(events)
      PROVE  /\ d(k) \in Nat /\ d(k + 1) \in Nat
             /\ d(k + 1) = d(k) + (IF events[k + 1].type \in Opening THEN 1 ELSE 0)
                                - (IF events[k + 1].type \in Closing THEN 1 ELSE 0)
             /\ o(k) \in Nat /\ x(k) \in Nat
             /\ o(k + 1) = o(k) + (IF events[k + 1].type \in Opening THEN 1 ELSE 0)
             /\ x(k + 1) = x(k) + (IF events[k + 1].type \in Closing THEN 1 ELSE 0)
  <2>1. Placed(f[k]) /\ Moves(f[k], events[k + 1], f[k + 1])
    BY <1>1, <1>3 DEF Leads
  <2>2. /\ d(k) \in Nat /\ d(k + 1) \in Nat
        /\ d(k + 1) = d(k) + (IF events[k + 1].type \in Opening THEN 1 ELSE 0)
                           - (IF events[k + 1].type \in Closing THEN 1 ELSE 0)
    BY <2>1, MovesKeepPlaced
  <2> QED BY <2>2, CountGrows
<1>4. 0 \in T
  <2>1. o(0) = 0 /\ x(0) = 0
    BY CountGrows
  <2> HIDE DEF o, x, d
  <2> QED BY <1>2, <2>1
<1>5. ASSUME NEW k \in T PROVE k + 1 \in T
  <2> SUFFICES ASSUME k + 1 <= Len(events)
               PROVE  d(k + 1) \in Nat /\ o(k + 1) - x(k + 1) = d(k + 1) - d(0)
    OBVIOUS
  <2> HIDE DEF o, x, d
  <2>1. k \in Nat /\ k < Len(events) /\ o(k) - x(k) = d(k) - d(0)
    BY <1>1
  <2>2. PICK opened \in {0, 1}, closed \in {0, 1} :
            /\ d(k) \in Nat /\ d(k + 1) \in Nat /\ d(k + 1) = d(k) + opened - closed
            /\ o(k) \in Nat /\ x(k) \in Nat /\ o(k + 1) = o(k) + opened /\ x(k + 1) = x(k) + closed
    <3>1. /\ (IF events[k + 1].type \in Opening THEN 1 ELSE 0) \in {0, 1}
          /\ (IF events[k + 1].type \in Closing THEN 1 ELSE 0) \in {0, 1}
      OBVIOUS
    <3> QED BY <1>3, <2>1, <3>1
  <2>3. o(k + 1) - x(k + 1) = (o(k) - x(k)) + opened - closed
    BY <2>2
  <2>4. (d(k) - d(0)) + opened - closed = d(k + 1) - d(0)
    BY <1>2, <2>2
  <2> QED BY <2>1, <2>2, <2>3, <2>4
<1>6. T = Nat
  <2> HIDE DEF T
  <2>1. T \in SUBSET Nat
    BY DEF T
  <2> QED BY <1>4, <1>5, <2>1, SetInduction
<1>7. d(n) \in Nat /\ o(n) - x(n) = d(n) - d(0) /\ o(n) \in Nat /\ x(n) \in Nat
  <2>1. n \in Nat /\ n <= Len(events)
    BY <1>1
  <2>2. o(n) \in Nat /\ x(n) \in Nat
    BY <2>1, CountGrows
  <2> HIDE DEF o, x, d
  <2>3. n \in T
    BY <1>6, <2>1
  <2> QED BY <2>1, <2>2, <2>3
<1>8. IsComplete(events, n) <=> o(n) = x(n)
  BY DEF IsComplete, Count
<1>9. ASSUME n < Len(events) PROVE d(n + 1) \in Nat /\ d(n + 1) >= d(n) - 1
  <2> HIDE DEF o, x, d
  <2>1. n \in Nat
    BY <1>1
  <2>2. /\ d(n) \in Nat /\ d(n + 1) \in Nat
        /\ d(n + 1) = d(n) + (IF events[n + 1].type \in Opening THEN 1 ELSE 0)
                           - (IF events[n + 1].type \in Closing THEN 1 ELSE 0)
    BY <1>3, <1>9, <2>1
  <2> QED BY <2>2
<1> HIDE DEF o, x
<1>10. IsComplete(events, n) <=> d(n) = d(0)
  <2> HIDE DEF d
  <2> QED BY <1>2, <1>7, <1>8
<1> QED BY <1>2, <1>7, <1>9, <1>10

(* Between documents no event waits for another. *)
LEMMA NothingWaitsOutside ==
    ASSUME NEW events \in Seq(Event), NEW p, NEW f, Leads(f, events, p),
           NeedMoreEvents(events), p.open = <<>>
    PROVE  events = <<>>
<1> SUFFICES ASSUME events # <<>> PROVE FALSE
  OBVIOUS
<1> DEFINE n == Len(events)
           e == Head(events)
           d(k) == Depth(f[k])
<1>1. n \in Nat \ {0} /\ DOMAIN events = 1 .. n
  BY LenProperties, EmptySeq
<1>2. /\ e.type \in {"DOCUMENT-START", "SEQUENCE-START", "MAPPING-START"}
      /\ \A k \in 1 .. n : ~IsComplete(events, k)
  <2>1. Accumulate(e.type) > 0 /\ \A k \in 1 .. n : ~IsComplete(events, k)
    BY <1>1 DEF NeedMoreEvents
  <2> QED BY <2>1 DEF Accumulate
<1>3. Placed(f[0]) /\ Moves(f[0], e, f[1])
  <2> DEFINE g == [i \in 0 .. n - 1 |-> f[i + 1]]
  <2> QED BY LeadsBehindHead
<1>4. d(0) >= 1 /\ d(0) \in Nat /\ d(1) = d(0) + 1
  <2>1. f[0].phase = "stream"
    BY <1>2, <1>3 DEF Moves, NodeMoves, EndMoves
  <2>2. Len(f[0].open) \in Nat
    BY <1>3, LenProperties DEF Placed
  <2>3. d(0) = Len(f[0].open) + 1
    BY <2>1 DEF Depth
  <2>4. e.type \in Opening /\ e.type \notin Closing
    BY <1>2, EventKinds
  <2>5. /\ d(0) \in Nat /\ d(1) \in Nat
        /\ d(1) = d(0) + (IF e.type \in Opening THEN 1 ELSE 0)
                       - (IF e.type \in Closing THEN 1 ELSE 0)
    BY <1>3, MovesKeepPlaced
  <2> HIDE DEF d
  <2> QED BY <2>2, <2>3, <2>4, <2>5
<1>5. d(n) <= 1
  <2>1. f[n] = p
    BY DEF Leads
  <2>2. Len(p.open) = 0
    OBVIOUS
  <2>3. d(n) = Len(p.open) + 1 \/ d(n) = Len(p.open) + 0
    BY <2>1 DEF Depth
  <2> HIDE DEF d
  <2> QED BY <2>2, <2>3
<1>6. ASSUME NEW k \in 1 .. n
      PROVE  /\ d(k) \in Nat /\ d(k) # d(0)
             /\ k < n => d(k + 1) \in Nat /\ d(k + 1) >= d(k) - 1
  <2>1. k \in 0 .. n
    BY <1>1
  <2> QED BY <1>2, <2>1, DepthCounted
<1> DEFINE T == {k \in Nat : k + 1 <= n => d(k + 1) > d(0)}
<1> HIDE DEF d
<1>7. 0 \in T
  BY <1>4
<1>8. ASSUME NEW k \in T PROVE k + 1 \in T
  <2> SUFFICES ASSUME k + 1 + 1 <= n PROVE d(k + 1 + 1) > d(0)
    OBVIOUS
  <2>1. k \in Nat /\ d(k + 1) > d(0)
    BY <1>1
  <2> DEFINE j == k + 1
  <2>2. j \in 1 .. n /\ j < n /\ j + 1 \in 1 .. n /\ d(j) > d(0)
    BY <1>1, <2>1
  <2> HIDE DEF j
  <2>3. d(j) \in Nat /\ d(j + 1) \in Nat /\ d(j + 1) >= d(j) - 1 /\ d(j + 1) # d(0)
    BY <1>6, <2>2
  <2>4. d(j + 1) > d(0)
    BY <1>4, <2>2, <2>3
  <2> QED BY <2>4 DEF j
<1>9. T = Nat
  <2> HIDE DEF T
  <2>1. T \in SUBSET Nat
    BY DEF T
  <2> QED BY <1>7, <1>8, <2>1, SetInduction
<1>10. n - 1 \in T
  <2> HIDE DEF T
  <2>1. n - 1 \in Nat
    BY <1>1
  <2> QED BY <1>9, <2>1
<1>11. n - 1 + 1 = n /\ n - 1 + 1 <= n /\ n \in 1 .. n
  BY <1>1
<1>12. d(n) > d(0)
  BY <1>10, <1>11
<1>13. d(n) \in Nat
  BY <1>6, <1>11
<1> QED BY <1>4, <1>5, <1>12, <1>13

-----------------------------------------------------------------------------
(***************************************************************************)
(* What holds of every stream of events, with any content, in any number   *)
(* of documents, nested to any depth, and with any failures of the write   *)
(* handler.                                                                *)
(***************************************************************************)
LEMMA StepKeepsInv == Inv /\ [EmitNext]_vars => Inv'
<1> SUFFICES ASSUME Inv, [EmitNext]_vars PROVE Inv'
  OBVIOUS
<1>1. CASE EmitNext
  BY <1>1, CallKeepsInv
<1>2. CASE UNCHANGED vars
  <2>1. emitter' = emitter /\ lost' = lost /\ Here' = Here
    BY <1>2 DEF vars, Here
  <2> QED BY <2>1 DEF Inv
<1> QED BY <1>1, <1>2

LEMMA EmitterInvariant == Spec => []Inv
<1>1. Init /\ Stream!Init => Inv
  BY StartsInv
<1> QED BY <1>1, StepKeepsInv, PTL DEF Spec

(* Type correctness, whatever writes fail and whatever the caller emits    *)
(* afterwards: the stacks hold what they are to hold, and a call that has  *)
(* failed has left an error.  Until a write fails the flow level counts    *)
(* flow collections and no handler pops what was not pushed.               *)
THEOREM EmitterTyped == Spec => []TypeOK
<1>1. Inv => TypeOK
  <2> SUFFICES ASSUME Inv PROVE TypeOK
    OBVIOUS
  <2>1. Fit(emitter) /\ lost \in BOOLEAN
    BY DEF Inv
  <2>2. emitter.indents \in Seq(Int)
    <3>1. Level \subseteq Int /\ emitter.indents \in Seq(Level)
      BY <2>1 DEF Fit, Level
    <3> QED BY <3>1, SeqMonotonic
  <2>3. emitter.indent >= -1
    BY <2>1 DEF Fit, Level
  <2>4. ~lost => emitter.flowLevel \in Nat /\ emitter.error \in {"none", "emitter"}
    BY DEF Inv, Well, Typed
  <2> QED BY <2>1, <2>2, <2>3, <2>4 DEF Fit, Sound, TypeOK
<1> QED BY <1>1, EmitterInvariant, PTL

(* Whatever documents have opened is closed when the next may start:       *)
(* yaml_emitter_emit_document_start finds the stacks, the indentation, the *)
(* flow level and the tag directives as yaml_emitter_initialize left them. *)
THEOREM EmitterStartsClean == Spec => []DocumentsStartClean
<1>1. Inv => DocumentsStartClean
  <2> SUFFICES ASSUME Inv, emitter.error = "none", emitter.state = "DOCUMENT-START"
               PROVE  /\ emitter.states = <<>> /\ emitter.indents = <<>>
                      /\ emitter.indent = -1 /\ emitter.flowLevel = 0
                      /\ emitter.tagDirectives = <<>>
    BY Zenon DEF DocumentsStartClean
  <2>1. PICK f : Mirrors(emitter, f[0])
    BY DEF Inv, Follows
  <2>2. Well(emitter) /\ emitter.state \in Outer /\ emitter.state # "STREAM-START"
    BY DEF Inv, Outer
  <2> QED BY <2>1, <2>2, OutsideDocuments
<1> QED BY <1>1, EmitterInvariant, PTL

(* The queue of yaml_emitter_need_more_events never holds more than three  *)
(* events, and none when nothing is open: a document that has ended is     *)
(* written, though nothing follows it.                                     *)
THEOREM EmitterHoldsNothingBack == Spec => []NothingStaysBehind
<1>1. Inv => NothingStaysBehind
  <2> SUFFICES ASSUME Inv, emitter.error = "none"
               PROVE  /\ Len(emitter.events) <= 3
                      /\ open = <<>> => emitter.events = <<>>
    BY Zenon DEF NothingStaysBehind
  <2> DEFINE s == emitter.events
  <2>1. s \in Seq(Event) /\ NeedMoreEvents(s)
    BY DEF Inv, Well, Typed
  <2>2. PICK f : Leads(f, s, Here)
    BY DEF Inv, Follows
  <2>3. Len(s) <= 3
    <3>1. CASE s = <<>>
      BY <3>1
    <3>2. CASE s # <<>>
      <4>1. Len(s) <= Accumulate(Head(s).type) /\ Accumulate(Head(s).type) > 0
        BY <2>1, <3>2 DEF NeedMoreEvents
      <4>2. Len(s) \in Nat
        BY <2>1, LenProperties
      <4> QED BY <4>1, <4>2 DEF Accumulate
    <3> QED BY <3>1, <3>2
  <2>4. Here.open = open
    BY DEF Here
  <2> HIDE DEF s
  <2>5. open = <<>> => s = <<>>
    BY <2>1, <2>2, <2>4, NothingWaitsOutside
  <2> QED BY <2>3, <2>5 DEF s
<1> QED BY <1>1, EmitterInvariant, PTL

(* An event that was refused before any write has failed is refused by     *)
(* every later call of a caller that goes on, and nothing more is written, *)
(* whatever follows.                                                       *)
THEOREM EmitterRefusesForGood == Spec => RefusedForGood
<1>1. Inv /\ [EmitNext]_vars
        => [emitter.error = "emitter" /\ ~lost
              => ~emitter'.ok /\ emitter'.error = "emitter" /\ emitter'.text = emitter.text]_vars
  BY CallKeepsInv
<1> QED BY <1>1, EmitterInvariant, PTL DEF Spec, RefusedForGood

(* A well-formed stream is refused for what an event carries only: until a *)
(* write fails no handler meets an event that it does not expect.          *)
THEOREM EmitterRefusesContentOnly == Spec => []OnlyContentIsRefused
<1>1. Inv => OnlyContentIsRefused
  <2> SUFFICES ASSUME Inv, emitter.error = "emitter", ~lost
               PROVE  /\ emitter.events # <<>>
                      /\ LET e == Head(emitter.events)
                         IN  \/ Refused(emitter, e)
                             \/ /\ e.type = "DOCUMENT-START"
                                /\ \/ e.version \notin {"none", "1.1"}
                                   \/ e.tagDirectives # <<>>
    BY Zenon DEF OnlyContentIsRefused
  <2>1. Doomed(emitter)
    BY DEF Inv
  <2> QED BY <2>1 DEF Doomed, Undeclarable
<1> QED BY <1>1, EmitterInvariant, PTL

(* When nothing is open the emitter is where the stream is. *)
THEOREM EmitterKeepsPace == Spec => []KeepsPace
<1>1. Inv => KeepsPace
  <2> SUFFICES ASSUME Inv, emitter.error = "none", open = <<>>
               PROVE  /\ phase = "before" <=> emitter.state = "STREAM-START"
                      /\ phase = "stream"
                           <=> emitter.state \in {"FIRST-DOCUMENT-START", "DOCUMENT-START"}
                      /\ phase = "ended" <=> emitter.state = "END"
    BY Zenon DEF KeepsPace
  <2> DEFINE s == emitter.events
  <2>1. s \in Seq(Event) /\ NeedMoreEvents(s) /\ Well(emitter)
    BY DEF Inv, Well, Typed
  <2>2. PICK f : Mirrors(emitter, f[0]) /\ Leads(f, s, Here)
    BY DEF Inv, Follows
  <2>3. Here.open = <<>> /\ Here.phase = phase
    BY DEF Here
  <2>4. s = <<>>
    <3> HIDE DEF s
    <3> QED BY <2>1, <2>2, <2>3, NothingWaitsOutside
  <2>5. Mirrors(emitter, Here)
    <3>1. Len(s) = 0
      BY <2>4
    <3> QED BY <2>2, <3>1 DEF Leads
  <2>6. emitter.state \in State /\ phase \in {"before", "stream", "ended"}
    BY <2>1, <2>3 DEF Well, Typed, Inv, Placed
  <2>7. emitter.state \notin Inner
    <3> SUFFICES ASSUME emitter.state \in Inner PROVE FALSE
      OBVIOUS
    <3>1. emitter.states \in Seq(State)
      BY <2>1 DEF Well, Typed
    <3>2. /\ Opened(Path(emitter)) = Append(Opened(emitter.states), KindOf(emitter.state))
          /\ Opened(emitter.states) \in Seq(Stream!Construct)
      BY <2>6, <3>1, PathGrows DEF Path
    <3>3. KindOf(emitter.state) \in Stream!Construct
      BY InnerStates
    <3>4. Opened(Path(emitter)) # <<>>
      BY <3>2, <3>3, FrontOfAppend
    <3> QED BY <2>3, <2>5, <3>4 DEF Mirrors
  <2>8. emitter.state \in Outer
    BY <2>6, <2>7 DEF State, Inner, Outer, SequenceStates, KeyStates, ValueStates
  <2>9. /\ phase = "before" <=> emitter.state = "STREAM-START"
        /\ phase = "ended" <=> emitter.state = "END"
    BY <2>3, <2>5 DEF Mirrors
  <2> QED BY <2>6, <2>8, <2>9 DEF Outer
<1> QED BY <1>1, EmitterInvariant, PTL
=============================================================================
