------------------------------- MODULE Emitter -------------------------------
(***************************************************************************)
(* libyaml's emitter (yaml-0.1.4/src/emitter.c): the queue that holds      *)
(* events back until enough of what follows is known, and the state        *)
(* machine that writes them.  Layout has the text, the column and what the *)
(* last thing written left behind; ScalarWriting has the scalars.  The     *)
(* handlers work on the emitter as a record c, as Layout does.             *)
(***************************************************************************)
EXTENDS ScalarWriting

CONSTANTS Anchors,     \* names an anchor or an alias can carry
          NoAnchor,    \* the event carries no anchor
          BadAnchor,   \* a name with a character an anchor may not have
          Handles,     \* the handles of tag directives
          BadHandle,   \* a handle that is not one
          TagPrefixes, \* the prefixes tags begin with
          NoTag,       \* the event carries no tag
          EmptyTag,    \* a tag without characters
          Defaults,    \* default_tag_directives
          Modes        \* the values emitter->canonical and ->unicode may have

Directive == [handle : Handles, prefix : TagPrefixes]

ASSUME EmitterAssumption ==
    /\ BadAnchor \notin Anchors /\ NoAnchor \notin Anchors \cup {BadAnchor}
    /\ BadHandle \notin Handles
    /\ NoTag \notin TagPrefixes \cup {EmptyTag} /\ EmptyTag \notin TagPrefixes
    /\ Defaults \in Seq(Directive)
    /\ Modes \subseteq [canonical : BOOLEAN, unicode : BOOLEAN]

VARIABLES emitter,  \* the fields of yaml_emitter_t
          lost      \* history: has a write ever failed?

NodeType == {"ALIAS", "SCALAR", "SEQUENCE-START", "MAPPING-START"}

State == {"STREAM-START", "FIRST-DOCUMENT-START", "DOCUMENT-START", "DOCUMENT-CONTENT",
          "DOCUMENT-END", "FLOW-SEQUENCE-FIRST-ITEM", "FLOW-SEQUENCE-ITEM",
          "FLOW-MAPPING-FIRST-KEY", "FLOW-MAPPING-KEY", "FLOW-MAPPING-SIMPLE-VALUE",
          "FLOW-MAPPING-VALUE", "BLOCK-SEQUENCE-FIRST-ITEM", "BLOCK-SEQUENCE-ITEM",
          "BLOCK-MAPPING-FIRST-KEY", "BLOCK-MAPPING-KEY", "BLOCK-MAPPING-SIMPLE-VALUE",
          "BLOCK-MAPPING-VALUE", "END"}

Style == {"any", "plain", "single-quoted", "double-quoted", "literal", "folded"}

-----------------------------------------------------------------------------
(***************************************************************************)
(* Stacks and tag directives.                                              *)
(***************************************************************************)
GoTo(c, state) == Then(c, LAMBDA d : [d EXCEPT !.state = state])

PushState(c, state) == Then(c, LAMBDA d : [d EXCEPT !.states = Append(@, state)])

(* POP does not look whether the stack is empty: below its bottom the      *)
(* behaviour is undefined, and the model ends there.                       *)
Underflow(c) == Fail(c, "undefined")

PopState(c) ==
    IF c.ok /\ c.states = <<>>
    THEN Underflow(c)
    ELSE Then(c, LAMBDA d : [d EXCEPT !.state = Last(d.states), !.states = Front(@)])

(* yaml_emitter_increase_indent, and the POP that undoes it. *)
IncreaseIndent(c, flow, indentless) ==
    Then(c, LAMBDA d :
               [d EXCEPT !.indents = Append(@, d.indent),
                         !.indent = CASE @ < 0 -> IF flow THEN BestIndent ELSE 0
                                      [] @ >= 0 /\ indentless -> @
                                      [] OTHER -> @ + BestIndent])

PopIndent(c) ==
    IF c.ok /\ c.indents = <<>>
    THEN Underflow(c)
    ELSE Then(c, LAMBDA d : [d EXCEPT !.indent = Last(d.indents), !.indents = Front(@)])

HandlesOf(directives) == {directives[i].handle : i \in DOMAIN directives}

(* yaml_emitter_append_tag_directive. *)
AppendTagDirective(c, d, allowDuplicates) ==
    IF d.handle \notin HandlesOf(c.tagDirectives)
    THEN Then(c, LAMBDA w : [w EXCEPT !.tagDirectives = Append(@, d)])
    ELSE IF allowDuplicates THEN c ELSE Fail(c, "emitter")

(* The handle yaml_emitter_analyze_tag writes a tag with, if there is one. *)
HandleOf(c, tag) ==
    LET found == SelectInSeq(c.tagDirectives, LAMBDA d : d.prefix = tag)
    IN  IF found = 0 THEN <<>> ELSE <<c.tagDirectives[found].handle>>

-----------------------------------------------------------------------------
(***************************************************************************)
(* What yaml_emitter_analyze_event finds out about an event.               *)
(***************************************************************************)
(* A tag is written when the event does not let it be left out. *)
TagWritten(c, e) ==
    /\ e.tag # NoTag
    /\ c.canonical \/ IF e.type = "SCALAR" THEN ~e.plainImplicit /\ ~e.quotedImplicit
                                          ELSE ~e.implicit

Refused(c, e) ==
    /\ e.type \in NodeType
    /\ \/ e.anchor = BadAnchor
       \/ e.type # "ALIAS" /\ TagWritten(c, e) /\ e.tag = EmptyTag

CheckEmpty(c, start, end) ==
    Len(c.events) >= 2 /\ c.events[1].type = start /\ c.events[2].type = end

CheckEmptySequence(c) == CheckEmpty(c, "SEQUENCE-START", "SEQUENCE-END")
CheckEmptyMapping(c) == CheckEmpty(c, "MAPPING-START", "MAPPING-END")

(* yaml_emitter_check_simple_key. *)
CheckSimpleKey(c) ==
    LET e == Head(c.events)
    IN  \/ e.type = "ALIAS"
        \/ e.type = "SCALAR" /\ ~Multiline(e.text) /\ LengthOf(e.text) <= 128
        \/ CheckEmptySequence(c)
        \/ CheckEmptyMapping(c)

(* yaml_emitter_select_scalar_style, one IF of it after the other. *)
ScalarStyle(c, e) ==
    LET s == e.text
        asked == IF e.style = "any" THEN "plain" ELSE e.style
        forced == IF c.canonical \/ (c.simpleKeyContext /\ Multiline(s))
                  THEN "double-quoted" ELSE asked
        plainAllowed == IF c.flowLevel > 0 THEN FlowPlainAllowed(s, c.unicode)
                                            ELSE BlockPlainAllowed(s, c.unicode)
        plain == IF /\ forced = "plain"
                    /\ \/ ~plainAllowed
                       \/ s = <<>> /\ (c.flowLevel > 0 \/ c.simpleKeyContext)
                       \/ ~TagWritten(c, e) /\ ~e.plainImplicit
                 THEN "single-quoted" ELSE forced
        quoted == IF plain = "single-quoted" /\ ~SingleQuotedAllowed(s, c.unicode)
                  THEN "double-quoted" ELSE plain
    IN  IF /\ quoted \in {"literal", "folded"}
           /\ ~BlockAllowed(s, c.unicode) \/ c.flowLevel > 0 \/ c.simpleKeyContext
        THEN "double-quoted" ELSE quoted

-----------------------------------------------------------------------------
(***************************************************************************)
(* Nodes.                                                                  *)
(***************************************************************************)
(* yaml_emitter_process_anchor. *)
ProcessAnchor(c, e) ==
    IF e.anchor = NoAnchor
    THEN c
    ELSE WriteIndicator(c, IF e.type = "ALIAS" THEN "*" ELSE "&", <<e.anchor>>, TRUE, FALSE, FALSE)

(* yaml_emitter_write_tag_handle, or a verbatim tag. *)
WriteTag(c, handle, prefix) ==
    IF handle = <<>>
    THEN Tight(WriteIndicator(c, "!<", <<prefix>>, TRUE, FALSE, FALSE), ">")
    ELSE Then(Write(Space(c, TRUE), "tag", handle, Spelling("tag")),
              LAMBDA d : [d EXCEPT !.whitespace = FALSE, !.indention = FALSE])

(* yaml_emitter_process_tag. *)
ProcessTag(c, e) ==
    IF TagWritten(c, e) THEN WriteTag(c, HandleOf(c, e.tag), e.tag) ELSE c

(* yaml_emitter_process_scalar; only flow scalars ask for the breaks. *)
ProcessScalar(c, s, style) == WriteScalar(c, s, style, ~c.simpleKeyContext)

(* yaml_emitter_emit_scalar. *)
EmitScalar(c, e) ==
    LET style == ScalarStyle(c, e)
        anchored == ProcessAnchor(c, e)
        tagged == IF ~TagWritten(c, e) /\ ~e.quotedImplicit /\ style # "plain"
                  THEN WriteTag(anchored, <<"!">>, NoTag) ELSE ProcessTag(anchored, e)
    IN  IF ~TagWritten(c, e) /\ ~e.plainImplicit /\ ~e.quotedImplicit
        THEN Fail(c, "emitter")
        ELSE PopState(PopIndent(ProcessScalar(IncreaseIndent(tagged, TRUE, FALSE), e.text, style)))

(* yaml_emitter_emit_sequence_start and yaml_emitter_emit_mapping_start. *)
EmitCollectionStart(c, e, empty, flowState, blockState) ==
    LET d == ProcessTag(ProcessAnchor(c, e), e)
    IN  GoTo(d, IF c.flowLevel > 0 \/ c.canonical \/ e.flow \/ empty THEN flowState ELSE blockState)

(* yaml_emitter_emit_node.  A mapping context is one of a key or a value.  *)
EmitNode(c, root, mapping, simpleKey) ==
    LET e == Head(c.events)
        d == Then(c, LAMBDA w : [w EXCEPT !.rootContext = root, !.mappingContext = mapping,
                                          !.simpleKeyContext = simpleKey])
    IN  CASE e.type = "ALIAS" -> PopState(ProcessAnchor(d, e))
          [] e.type = "SCALAR" -> EmitScalar(d, e)
          [] e.type = "SEQUENCE-START" ->
                EmitCollectionStart(d, e, CheckEmptySequence(d),
                                    "FLOW-SEQUENCE-FIRST-ITEM", "BLOCK-SEQUENCE-FIRST-ITEM")
          [] e.type = "MAPPING-START" ->
                EmitCollectionStart(d, e, CheckEmptyMapping(d),
                                    "FLOW-MAPPING-FIRST-KEY", "BLOCK-MAPPING-FIRST-KEY")
          [] OTHER -> Fail(d, "emitter")

-----------------------------------------------------------------------------
(***************************************************************************)
(* Flow collections.                                                       *)
(***************************************************************************)
(* A break in front of the next item of a line that is full. *)
BreakLine(c) == IF c.canonical \/ c.column > BestWidth THEN WriteIndent(c) ELSE c

(* Mutant of EnterFlow: the flow level is not raised. *)
EnterFlowAtOldLevel(c, opener) ==
    IncreaseIndent(WriteIndicator(c, opener, <<>>, TRUE, TRUE, FALSE), TRUE, FALSE)

EnterFlow(c, opener) ==
    Then(IncreaseIndent(WriteIndicator(c, opener, <<>>, TRUE, TRUE, FALSE), TRUE, FALSE),
         LAMBDA d : [d EXCEPT !.flowLevel = @ + 1])

LeaveFlow(c, closer, first) ==
    LET d == PopIndent(Then(c, LAMBDA w : [w EXCEPT !.flowLevel = @ - 1]))
        w == IF c.canonical /\ ~first THEN WriteIndent(Tight(d, ",")) ELSE d
    IN  PopState(Tight(w, closer))

(* yaml_emitter_emit_flow_sequence_item. *)
FlowSequenceItem(c, first) ==
    LET d == IF first THEN EnterFlow(c, "[") ELSE c
    IN  IF Head(c.events).type = "SEQUENCE-END"
        THEN LeaveFlow(d, "]", first)
        ELSE EmitNode(PushState(BreakLine(IF first THEN d ELSE Tight(d, ",")),
                                "FLOW-SEQUENCE-ITEM"), FALSE, FALSE, FALSE)

(* yaml_emitter_emit_flow_mapping_key. *)
FlowMappingKey(c, first) ==
    LET d == IF first THEN EnterFlow(c, "{") ELSE c
        w == BreakLine(IF first THEN d ELSE Tight(d, ","))
    IN  CASE Head(c.events).type = "MAPPING-END" -> LeaveFlow(d, "}", first)
          [] Head(c.events).type # "MAPPING-END" /\ ~c.canonical /\ CheckSimpleKey(c) ->
                EmitNode(PushState(w, "FLOW-MAPPING-SIMPLE-VALUE"), FALSE, TRUE, TRUE)
          [] OTHER ->
                EmitNode(PushState(Apart(w, "?"), "FLOW-MAPPING-VALUE"), FALSE, TRUE, FALSE)

(* yaml_emitter_emit_flow_mapping_value. *)
FlowMappingValue(c, simple) ==
    LET d == IF simple THEN Tight(c, ":") ELSE Apart(BreakLine(c), ":")
    IN  EmitNode(PushState(d, "FLOW-MAPPING-KEY"), FALSE, TRUE, FALSE)

-----------------------------------------------------------------------------
(***************************************************************************)
(* Block collections.                                                      *)
(***************************************************************************)
BlockIndicator(c, what) == WriteIndicator(c, what, <<>>, TRUE, FALSE, TRUE)

LeaveBlock(c) == PopState(PopIndent(c))

(* Mutant of BlockSequenceItem: every sequence behind an anchor or a tag is *)
(* taken for a value of a mapping.                                          *)
BlockSequenceItemUnindented(c, first) ==
    LET d == IF first THEN IncreaseIndent(c, FALSE, ~c.indention) ELSE c
    IN  IF Head(c.events).type = "SEQUENCE-END"
        THEN LeaveBlock(d)
        ELSE EmitNode(PushState(BlockIndicator(WriteIndent(d), "-"), "BLOCK-SEQUENCE-ITEM"),
                      FALSE, FALSE, FALSE)

(* yaml_emitter_emit_block_sequence_item. *)
BlockSequenceItem(c, first) ==
    LET indentless == c.mappingContext /\ ~c.indention
        d == IF first THEN IncreaseIndent(c, FALSE, indentless) ELSE c
    IN  IF Head(c.events).type = "SEQUENCE-END"
        THEN LeaveBlock(d)
        ELSE EmitNode(PushState(BlockIndicator(WriteIndent(d), "-"), "BLOCK-SEQUENCE-ITEM"),
                      FALSE, FALSE, FALSE)

(* yaml_emitter_emit_block_mapping_key. *)
BlockMappingKey(c, first) ==
    LET d == IF first THEN IncreaseIndent(c, FALSE, FALSE) ELSE c
        w == WriteIndent(d)
    IN  CASE Head(c.events).type = "MAPPING-END" -> LeaveBlock(d)
          [] Head(c.events).type # "MAPPING-END" /\ CheckSimpleKey(c) ->
                EmitNode(PushState(w, "BLOCK-MAPPING-SIMPLE-VALUE"), FALSE, TRUE, TRUE)
          [] OTHER ->
                EmitNode(PushState(BlockIndicator(w, "?"), "BLOCK-MAPPING-VALUE"),
                         FALSE, TRUE, FALSE)

(* yaml_emitter_emit_block_mapping_value. *)
BlockMappingValue(c, simple) ==
    LET d == IF simple THEN Tight(c, ":") ELSE BlockIndicator(WriteIndent(c), ":")
    IN  EmitNode(PushState(d, "BLOCK-MAPPING-KEY"), FALSE, TRUE, FALSE)

-----------------------------------------------------------------------------
(***************************************************************************)
(* The stream and its documents.                                           *)
(***************************************************************************)
(* yaml_emitter_emit_stream_start; the byte order mark is left out. *)
StreamStart(c) ==
    IF Head(c.events).type = "STREAM-START"
    THEN GoTo([c EXCEPT !.indent = -1, !.column = 0, !.line = 0,
                        !.whitespace = TRUE, !.indention = TRUE], "FIRST-DOCUMENT-START")
    ELSE Fail(c, "emitter")

EndOpenScalar(c) == IF c.openEnded THEN WriteIndent(Apart(c, "...")) ELSE c

AddDirective(c, d, allowDuplicates) ==
    IF d.handle = BadHandle THEN Fail(c, "emitter") ELSE AppendTagDirective(c, d, allowDuplicates)

(* The loops over the directives given with a document, and the defaults.  *)
AddDirectives(c, directives, allowDuplicates) ==
    LET added[i \in 0 .. Len(directives)] ==
          IF i = 0 THEN c ELSE AddDirective(added[i - 1], directives[i], allowDuplicates)
    IN  added[Len(directives)]

WriteTagDirective(c, d) ==
    WriteIndent(WriteIndicator(c, "%TAG", <<d.handle, d.prefix>>, TRUE, FALSE, FALSE))

WriteTagDirectives(c, directives) ==
    LET written[i \in 0 .. Len(directives)] ==
          IF i = 0 THEN c ELSE WriteTagDirective(written[i - 1], directives[i])
    IN  written[Len(directives)]

(* yaml_emitter_emit_document_start, of a DOCUMENT-START. *)
StartDocument(c, e, first) ==
    LET directives == e.version # "none" \/ e.tagDirectives # <<>>
        explicit == ~first \/ c.canonical \/ ~e.implicit \/ directives
        checked == IF e.version \notin {"none", "1.1"} THEN Fail(c, "emitter") ELSE c
        known == AddDirectives(AddDirectives(checked, e.tagDirectives, FALSE), Defaults, TRUE)
        ended == IF directives THEN EndOpenScalar(known) ELSE known
        versioned == IF e.version # "none" THEN WriteIndent(Apart(ended, "%YAML")) ELSE ended
        declared == WriteTagDirectives(versioned, e.tagDirectives)
        marked == IF explicit THEN Apart(WriteIndent(declared), "---") ELSE declared
        begun == IF explicit /\ c.canonical THEN WriteIndent(marked) ELSE marked
    IN  GoTo(begun, "DOCUMENT-CONTENT")

(* yaml_emitter_emit_document_start. *)
DocumentStart(c, first) ==
    LET e == Head(c.events)
    IN  CASE e.type = "DOCUMENT-START" -> StartDocument(c, e, first)
          [] e.type = "STREAM-END" -> GoTo(Flush(EndOpenScalar(c)), "END")
          [] OTHER -> Fail(c, "emitter")

(* yaml_emitter_emit_document_content. *)
DocumentContent(c) == EmitNode(PushState(c, "DOCUMENT-END"), TRUE, FALSE, FALSE)

(* Mutant of DocumentEnd: the directives of the document are kept. *)
DocumentEndKeepsDirectives(c) ==
    LET d == WriteIndent(c)
    IN  IF Head(c.events).type = "DOCUMENT-END"
        THEN GoTo(Flush(IF Head(c.events).implicit THEN d ELSE WriteIndent(Apart(d, "..."))),
                  "DOCUMENT-START")
        ELSE Fail(c, "emitter")

(* yaml_emitter_emit_document_end. *)
DocumentEnd(c) ==
    LET d == WriteIndent(c)
    IN  IF Head(c.events).type = "DOCUMENT-END"
        THEN Then(Flush(IF Head(c.events).implicit THEN d ELSE WriteIndent(Apart(d, "..."))),
                  LAMBDA w : [w EXCEPT !.state = "DOCUMENT-START", !.tagDirectives = <<>>])
        ELSE Fail(c, "emitter")

-----------------------------------------------------------------------------
(* yaml_emitter_state_machine. *)
StateMachine(c) ==
    CASE c.state = "STREAM-START" -> StreamStart(c)
      [] c.state \in {"FIRST-DOCUMENT-START", "DOCUMENT-START"} ->
            DocumentStart(c, c.state = "FIRST-DOCUMENT-START")
      [] c.state = "DOCUMENT-CONTENT" -> DocumentContent(c)
      [] c.state = "DOCUMENT-END" -> DocumentEnd(c)
      [] c.state \in {"FLOW-SEQUENCE-FIRST-ITEM", "FLOW-SEQUENCE-ITEM"} ->
            FlowSequenceItem(c, c.state = "FLOW-SEQUENCE-FIRST-ITEM")
      [] c.state \in {"FLOW-MAPPING-FIRST-KEY", "FLOW-MAPPING-KEY"} ->
            FlowMappingKey(c, c.state = "FLOW-MAPPING-FIRST-KEY")
      [] c.state \in {"FLOW-MAPPING-SIMPLE-VALUE", "FLOW-MAPPING-VALUE"} ->
            FlowMappingValue(c, c.state = "FLOW-MAPPING-SIMPLE-VALUE")
      [] c.state \in {"BLOCK-SEQUENCE-FIRST-ITEM", "BLOCK-SEQUENCE-ITEM"} ->
            BlockSequenceItem(c, c.state = "BLOCK-SEQUENCE-FIRST-ITEM")
      [] c.state \in {"BLOCK-MAPPING-FIRST-KEY", "BLOCK-MAPPING-KEY"} ->
            BlockMappingKey(c, c.state = "BLOCK-MAPPING-FIRST-KEY")
      [] c.state \in {"BLOCK-MAPPING-SIMPLE-VALUE", "BLOCK-MAPPING-VALUE"} ->
            BlockMappingValue(c, c.state = "BLOCK-MAPPING-SIMPLE-VALUE")
      [] c.state = "END" -> Fail(c, "emitter")

Opening == {"STREAM-START", "DOCUMENT-START", "SEQUENCE-START", "MAPPING-START"}
Closing == {"STREAM-END", "DOCUMENT-END", "SEQUENCE-END", "MAPPING-END"}

Accumulate(type) == CASE type = "DOCUMENT-START" -> 1 [] type = "SEQUENCE-START" -> 2
                      [] type = "MAPPING-START" -> 3 [] OTHER -> 0

(* The events up to the n-th close what they open. *)
IsComplete(events, n) ==
    LET count(S) == Cardinality({i \in 1..n : events[i].type \in S})
    IN  count(Opening) = count(Closing)

(* Mutant of NeedMoreEvents: waits for its events even where the head is   *)
(* already closed.                                                         *)
NeedMoreEventsAlways(events) ==
    \/ events = <<>>
    \/ /\ Accumulate(Head(events).type) > 0
       /\ Len(events) <= Accumulate(Head(events).type)

(* yaml_emitter_need_more_events. *)
NeedMoreEvents(events) ==
    \/ events = <<>>
    \/ /\ Accumulate(Head(events).type) > 0
       /\ Len(events) <= Accumulate(Head(events).type)
       /\ \A n \in DOMAIN events : ~IsComplete(events, n)

(* Mutant of EmitHead: an event that fails is taken off the queue. *)
EmitHeadOnce(c) ==
    LET d == IF Refused(c, Head(c.events)) THEN Fail(c, "emitter") ELSE StateMachine(c)
    IN  [d EXCEPT !.events = Tail(@)]

(* A turn of the loop of yaml_emitter_emit. *)
EmitHead(c) ==
    Then(IF Refused(c, Head(c.events)) THEN Fail(c, "emitter") ELSE StateMachine(c),
         LAMBDA d : [d EXCEPT !.events = Tail(@)])

Turn(c) == IF c.ok /\ ~NeedMoreEvents(c.events) THEN EmitHead(c) ELSE c

(* Each turn takes an event off the queue, or is the last one. *)
EmitLoop(c) ==
    LET turns[n \in 0 .. Len(c.events)] == IF n = 0 THEN c ELSE Turn(turns[n - 1])
    IN  turns[Len(c.events)]

(***************************************************************************)
(* yaml_emitter_emit, where the write handler fails after "room" items or, *)
(* when room is -1, not at all.  It does not look at emitter->error: after *)
(* a call that has failed the handler that failed runs again, on whatever  *)
(* it has changed until then.                                              *)
(***************************************************************************)
Emit(e, room) ==
    /\ emitter.error # "undefined"
    /\ emitter' = [EmitLoop([emitter EXCEPT !.events = Append(@, e), !.ok = TRUE, !.room = room])
                   EXCEPT !.room = -1]
    /\ lost' = (lost \/ emitter'.error = "writer")

(* yaml_emitter_initialize; ok is what the last call has returned. *)
Init ==
  /\ lost = FALSE
  /\ \E mode \in Modes :
       emitter = [state |-> "STREAM-START", states |-> <<>>, events |-> <<>>,
                  indent |-> 0, indents |-> <<>>, flowLevel |-> 0, tagDirectives |-> <<>>,
                  rootContext |-> FALSE, mappingContext |-> FALSE, simpleKeyContext |-> FALSE,
                  column |-> 0, line |-> 0, whitespace |-> FALSE, indention |-> FALSE,
                  openEnded |-> FALSE, text |-> <<>>, room |-> -1, ok |-> TRUE, error |-> "none",
                  canonical |-> mode.canonical, unicode |-> mode.unicode]
-----------------------------------------------------------------------------
(***************************************************************************)
(* The emitter's fields keep their types, whatever writes fail, and an     *)
(* error is set whenever a call has failed.  As long as no write has       *)
(* failed the flow level counts the flow collections and never goes below  *)
(* zero, and nothing is popped that was not pushed.                        *)
(***************************************************************************)
TypeOK ==
    /\ emitter.state \in State /\ emitter.states \in Seq(State)
    /\ emitter.indent >= -1 /\ emitter.indents \in Seq(Int)
    /\ emitter.flowLevel \in Int
    /\ emitter.tagDirectives \in Seq(Directive)
    /\ emitter.column \in Nat /\ emitter.line \in Nat
    /\ emitter.error \in {"none", "emitter", "writer", "undefined"}
    /\ ~emitter.ok => emitter.error # "none"
    /\ lost \in BOOLEAN
    /\ ~lost => emitter.flowLevel \in Nat /\ emitter.error \in {"none", "emitter"}
=============================================================================
