------------------------------- MODULE Parser -------------------------------
(***************************************************************************)
(* libyaml's parser (yaml-0.1.4/src/parser.c): the pushdown automaton      *)
(* behind yaml_parser_parse.  Every call runs one state function, which    *)
(* peeks at and skips tokens of the scanner and returns one event.         *)
(*                                                                         *)
(* The scanner is an environment here: Supply(s) is the set of outcomes of *)
(* yaml_parser_fetch_more_tokens in scanner state s.  Allocation succeeds. *)
(***************************************************************************)
EXTENDS Naturals, SequencesExt

CONSTANTS Anchors,        \* names of anchors and aliases
          NoAnchor,       \* a node without an anchor
          Handles,        \* tag handles ("!", "!!", "!e!", ...)
          DefaultHandles, \* the handles of default_tag_directives
          Verbatim,       \* the empty tag handle: its suffix is the whole tag
          NoTag,          \* a node without a tag
          NoData,         \* a token without data
          NoToken,        \* PEEK_TOKEN returned NULL; no token is available
          ScanState,      \* the states of the scanner
          InitScan,       \* its initial state
          Supply(_),      \* scanner state -> outcomes of the next fetch
          MaxDepth        \* BOUND on the nesting of collections

-----------------------------------------------------------------------------
(***************************************************************************)
(* Tokens.                                                                 *)
(***************************************************************************)
BareTokenType ==
    {"STREAM-START", "STREAM-END", "DOCUMENT-START", "DOCUMENT-END",
     "BLOCK-SEQUENCE-START", "BLOCK-MAPPING-START", "BLOCK-END",
     "FLOW-SEQUENCE-START", "FLOW-SEQUENCE-END",
     "FLOW-MAPPING-START", "FLOW-MAPPING-END",
     "BLOCK-ENTRY", "FLOW-ENTRY", "KEY", "VALUE", "SCALAR"}

Token == [type : BareTokenType, data : {NoData}]
    \cup [type : {"ALIAS", "ANCHOR"}, data : Anchors]
    \cup [type : {"TAG"}, data : Handles \cup {Verbatim}]
    \cup [type : {"VERSION-DIRECTIVE"}, data : {"1.1", "other"}]
    \cup [type : {"TAG-DIRECTIVE"}, data : Handles]

(***************************************************************************)
(* A cursor is the token at the head of the queue, or NoToken, with the    *)
(* state of the scanner behind it.                                         *)
(***************************************************************************)
Cursor == [token : Token \cup {NoToken}, scan : ScanState]

ASSUME SupplyAssumption == \A s \in ScanState : Supply(s) \subseteq Cursor

ASSUME ConstantsAssumption ==
    /\ InitScan \in ScanState
    /\ NoAnchor \notin Anchors
    /\ DefaultHandles \subseteq Handles
    /\ Verbatim \notin Handles
    /\ NoTag \notin Handles \cup {Verbatim}
    /\ NoToken \notin Token
    /\ MaxDepth \in Nat

-----------------------------------------------------------------------------
VARIABLES state,             \* parser->state
          states,            \* parser->states, the states to return to
          marks,             \* parser->marks; a mark is the type of the token it marks
          tagDirectives,     \* parser->tag_directives
          head,              \* the token peeked and not yet skipped, or NoToken
          scan,              \* the scanner (external)
          streamEndProduced, \* parser->stream_end_produced
          error,             \* parser->error and parser->problem
          version,           \* local version_directive of process_directives
          declared,          \* local tag_directives of process_directives
          event              \* the event of the last call

stacks == <<states, marks>>
directives == <<tagDirectives, version, declared>>
tokens == <<head, scan>>
vars == <<state, stacks, directives, tokens, streamEndProduced, error, event>>

BlockState ==
    {"BLOCK_SEQUENCE_FIRST_ENTRY", "BLOCK_SEQUENCE_ENTRY",
     "INDENTLESS_SEQUENCE_ENTRY",
     "BLOCK_MAPPING_FIRST_KEY", "BLOCK_MAPPING_KEY", "BLOCK_MAPPING_VALUE"}

FlowState ==
    {"FLOW_SEQUENCE_FIRST_ENTRY", "FLOW_SEQUENCE_ENTRY",
     "FLOW_SEQUENCE_ENTRY_MAPPING_KEY", "FLOW_SEQUENCE_ENTRY_MAPPING_VALUE",
     "FLOW_SEQUENCE_ENTRY_MAPPING_END",
     "FLOW_MAPPING_FIRST_KEY", "FLOW_MAPPING_KEY", "FLOW_MAPPING_VALUE",
     "FLOW_MAPPING_EMPTY_VALUE"}

OutsideState == {"STREAM_START", "IMPLICIT_DOCUMENT_START", "DOCUMENT_START", "END"}

DocumentState == {"BLOCK_NODE", "DOCUMENT_CONTENT", "DOCUMENT_END"}

State == OutsideState \cup DocumentState \cup BlockState \cup FlowState

(***************************************************************************)
(* The states whose first act is to skip the token their collection opens  *)
(* with, which parse_node peeked at and left in the queue.                 *)
(***************************************************************************)
FirstState == {"BLOCK_SEQUENCE_FIRST_ENTRY", "BLOCK_MAPPING_FIRST_KEY",
               "FLOW_SEQUENCE_FIRST_ENTRY", "FLOW_MAPPING_FIRST_KEY"}

Error == {"none", "fetch", "syntax", "duplicate directive",
          "incompatible version", "undefined tag handle"}

TagDirective == [handle : Handles, prefix : {"default", "document"}]

EventType == {"NO-EVENT", "STREAM-START", "STREAM-END",
              "DOCUMENT-START", "DOCUMENT-END", "ALIAS", "SCALAR",
              "SEQUENCE-START", "SEQUENCE-END", "MAPPING-START", "MAPPING-END"}

Event == [type : EventType, anchor : Anchors \cup {NoAnchor}]

NullEvent == [type |-> "NO-EVENT", anchor |-> NoAnchor]

-----------------------------------------------------------------------------
(***************************************************************************)
(* The token queue.                                                        *)
(***************************************************************************)
Current == [token |-> head, scan |-> scan]

(* The outcomes of PEEK_TOKEN. *)
Peek == IF head # NoToken THEN {Current} ELSE Supply(scan)

(* The outcomes of SKIP_TOKEN followed by PEEK_TOKEN. *)
PeekAfter(c) == Supply(c.scan)

(* The handler returns with the token of c still at the head. *)
Keep(c) == /\ head' = c.token
           /\ scan' = c.scan
           /\ UNCHANGED streamEndProduced

(* SKIP_TOKEN on the token of c. *)
Skip(c) == /\ head' = NoToken
           /\ scan' = c.scan
           /\ streamEndProduced' = (c.token.type = "STREAM-END")

Is(c, type) == c.token # NoToken /\ c.token.type = type
IsOneOf(c, types) == c.token # NoToken /\ c.token.type \in types

-----------------------------------------------------------------------------
(***************************************************************************)
(* Results of a call.  An error leaves the state as it is; the stacks and  *)
(* the queue are the caller's to set.                                      *)
(***************************************************************************)
Emit(type, anchor) == /\ event' = [type |-> type, anchor |-> anchor]
                      /\ UNCHANGED error

Fail(problem) == /\ error' = problem
                 /\ event' = NullEvent
                 /\ UNCHANGED state

(* Mutant of Return: the return state is read and left on the stack.       *)
ReturnWithoutPop(stack) == /\ state' = Last(stack)
                           /\ states' = stack

(* state' = POP(states) *)
Return(stack) == /\ state' = Last(stack)
                 /\ states' = Front(stack)

(* yaml_parser_process_empty_scalar *)
EmptyScalar == Emit("SCALAR", NoAnchor)

FetchFails(c, stack) == /\ c.token = NoToken
                        /\ Fail("fetch")
                        /\ states' = stack
                        /\ Keep(c)

-----------------------------------------------------------------------------
(***************************************************************************)
(* yaml_parser_parse_node.                                                 *)
(***************************************************************************)

(* The ways to read "properties" from the cursor c, up to the next token.  *)
(* A null token ends the reading; the node then fails.                     *)
Read(anchor, tag, next) == [anchor |-> anchor, tag |-> tag, next |-> next]

AfterAnchor(c) ==
    {Read(c.token.data, NoTag, d) : d \in {x \in PeekAfter(c) : ~Is(x, "TAG")}} \cup
    UNION {{Read(c.token.data, d.token.data, e) : e \in PeekAfter(d)} :
              d \in {x \in PeekAfter(c) : Is(x, "TAG")}}

AfterTag(c) ==
    {Read(NoAnchor, c.token.data, d) : d \in {x \in PeekAfter(c) : ~Is(x, "ANCHOR")}} \cup
    UNION {{Read(d.token.data, c.token.data, e) : e \in PeekAfter(d)} :
              d \in {x \in PeekAfter(c) : Is(x, "ANCHOR")}}

(* Mutant of Properties: an anchor after a tag is not looked for.          *)
PropertiesTagLast(c) ==
    IF Is(c, "ANCHOR") THEN AfterAnchor(c)
    ELSE IF Is(c, "TAG") THEN {Read(NoAnchor, c.token.data, d) : d \in PeekAfter(c)}
    ELSE {Read(NoAnchor, NoTag, c)}

Properties(c) ==
    IF Is(c, "ANCHOR") THEN AfterAnchor(c)
    ELSE IF Is(c, "TAG") THEN AfterTag(c)
    ELSE {Read(NoAnchor, NoTag, c)}

HandleDefined(tag) ==
    tag \in {NoTag, Verbatim} \/ \E d \in tagDirectives : d.handle = tag

BlockOpener == {"BLOCK-SEQUENCE-START", "BLOCK-MAPPING-START"}
FlowOpener == {"FLOW-SEQUENCE-START", "FLOW-MAPPING-START"}

OpenerState(type) ==
    CASE type = "BLOCK-SEQUENCE-START" -> "BLOCK_SEQUENCE_FIRST_ENTRY"
      [] type = "BLOCK-MAPPING-START"  -> "BLOCK_MAPPING_FIRST_KEY"
      [] type = "FLOW-SEQUENCE-START"  -> "FLOW_SEQUENCE_FIRST_ENTRY"
      [] type = "FLOW-MAPPING-START"   -> "FLOW_MAPPING_FIRST_KEY"

OpenerEvent(type) ==
    IF type \in {"BLOCK-SEQUENCE-START", "FLOW-SEQUENCE-START"}
    THEN "SEQUENCE-START" ELSE "MAPPING-START"

Openers(block) == FlowOpener \cup (IF block THEN BlockOpener ELSE {})

(* Mutant of OpenCollection: the opening token is skipped at once.         *)
OpenCollectionAndSkip(p, stack, newState, type) ==
    /\ Len(stack) < MaxDepth
    /\ state' = newState
    /\ states' = stack
    /\ Emit(type, p.anchor)
    /\ Skip(p.next)

(* The opening token stays in the queue for the FIRST state. *)
OpenCollection(p, stack, newState, type) ==
    /\ Len(stack) < MaxDepth
    /\ state' = newState
    /\ states' = stack
    /\ Emit(type, p.anchor)
    /\ Keep(p.next)

NodeContent(p, stack, block, indentless) ==
    LET c == p.next
        startsIndentless == indentless /\ Is(c, "BLOCK-ENTRY")
        opens == ~startsIndentless /\ IsOneOf(c, Openers(block))
    IN  IF ~HandleDefined(p.tag)
        THEN Fail("undefined tag handle") /\ states' = stack /\ Keep(c)
        ELSE \/ /\ startsIndentless
                /\ OpenCollection(p, stack, "INDENTLESS_SEQUENCE_ENTRY", "SEQUENCE-START")
             \/ /\ Is(c, "SCALAR")
                /\ Return(stack)
                /\ Emit("SCALAR", p.anchor)
                /\ Skip(c)
             \/ /\ opens
                /\ OpenCollection(p, stack, OpenerState(c.token.type), OpenerEvent(c.token.type))
             \/ /\ ~startsIndentless /\ ~opens /\ ~Is(c, "SCALAR")
                /\ IF p.anchor # NoAnchor \/ p.tag # NoTag
                   THEN Return(stack) /\ Emit("SCALAR", p.anchor)
                   ELSE Fail("syntax") /\ states' = stack
                /\ Keep(c)

(* c is the cursor parse_node peeks; stack is parser->states on entry.     *)
ParseNode(c, stack, block, indentless) ==
    \/ /\ Is(c, "ALIAS")
       /\ Return(stack)
       /\ Emit("ALIAS", c.token.data)
       /\ Skip(c)
    \/ /\ ~Is(c, "ALIAS")
       /\ \E p \in Properties(c) :
             \/ FetchFails(p.next, stack)
             \/ p.next.token # NoToken /\ NodeContent(p, stack, block, indentless)

(* Mutant of AbsentNode: an absent node yields no event.                   *)
AbsentNodeUnseen(newState) == /\ state' = newState
                              /\ event' = NullEvent
                              /\ UNCHANGED <<states, error>>

(* An absent node: an empty scalar, and the parser goes on in newState.    *)
AbsentNode(newState) == /\ state' = newState
                        /\ EmptyScalar
                        /\ UNCHANGED states

(* c is the '-', '?' or ':' of an entry.  Before one of the tokens absent  *)
(* the node is missing; any other token must begin it.                     *)
NodeAfter(c, absent, newState, block, indentless) ==
    \E d \in PeekAfter(c) :
       \/ FetchFails(d, states)
       \/ /\ IsOneOf(d, absent)
          /\ AbsentNode(newState)
          /\ Keep(d)
       \/ /\ d.token # NoToken /\ ~IsOneOf(d, absent)
          /\ ParseNode(d, Append(states, newState), block, indentless)

-----------------------------------------------------------------------------
(***************************************************************************)
(* Entering a state function of a collection: a FIRST state pushes the     *)
(* mark of the opening token and skips it.  (The code does not check the   *)
(* token a FIRST state peeks: the invariant OpenerAtHead is why it may.)   *)
(***************************************************************************)
(* Mutant of Entries: the opening token is skipped before it is marked.    *)
EntriesMarkNext(first) ==
    IF first
    THEN UNION { {[marks |-> Append(marks, d.token.type), at |-> d] :
                     d \in {x \in PeekAfter(c) : x.token # NoToken}} :
                 c \in {x \in Peek : x.token # NoToken} }
    ELSE {[marks |-> marks, at |-> c] : c \in Peek}

Entries(first) ==
    IF first
    THEN UNION { {[marks |-> Append(marks, c.token.type), at |-> d] : d \in PeekAfter(c)} :
                 c \in {x \in Peek : x.token # NoToken} }
    ELSE {[marks |-> marks, at |-> c] : c \in Peek}

(* Mutant of CloseCollection: the mark is not popped.                      *)
CloseKeepsMark(e, type) ==
    /\ Return(states)
    /\ marks' = e.marks
    /\ Emit(type, NoAnchor)
    /\ Skip(e.at)

CloseCollection(e, type) ==
    /\ Return(states)
    /\ marks' = Front(e.marks)
    /\ Emit(type, NoAnchor)
    /\ Skip(e.at)

(* The error names the collection by the mark it pops. *)
Misplaced(e) == /\ Fail("syntax")
                /\ marks' = Front(e.marks)
                /\ Keep(e.at)
                /\ UNCHANGED states

-----------------------------------------------------------------------------
(***************************************************************************)
(* Streams and documents.                                                  *)
(***************************************************************************)
Init == /\ state = "STREAM_START"
        /\ states = <<>> /\ marks = <<>>
        /\ tagDirectives = {} /\ version = FALSE /\ declared = {}
        /\ head = NoToken /\ scan = InitScan
        /\ streamEndProduced = FALSE
        /\ error = "none"
        /\ event = NullEvent

ParseStreamStart ==
    /\ state = "STREAM_START"
    /\ \E c \in Peek :
          \/ FetchFails(c, states)
          \/ /\ Is(c, "STREAM-START")
             /\ state' = "IMPLICIT_DOCUMENT_START"
             /\ Emit("STREAM-START", NoAnchor)
             /\ Skip(c)
             /\ UNCHANGED states
          \/ /\ c.token # NoToken /\ ~Is(c, "STREAM-START")
             /\ Fail("syntax")
             /\ Keep(c)
             /\ UNCHANGED states
    /\ UNCHANGED <<marks, directives>>

DirectiveType == {"VERSION-DIRECTIVE", "TAG-DIRECTIVE"}

AtDocumentStart == state \in {"IMPLICIT_DOCUMENT_START", "DOCUMENT_START"}

(* process_directives has taken a directive and is not done.               *)
InDirectives == version \/ declared # {}

WithDefaults ==
    tagDirectives \cup
    {[handle |-> h, prefix |-> "default"] :
        h \in {x \in DefaultHandles : \A d \in tagDirectives : d.handle # x}}

(* One turn of the loop over extra document end indicators.                *)
SkipDocumentEnd ==
    /\ state = "DOCUMENT_START" /\ ~InDirectives
    /\ \E c \in Peek : Is(c, "DOCUMENT-END") /\ Skip(c)
    /\ event' = NullEvent
    /\ UNCHANGED <<state, stacks, directives, error>>

(* One turn of the loop of yaml_parser_process_directives, with            *)
(* yaml_parser_append_tag_directive.                                       *)
ProcessDirective ==
    /\ AtDocumentStart
    /\ \E c \in Peek :
          LET duplicate == IF Is(c, "VERSION-DIRECTIVE") THEN version
                           ELSE \E d \in tagDirectives : d.handle = c.token.data
              incompatible == Is(c, "VERSION-DIRECTIVE") /\ c.token.data # "1.1"
              entry == [handle |-> c.token.data, prefix |-> "document"]
          IN  /\ IsOneOf(c, DirectiveType)
              /\ IF duplicate \/ incompatible
                 THEN /\ Fail(IF duplicate THEN "duplicate directive"
                                           ELSE "incompatible version")
                      /\ Keep(c)
                      /\ version' = FALSE /\ declared' = {}
                      /\ UNCHANGED tagDirectives
                 ELSE /\ Skip(c)
                      /\ event' = NullEvent
                      /\ IF Is(c, "VERSION-DIRECTIVE")
                         THEN version' = TRUE /\ UNCHANGED <<declared, tagDirectives>>
                         ELSE /\ tagDirectives' = tagDirectives \cup {entry}
                              /\ declared' = declared \cup {entry}
                              /\ UNCHANGED version
                      /\ UNCHANGED <<state, error>>
    /\ UNCHANGED stacks

(* PEEK_TOKEN fails, at the start of the function or within its loops.     *)
DocumentStartFetchFails ==
    /\ AtDocumentStart
    /\ \E c \in Peek : FetchFails(c, states)
    /\ version' = FALSE /\ declared' = {}
    /\ UNCHANGED <<marks, tagDirectives>>

StartImplicitDocument ==
    /\ state = "IMPLICIT_DOCUMENT_START" /\ ~InDirectives
    /\ \E c \in Peek :
          /\ c.token # NoToken
          /\ ~IsOneOf(c, DirectiveType \cup {"DOCUMENT-START", "STREAM-END"})
          /\ Keep(c)
    /\ tagDirectives' = WithDefaults
    /\ states' = Append(states, "DOCUMENT_END")
    /\ state' = "BLOCK_NODE"
    /\ Emit("DOCUMENT-START", NoAnchor)
    /\ UNCHANGED <<marks, version, declared>>

StartExplicitDocument ==
    /\ AtDocumentStart
    /\ \E c \in Peek : Is(c, "DOCUMENT-START") /\ Skip(c)
    /\ tagDirectives' = WithDefaults
    /\ version' = FALSE /\ declared' = {}
    /\ states' = Append(states, "DOCUMENT_END")
    /\ state' = "DOCUMENT_CONTENT"
    /\ Emit("DOCUMENT-START", NoAnchor)
    /\ UNCHANGED marks

EndStream ==
    /\ AtDocumentStart /\ ~InDirectives
    /\ \E c \in Peek : Is(c, "STREAM-END") /\ Skip(c)
    /\ state' = "END"
    /\ Emit("STREAM-END", NoAnchor)
    /\ UNCHANGED <<stacks, directives>>

(* "did not find expected <document start>"                                *)
MissingDocumentStart ==
    /\ AtDocumentStart
    /\ \E c \in Peek :
          /\ c.token # NoToken
          /\ ~IsOneOf(c, DirectiveType \cup {"DOCUMENT-START"})
          /\ InDirectives \/ (state = "DOCUMENT_START"
                               /\ ~IsOneOf(c, {"STREAM-END", "DOCUMENT-END"}))
          /\ Keep(c)
    /\ Fail("syntax")
    /\ tagDirectives' = WithDefaults
    /\ version' = FALSE /\ declared' = {}
    /\ UNCHANGED stacks

ParseDocumentStart ==
    \/ SkipDocumentEnd \/ ProcessDirective \/ DocumentStartFetchFails
    \/ StartImplicitDocument \/ StartExplicitDocument
    \/ EndStream \/ MissingDocumentStart

ParseBlockNode ==
    /\ state = "BLOCK_NODE"
    /\ \E c \in Peek : ParseNode(c, states, TRUE, FALSE)
    /\ UNCHANGED <<marks, directives>>

ParseDocumentContent ==
    /\ state = "DOCUMENT_CONTENT"
    /\ \E c \in Peek :
          IF IsOneOf(c, DirectiveType \cup {"DOCUMENT-START", "DOCUMENT-END", "STREAM-END"})
          THEN Return(states) /\ EmptyScalar /\ Keep(c)
          ELSE ParseNode(c, states, TRUE, FALSE)
    /\ UNCHANGED <<marks, directives>>

(* Mutant of ParseDocumentEnd: the directives outlive their document.      *)
DocumentEndKeepsDirectives ==
    /\ state = "DOCUMENT_END"
    /\ \E c \in Peek :
          \/ FetchFails(c, states)
          \/ /\ c.token # NoToken
             /\ IF Is(c, "DOCUMENT-END") THEN Skip(c) ELSE Keep(c)
             /\ state' = "DOCUMENT_START"
             /\ Emit("DOCUMENT-END", NoAnchor)
             /\ UNCHANGED states
    /\ UNCHANGED <<marks, directives>>

ParseDocumentEnd ==
    /\ state = "DOCUMENT_END"
    /\ \E c \in Peek :
          \/ FetchFails(c, states) /\ UNCHANGED tagDirectives
          \/ /\ c.token # NoToken
             /\ IF Is(c, "DOCUMENT-END") THEN Skip(c) ELSE Keep(c)
             /\ tagDirectives' = {}
             /\ state' = "DOCUMENT_START"
             /\ Emit("DOCUMENT-END", NoAnchor)
             /\ UNCHANGED states
    /\ UNCHANGED <<marks, version, declared>>

-----------------------------------------------------------------------------
(***************************************************************************)
(* Block collections.                                                      *)
(***************************************************************************)
ParseBlockSequenceEntry(first) ==
    /\ state = IF first THEN "BLOCK_SEQUENCE_FIRST_ENTRY" ELSE "BLOCK_SEQUENCE_ENTRY"
    /\ \E e \in Entries(first) :
          \/ FetchFails(e.at, states) /\ marks' = e.marks
          \/ /\ Is(e.at, "BLOCK-ENTRY")
             /\ NodeAfter(e.at, {"BLOCK-ENTRY", "BLOCK-END"},
                          "BLOCK_SEQUENCE_ENTRY", TRUE, FALSE)
             /\ marks' = e.marks
          \/ Is(e.at, "BLOCK-END") /\ CloseCollection(e, "SEQUENCE-END")
          \/ /\ e.at.token # NoToken /\ ~IsOneOf(e.at, {"BLOCK-ENTRY", "BLOCK-END"})
             /\ Misplaced(e)
    /\ UNCHANGED directives

ParseIndentlessSequenceEntry ==
    /\ state = "INDENTLESS_SEQUENCE_ENTRY"
    /\ \E c \in Peek :
          \/ FetchFails(c, states)
          \/ /\ Is(c, "BLOCK-ENTRY")
             /\ NodeAfter(c, {"BLOCK-ENTRY", "KEY", "VALUE", "BLOCK-END"},
                          "INDENTLESS_SEQUENCE_ENTRY", TRUE, FALSE)
          \/ /\ c.token # NoToken /\ ~Is(c, "BLOCK-ENTRY")
             /\ Return(states)
             /\ Emit("SEQUENCE-END", NoAnchor)
             /\ Keep(c)
    /\ UNCHANGED <<marks, directives>>

(* Mutant of ParseBlockMappingKey: any other token is an absent key.       *)
LenientBlockMappingKey(first) ==
    /\ state = IF first THEN "BLOCK_MAPPING_FIRST_KEY" ELSE "BLOCK_MAPPING_KEY"
    /\ \E e \in Entries(first) :
          \/ FetchFails(e.at, states) /\ marks' = e.marks
          \/ /\ Is(e.at, "KEY")
             /\ NodeAfter(e.at, {"KEY", "VALUE", "BLOCK-END"},
                          "BLOCK_MAPPING_VALUE", TRUE, TRUE)
             /\ marks' = e.marks
          \/ Is(e.at, "BLOCK-END") /\ CloseCollection(e, "MAPPING-END")
          \/ /\ e.at.token # NoToken /\ ~IsOneOf(e.at, {"KEY", "BLOCK-END"})
             /\ AbsentNode("BLOCK_MAPPING_VALUE")
             /\ Keep(e.at)
             /\ marks' = e.marks
    /\ UNCHANGED directives

ParseBlockMappingKey(first) ==
    /\ state = IF first THEN "BLOCK_MAPPING_FIRST_KEY" ELSE "BLOCK_MAPPING_KEY"
    /\ \E e \in Entries(first) :
          \/ FetchFails(e.at, states) /\ marks' = e.marks
          \/ /\ Is(e.at, "KEY")
             /\ NodeAfter(e.at, {"KEY", "VALUE", "BLOCK-END"},
                          "BLOCK_MAPPING_VALUE", TRUE, TRUE)
             /\ marks' = e.marks
          \/ Is(e.at, "BLOCK-END") /\ CloseCollection(e, "MAPPING-END")
          \/ /\ e.at.token # NoToken /\ ~IsOneOf(e.at, {"KEY", "BLOCK-END"})
             /\ Misplaced(e)
    /\ UNCHANGED directives

ParseBlockMappingValue ==
    /\ state = "BLOCK_MAPPING_VALUE"
    /\ \E c \in Peek :
          \/ FetchFails(c, states)
          \/ /\ Is(c, "VALUE")
             /\ NodeAfter(c, {"KEY", "VALUE", "BLOCK-END"},
                          "BLOCK_MAPPING_KEY", TRUE, TRUE)
          \/ /\ c.token # NoToken /\ ~Is(c, "VALUE")
             /\ AbsentNode("BLOCK_MAPPING_KEY")
             /\ Keep(c)
    /\ UNCHANGED <<marks, directives>>

-----------------------------------------------------------------------------
(***************************************************************************)
(* Flow collections.                                                       *)
(***************************************************************************)

(* The cursors at an item of the collection, or at its end; every item but *)
(* the first must follow a ','.                                            *)
FlowItems(first, e) ==
    IF ~first /\ Is(e.at, "FLOW-ENTRY") THEN PeekAfter(e.at) ELSE {e.at}

(* Mutant of LacksComma: items need no ',' between them.                   *)
CommaOptional(first, e, end) == FALSE

LacksComma(first, e, end) ==
    ~first /\ e.at.token # NoToken /\ ~IsOneOf(e.at, {"FLOW-ENTRY", end})

ParseFlowSequenceEntry(first) ==
    /\ state = IF first THEN "FLOW_SEQUENCE_FIRST_ENTRY" ELSE "FLOW_SEQUENCE_ENTRY"
    /\ \E e \in Entries(first) :
          \/ LacksComma(first, e, "FLOW-SEQUENCE-END") /\ Misplaced(e)
          \/ /\ ~LacksComma(first, e, "FLOW-SEQUENCE-END")
             /\ \E c \in FlowItems(first, e) :
                   \/ FetchFails(c, states) /\ marks' = e.marks
                   \/ /\ Is(c, "KEY")
                      /\ state' = "FLOW_SEQUENCE_ENTRY_MAPPING_KEY"
                      /\ Emit("MAPPING-START", NoAnchor)
                      /\ Skip(c)
                      /\ marks' = e.marks
                      /\ UNCHANGED states
                   \/ /\ Is(c, "FLOW-SEQUENCE-END")
                      /\ CloseCollection([e EXCEPT !.at = c], "SEQUENCE-END")
                   \/ /\ c.token # NoToken /\ ~IsOneOf(c, {"KEY", "FLOW-SEQUENCE-END"})
                      /\ ParseNode(c, Append(states, "FLOW_SEQUENCE_ENTRY"), FALSE, FALSE)
                      /\ marks' = e.marks
    /\ UNCHANGED directives

(* The token that shows the key to be absent is skipped here. *)
ParseFlowSequenceEntryMappingKey ==
    /\ state = "FLOW_SEQUENCE_ENTRY_MAPPING_KEY"
    /\ \E c \in Peek :
          \/ FetchFails(c, states)
          \/ /\ IsOneOf(c, {"VALUE", "FLOW-ENTRY", "FLOW-SEQUENCE-END"})
             /\ AbsentNode("FLOW_SEQUENCE_ENTRY_MAPPING_VALUE")
             /\ Skip(c)
          \/ /\ c.token # NoToken
             /\ ~IsOneOf(c, {"VALUE", "FLOW-ENTRY", "FLOW-SEQUENCE-END"})
             /\ ParseNode(c, Append(states, "FLOW_SEQUENCE_ENTRY_MAPPING_VALUE"), FALSE, FALSE)
    /\ UNCHANGED <<marks, directives>>

ParseFlowSequenceEntryMappingValue ==
    /\ state = "FLOW_SEQUENCE_ENTRY_MAPPING_VALUE"
    /\ \E c \in Peek :
          \/ FetchFails(c, states)
          \/ /\ Is(c, "VALUE")
             /\ NodeAfter(c, {"FLOW-ENTRY", "FLOW-SEQUENCE-END"},
                          "FLOW_SEQUENCE_ENTRY_MAPPING_END", FALSE, FALSE)
          \/ /\ c.token # NoToken /\ ~Is(c, "VALUE")
             /\ AbsentNode("FLOW_SEQUENCE_ENTRY_MAPPING_END")
             /\ Keep(c)
    /\ UNCHANGED <<marks, directives>>

ParseFlowSequenceEntryMappingEnd ==
    /\ state = "FLOW_SEQUENCE_ENTRY_MAPPING_END"
    /\ \E c \in Peek :
          \/ FetchFails(c, states)
          \/ /\ c.token # NoToken
             /\ state' = "FLOW_SEQUENCE_ENTRY"
             /\ Emit("MAPPING-END", NoAnchor)
             /\ Keep(c)
             /\ UNCHANGED states
    /\ UNCHANGED <<marks, directives>>

ParseFlowMappingKey(first) ==
    /\ state = IF first THEN "FLOW_MAPPING_FIRST_KEY" ELSE "FLOW_MAPPING_KEY"
    /\ \E e \in Entries(first) :
          \/ LacksComma(first, e, "FLOW-MAPPING-END") /\ Misplaced(e)
          \/ /\ ~LacksComma(first, e, "FLOW-MAPPING-END")
             /\ \E c \in FlowItems(first, e) :
                   \/ FetchFails(c, states) /\ marks' = e.marks
                   \/ /\ Is(c, "KEY")
                      /\ NodeAfter(c, {"VALUE", "FLOW-ENTRY", "FLOW-MAPPING-END"},
                                   "FLOW_MAPPING_VALUE", FALSE, FALSE)
                      /\ marks' = e.marks
                   \/ /\ Is(c, "FLOW-MAPPING-END")
                      /\ CloseCollection([e EXCEPT !.at = c], "MAPPING-END")
                   \/ /\ c.token # NoToken /\ ~IsOneOf(c, {"KEY", "FLOW-MAPPING-END"})
                      /\ ParseNode(c, Append(states, "FLOW_MAPPING_EMPTY_VALUE"), FALSE, FALSE)
                      /\ marks' = e.marks
    /\ UNCHANGED directives

ParseFlowMappingValue(empty) ==
    /\ state = IF empty THEN "FLOW_MAPPING_EMPTY_VALUE" ELSE "FLOW_MAPPING_VALUE"
    /\ \E c \in Peek :
          \/ FetchFails(c, states)
          \/ /\ ~empty /\ Is(c, "VALUE")
             /\ NodeAfter(c, {"FLOW-ENTRY", "FLOW-MAPPING-END"},
                          "FLOW_MAPPING_KEY", FALSE, FALSE)
          \/ /\ c.token # NoToken /\ (empty \/ ~Is(c, "VALUE"))
             /\ AbsentNode("FLOW_MAPPING_KEY")
             /\ Keep(c)
    /\ UNCHANGED <<marks, directives>>

-----------------------------------------------------------------------------
StateMachine ==
    \/ ParseStreamStart
    \/ ParseDocumentStart
    \/ ParseBlockNode
    \/ ParseDocumentContent
    \/ ParseDocumentEnd
    \/ ParseIndentlessSequenceEntry
    \/ ParseBlockMappingValue
    \/ ParseFlowSequenceEntryMappingKey
    \/ ParseFlowSequenceEntryMappingValue
    \/ ParseFlowSequenceEntryMappingEnd
    \/ \E first \in BOOLEAN :
          \/ ParseBlockSequenceEntry(first)
          \/ ParseBlockMappingKey(first)
          \/ ParseFlowSequenceEntry(first)
          \/ ParseFlowMappingKey(first)
          \/ ParseFlowMappingValue(first)

Finished == streamEndProduced \/ error # "none" \/ state = "END"

(* yaml_parser_parse: one call. *)
Parse == ~Finished /\ StateMachine

NoMoreEvents == /\ Finished
                /\ event' = NullEvent
                /\ UNCHANGED <<state, stacks, directives, tokens, streamEndProduced, error>>

Next == Parse \/ NoMoreEvents

Spec == Init /\ [][Next]_vars

(* The caller's loop (parser_parse in interop.cpp) goes on calling.        *)
FairSpec == Spec /\ WF_vars(Parse)

-----------------------------------------------------------------------------
(***************************************************************************)
(* Properties.                                                             *)
(***************************************************************************)

(* Type correctness of the parser object.                                  *)
TypeOK ==
    /\ state \in State
    /\ states \in Seq(State)
    /\ marks \in Seq(BlockOpener \cup FlowOpener)
    /\ tagDirectives \subseteq TagDirective
    /\ declared \subseteq TagDirective
    /\ version \in BOOLEAN
    /\ head \in Token \cup {NoToken}
    /\ scan \in ScanState
    /\ streamEndProduced \in BOOLEAN
    /\ error \in Error
    /\ event \in Event

(* parse_node leaves the opening token of a collection in the queue, so a  *)
(* FIRST state, which reads token->start_mark without a check for NULL,    *)
(* finds its own opening token there and fetches nothing.                  *)
OpenerAtHead ==
    error = "none" /\ state \in FirstState =>
        IsOneOf(Current, BlockOpener \cup FlowOpener) /\ OpenerState(head.type) = state

(* POP never meets an empty stack: inside a document the bottom of         *)
(* parser->states is DOCUMENT_END, there and nowhere else, and every other *)
(* entry is the continuation of an open collection; outside it is empty.   *)
Continuation == (BlockState \cup FlowState) \ (FirstState \cup {"FLOW_SEQUENCE_ENTRY_MAPPING_KEY"})

StackDiscipline ==
    IF state \in OutsideState \cup {"DOCUMENT_END"}
    THEN states = <<>>
    ELSE /\ states # <<>>
         /\ states[1] = "DOCUMENT_END"
         /\ \A i \in 2..Len(states) : states[i] \in Continuation

(* The opening token of the collection a state or a return state is in.    *)
OpenerOf(q) ==
    CASE q = "BLOCK_SEQUENCE_ENTRY" -> "BLOCK-SEQUENCE-START"
      [] q \in {"BLOCK_MAPPING_KEY", "BLOCK_MAPPING_VALUE"} -> "BLOCK-MAPPING-START"
      [] q \in {"FLOW_SEQUENCE_ENTRY", "FLOW_SEQUENCE_ENTRY_MAPPING_KEY",
                "FLOW_SEQUENCE_ENTRY_MAPPING_VALUE", "FLOW_SEQUENCE_ENTRY_MAPPING_END"}
           -> "FLOW-SEQUENCE-START"
      [] q \in {"FLOW_MAPPING_KEY", "FLOW_MAPPING_VALUE", "FLOW_MAPPING_EMPTY_VALUE"}
           -> "FLOW-MAPPING-START"

(* The states that own a mark: all of a collection but the FIRST ones,     *)
(* which have not pushed it yet.  An indentless sequence has none.         *)
OwnsMark(q) == q \in Continuation \cup {"FLOW_SEQUENCE_ENTRY_MAPPING_KEY"}
                /\ q # "INDENTLESS_SEQUENCE_ENTRY"

MarkOf(q) == IF OwnsMark(q) THEN <<OpenerOf(q)>> ELSE <<>>

(* The marks stack holds the start of each open collection, in order: the  *)
(* mark a closing token drops, or an error names, is that of the           *)
(* collection it closes or complains about.                                *)
MarksOfOpenCollections ==
    error = "none" =>
        marks = FlattenSeq([i \in 1..Len(states) |-> MarkOf(states[i])]) \o MarkOf(state)

(* Tag directives have the scope of a document: between documents only     *)
(* those read for the next one are present; within one every handle has    *)
(* one meaning and the default handles are defined.                        *)
DirectiveScope ==
    /\ \A d1, d2 \in tagDirectives : d1.handle = d2.handle => d1 = d2
    /\ error = "none" /\ state \in OutsideState => tagDirectives = declared
    /\ state \notin OutsideState =>
          /\ DefaultHandles \subseteq {d.handle : d \in tagDirectives}
          /\ declared = {}

(* Once the scanner has delivered STREAM-END, finitely many calls bring    *)
(* the event STREAM-END or an error: the only two ways out of the caller's *)
(* loop, which otherwise spins on calls that return no event.              *)
EndOfInputEndsStream ==
    (head # NoToken /\ head.type = "STREAM-END") ~> (state = "END" \/ error # "none")

-----------------------------------------------------------------------------
(***************************************************************************)
(* Refinement.  The constructs a state, or a return state, has open: a     *)
(* single pair in a flow sequence is a mapping inside the sequence.        *)
(***************************************************************************)
Constructs(q) ==
    CASE q \in OutsideState -> <<>>
      [] q \in {"BLOCK_NODE", "DOCUMENT_CONTENT"} -> <<>>
      [] q = "DOCUMENT_END" -> <<"docEnd">>
      [] q \in {"BLOCK_SEQUENCE_FIRST_ENTRY", "BLOCK_SEQUENCE_ENTRY",
                "INDENTLESS_SEQUENCE_ENTRY",
                "FLOW_SEQUENCE_FIRST_ENTRY", "FLOW_SEQUENCE_ENTRY"} -> <<"seq">>
      [] q \in {"BLOCK_MAPPING_FIRST_KEY", "BLOCK_MAPPING_KEY",
                "FLOW_MAPPING_FIRST_KEY", "FLOW_MAPPING_KEY"} -> <<"key">>
      [] q \in {"BLOCK_MAPPING_VALUE", "FLOW_MAPPING_VALUE",
                "FLOW_MAPPING_EMPTY_VALUE"} -> <<"value">>
      [] q \in {"FLOW_SEQUENCE_ENTRY_MAPPING_KEY",
                "FLOW_SEQUENCE_ENTRY_MAPPING_END"} -> <<"seq", "key">>
      [] q = "FLOW_SEQUENCE_ENTRY_MAPPING_VALUE" -> <<"seq", "value">>

openConstructs ==
    IF error # "none" THEN <<>>
    ELSE IF state \in {"BLOCK_NODE", "DOCUMENT_CONTENT"} THEN <<"root">>
    ELSE FlattenSeq([i \in 1..Len(states) |-> Constructs(states[i])]) \o Constructs(state)

streamPhase == IF error # "none" THEN "aborted"
               ELSE CASE state = "STREAM_START" -> "before"
                      [] state = "END"          -> "ended"
                      [] OTHER                  -> "stream"

Stream == INSTANCE EventStream WITH phase <- streamPhase, open <- openConstructs

(* Whatever tokens the scanner delivers, the events of successive calls    *)
(* form a stream: collections nest and close, mappings alternate keys and  *)
(* values, a document has one root node, and an error ends everything.     *)
EventsFormStream == Stream!Spec
=============================================================================
