---------------------------- MODULE ParserProofs ----------------------------
(***************************************************************************)
(* Proofs about Parser, for every scanner (Supply) and every value of the  *)
(* constants: the parser object stays well-typed, POP never meets an empty *)
(* stack, and a FIRST state always finds its opening token in the queue.   *)
(***************************************************************************)
EXTENDS Parser, SequenceFacts, TLAPS

-----------------------------------------------------------------------------
(***************************************************************************)
(* The stack of return states.                                             *)
(***************************************************************************)
Inside == DocumentState \cup BlockState \cup FlowState

(* A stack of return states inside a document. *)
GoodStack(s) == /\ s \in Seq(State)
                /\ s # <<>>
                /\ s[1] = "DOCUMENT_END"
                /\ \A i \in 2..Len(s) : s[i] \in Continuation

(* The stack belongs to the state. *)
Agree(q, s) == IF q \in OutsideState \cup {"DOCUMENT_END"} THEN s = <<>> ELSE GoodStack(s)

(* PUSH of a return state keeps the shape of the stack. *)
LEMMA PushGood ==
    ASSUME NEW s, NEW q \in Continuation, GoodStack(s)
    PROVE  GoodStack(Append(s, q))
<1>1. q \in State
  BY DEF Continuation, State
<1>2. /\ Append(s, q) \in Seq(State)
      /\ Append(s, q) # <<>>
      /\ Len(Append(s, q)) = Len(s) + 1
      /\ \A i \in 1..Len(s) : Append(s, q)[i] = s[i]
      /\ Append(s, q)[Len(s) + 1] = q
  BY <1>1, AppendProperties DEF GoodStack
<1>3. Len(s) \in Nat /\ Len(s) >= 1
  BY FrontProperties DEF GoodStack
<1> QED BY <1>2, <1>3 DEF GoodStack

(* POP yields a state whose stack is the rest. *)
LEMMA PopGood ==
    ASSUME NEW s, GoodStack(s)
    PROVE  /\ Last(s) \in State \ FirstState
           /\ Last(s) \in Inside
           /\ Front(s) \in Seq(State)
           /\ Agree(Last(s), Front(s))
<1>1. /\ Front(s) \in Seq(State)
      /\ Len(s) \in Nat /\ Len(s) >= 1
      /\ Last(s) \in State
      /\ Len(Front(s)) = Len(s) - 1
      /\ \A i \in 1..Len(s) - 1 : Front(s)[i] = s[i]
  BY FrontProperties DEF GoodStack
<1>2. CASE Len(s) = 1
  <2>1. Last(s) = "DOCUMENT_END"
    BY <1>2 DEF GoodStack, Last
  <2>2. Front(s) = <<>>
    BY <1>1, <1>2, EmptySeq
  <2> QED BY <1>1, <2>1, <2>2 DEF Agree, FirstState, Inside, DocumentState
<1>3. CASE Len(s) > 1
  <2>1. Last(s) \in Continuation
    BY <1>1, <1>3 DEF GoodStack, Last
  <2>2. GoodStack(Front(s))
    <3>1. Front(s) # <<>>
      BY <1>1, <1>3, EmptySeq
    <3> QED BY <1>1, <1>3, <3>1 DEF GoodStack
  <2>3. /\ Last(s) \notin OutsideState \cup {"DOCUMENT_END"}
        /\ Last(s) \notin FirstState
        /\ Last(s) \in Inside
    BY <2>1 DEF Continuation, BlockState, FlowState, OutsideState, FirstState, Inside
  <2> QED BY <1>1, <2>2, <2>3 DEF Agree
<1> QED BY <1>1, <1>2, <1>3

-----------------------------------------------------------------------------
(***************************************************************************)
(* Tokens and cursors.                                                     *)
(***************************************************************************)

(* The data a token carries by its type. *)
LEMMA TokenData ==
    ASSUME NEW t \in Token
    PROVE  /\ t.type \in {"ALIAS", "ANCHOR"} => t.data \in Anchors
           /\ t.type = "TAG" => t.data \in Handles \cup {Verbatim}
           /\ t.type = "TAG-DIRECTIVE" => t.data \in Handles
BY DEF Token, BareTokenType

(* What the scanner delivers are cursors. *)
LEMMA PeekAfterCursor ==
    ASSUME NEW c \in Cursor
    PROVE  PeekAfter(c) \subseteq Cursor
BY SupplyAssumption DEF PeekAfter, Cursor

(* PEEK_TOKEN finds a cursor: the queued token or the scanner's next.       *)
LEMMA PeekCursor ==
    ASSUME TypeOK
    PROVE  Peek \subseteq Cursor
<1>1. Current \in Cursor
  BY DEF TypeOK, Current, Cursor
<1>2. Supply(scan) \subseteq Cursor
  BY SupplyAssumption DEF TypeOK
<1> QED BY <1>1, <1>2 DEF Peek

(* Reading properties ends at a cursor, with an anchor and a tag. *)
PropertyRecord(p) == /\ p.next \in Cursor
                     /\ p.anchor \in Anchors \cup {NoAnchor}

(* Whatever order anchor and tag come in, they are read as such.           *)
LEMMA PropertiesTyped ==
    ASSUME NEW c \in Cursor, NEW p \in Properties(c)
    PROVE  PropertyRecord(p)
<1>1. CASE Is(c, "ANCHOR")
  <2>1. c.token.data \in Anchors
    BY <1>1, TokenData DEF Is, Cursor
  <2>2. p \in AfterAnchor(c)
    BY <1>1 DEF Properties
  <2>3. PICK d \in PeekAfter(c) :
           \/ p = Read(c.token.data, NoTag, d)
           \/ \E e \in PeekAfter(d) : p = Read(c.token.data, d.token.data, e)
    BY <2>2 DEF AfterAnchor
  <2>4. d \in Cursor /\ PeekAfter(d) \subseteq Cursor
    BY PeekAfterCursor
  <2> QED BY <2>1, <2>3, <2>4 DEF PropertyRecord, Read
<1>2. CASE ~Is(c, "ANCHOR") /\ Is(c, "TAG")
  <2>1. p \in AfterTag(c)
    BY <1>2 DEF Properties
  <2>2. PICK d \in PeekAfter(c) :
           \/ p = Read(NoAnchor, c.token.data, d)
           \/ Is(d, "ANCHOR") /\ \E e \in PeekAfter(d) : p = Read(d.token.data, c.token.data, e)
    BY <2>1 DEF AfterTag
  <2>3. d \in Cursor /\ PeekAfter(d) \subseteq Cursor
    BY PeekAfterCursor
  <2>4. Is(d, "ANCHOR") => d.token.data \in Anchors
    BY <2>3, TokenData DEF Is, Cursor
  <2> QED BY <2>2, <2>3, <2>4 DEF PropertyRecord, Read
<1>3. CASE ~Is(c, "ANCHOR") /\ ~Is(c, "TAG")
  BY <1>3 DEF Properties, PropertyRecord, Read
<1> QED BY <1>1, <1>2, <1>3

-----------------------------------------------------------------------------
(***************************************************************************)
(* One call of parse_node.                                                 *)
(***************************************************************************)

(* The part of the invariant that a node or an entry can disturb. *)
NodeOutcome == /\ state' \in State
               /\ state \in Inside => state' \in Inside
               /\ Agree(state', states') /\ states' \in Seq(State)
               /\ head' \in Token \cup {NoToken}
               /\ scan' \in ScanState
               /\ streamEndProduced' \in BOOLEAN
               /\ error' \in Error
               /\ event' \in Event
               /\ OpenerAtHead'

(* The tokens after a call. *)
QueueTyped == /\ head' \in Token \cup {NoToken}
              /\ scan' \in ScanState
              /\ streamEndProduced' \in BOOLEAN

(* A handler that keeps or skips a token leaves the queue well-typed.      *)
LEMMA QueueTyping ==
    ASSUME TypeOK, NEW c \in Cursor, Keep(c) \/ Skip(c)
    PROVE  QueueTyped
BY DEF TypeOK, Cursor, Keep, Skip, QueueTyped

(* A call that fails, or pops: the state is not a FIRST one, or unused.    *)
LEMMA FailOutcome ==
    ASSUME TypeOK, NEW c \in Cursor, NEW stack, NEW problem \in Error \ {"none"},
           Fail(problem), states' = stack, stack \in Seq(State), Agree(state, stack),
           Keep(c)
    PROVE  NodeOutcome
<1>1. QueueTyped
  BY QueueTyping
<1>2. error' \in Error /\ error' # "none" /\ state' = state
  BY DEF Fail
<1>3. event' \in Event
  BY DEF Fail, NullEvent, Event, EventType
<1> QED BY <1>1, <1>2, <1>3 DEF NodeOutcome, QueueTyped, OpenerAtHead, TypeOK

(* A node that ends pops a state inside the document, with its own stack.  *)
LEMMA ReturnOutcome ==
    ASSUME TypeOK, NEW c \in Cursor, NEW stack, GoodStack(stack),
           NEW type \in EventType, NEW anchor \in Anchors \cup {NoAnchor},
           Return(stack), Emit(type, anchor), Keep(c) \/ Skip(c)
    PROVE  NodeOutcome
<1>1. QueueTyped
  BY QueueTyping
<1>2. /\ state' \in State \ FirstState
      /\ state' \in Inside
      /\ states' \in Seq(State)
      /\ Agree(state', states')
  BY PopGood DEF Return
<1>3. error' \in Error /\ event' \in Event
  BY DEF Emit, TypeOK, Event
<1> QED BY <1>1, <1>2, <1>3 DEF NodeOutcome, QueueTyped, OpenerAtHead

(* Going on in a state that is no FIRST one, with an event. *)
LEMMA ContinueOutcome ==
    ASSUME TypeOK, NEW c \in Cursor, NEW newState \in Inside \ (FirstState \cup {"DOCUMENT_END"}),
           GoodStack(states),
           NEW type \in EventType, NEW anchor \in Anchors \cup {NoAnchor},
           state' = newState, UNCHANGED states, Emit(type, anchor), Keep(c) \/ Skip(c)
    PROVE  NodeOutcome
<1>1. QueueTyped
  BY QueueTyping
<1>2. /\ newState \in State
      /\ newState \notin OutsideState \cup {"DOCUMENT_END"}
  BY DEF Inside, State, OutsideState, DocumentState, BlockState, FlowState
<1>3. Agree(state', states')
  BY <1>2 DEF Agree
<1>4. error' \in Error /\ event' \in Event
  BY DEF Emit, TypeOK, Event
<1> QED BY <1>1, <1>2, <1>3, <1>4 DEF NodeOutcome, QueueTyped, OpenerAtHead, TypeOK

(* Opening a collection: a FIRST state keeps its opening token queued.     *)
LEMMA OpenOutcome ==
    ASSUME TypeOK, NEW p, p.next \in Cursor, p.anchor \in Anchors \cup {NoAnchor},
           NEW stack, GoodStack(stack),
           NEW q \in Inside \ {"DOCUMENT_END"}, NEW type \in EventType,
           q \in FirstState => /\ IsOneOf(p.next, BlockOpener \cup FlowOpener)
                               /\ OpenerState(p.next.token.type) = q,
           OpenCollection(p, stack, q, type)
    PROVE  NodeOutcome
<1>1. QueueTyped
  BY QueueTyping DEF OpenCollection
<1>2. q \in State /\ q \notin OutsideState \cup {"DOCUMENT_END"}
  BY DEF Inside, State, OutsideState, DocumentState, BlockState, FlowState
<1>3. Agree(state', states') /\ states' \in Seq(State)
  BY <1>2 DEF Agree, OpenCollection, GoodStack
<1>4. error' \in Error /\ event' \in Event
  BY DEF OpenCollection, Emit, TypeOK, Event
<1>5. OpenerAtHead'
  <2>1. state' = q /\ Current' = [token |-> p.next.token, scan |-> p.next.scan]
    BY DEF OpenCollection, Keep, Current
  <2>2. head' = p.next.token
    BY DEF OpenCollection, Keep
  <2> QED BY <2>1, <2>2 DEF OpenerAtHead, IsOneOf
<1> QED BY <1>1, <1>2, <1>3, <1>4, <1>5 DEF NodeOutcome, QueueTyped, OpenCollection

(* The state and event that an opening token leads to. *)
LEMMA OpenerTyped ==
    ASSUME NEW t \in BlockOpener \cup FlowOpener
    PROVE  /\ OpenerState(t) \in FirstState
           /\ OpenerState(t) \in Inside \ {"DOCUMENT_END"}
           /\ OpenerEvent(t) \in EventType
BY DEF BlockOpener, FlowOpener, OpenerState, OpenerEvent, FirstState, Inside,
       BlockState, FlowState, EventType

(* parse_node after the properties: each kind of node, and its errors.     *)
LEMMA NodeContentOutcome ==
    ASSUME TypeOK, state \in Inside \ {"DOCUMENT_END"},
           NEW p, PropertyRecord(p), p.next.token # NoToken,
           NEW stack, GoodStack(stack),
           NEW block \in BOOLEAN, NEW indentless \in BOOLEAN,
           NodeContent(p, stack, block, indentless)
    PROVE  NodeOutcome
<1> DEFINE c == p.next
           startsIndentless == indentless /\ Is(c, "BLOCK-ENTRY")
           opens == ~startsIndentless /\ IsOneOf(c, Openers(block))
<1>1. c \in Cursor /\ p.anchor \in Anchors \cup {NoAnchor}
  BY DEF PropertyRecord
<1>2. Agree(state, stack) /\ stack \in Seq(State)
  BY DEF Agree, Inside, OutsideState, DocumentState, BlockState, FlowState, GoodStack
<1>3. {"SCALAR", "SEQUENCE-START"} \subseteq EventType
  BY DEF EventType
<1>4. {"undefined tag handle", "syntax"} \subseteq Error \ {"none"}
  BY DEF Error
<1>5. CASE ~HandleDefined(p.tag)
  <2>1. Fail("undefined tag handle") /\ states' = stack /\ Keep(c)
    BY <1>5 DEF NodeContent
  <2> QED BY <1>1, <1>2, <1>4, <2>1, FailOutcome
<1>6. CASE HandleDefined(p.tag) /\ startsIndentless
           /\ OpenCollection(p, stack, "INDENTLESS_SEQUENCE_ENTRY", "SEQUENCE-START")
  <2>1. /\ "INDENTLESS_SEQUENCE_ENTRY" \in Inside \ {"DOCUMENT_END"}
        /\ "INDENTLESS_SEQUENCE_ENTRY" \notin FirstState
    BY DEF Inside, BlockState, FirstState
  <2> QED BY <1>1, <1>3, <1>6, <2>1, OpenOutcome
<1>7. CASE Return(stack) /\ Emit("SCALAR", p.anchor) /\ (Skip(c) \/ Keep(c))
  BY <1>1, <1>3, <1>7, ReturnOutcome
<1>8. CASE opens /\ OpenCollection(p, stack, OpenerState(c.token.type), OpenerEvent(c.token.type))
  <2>1. c.token.type \in BlockOpener \cup FlowOpener /\ IsOneOf(c, BlockOpener \cup FlowOpener)
    BY <1>8 DEF Openers, IsOneOf
  <2>2. /\ OpenerState(c.token.type) \in Inside \ {"DOCUMENT_END"}
        /\ OpenerEvent(c.token.type) \in EventType
    BY <2>1, OpenerTyped
  <2> QED BY <1>1, <1>8, <2>1, <2>2, OpenOutcome
<1>9. CASE Fail("syntax") /\ states' = stack /\ Keep(c)
  BY <1>1, <1>2, <1>4, <1>9, FailOutcome
<1> QED BY <1>5, <1>6, <1>7, <1>8, <1>9 DEF NodeContent

(* parse_node keeps the invariant, for any good stack it is entered with.  *)
LEMMA ParseNodeOutcome ==
    ASSUME TypeOK, state \in Inside \ {"DOCUMENT_END"},
           NEW c \in Cursor, NEW stack, GoodStack(stack),
           NEW block \in BOOLEAN, NEW indentless \in BOOLEAN,
           ParseNode(c, stack, block, indentless)
    PROVE  NodeOutcome
<1>1. CASE Is(c, "ALIAS") /\ Return(stack) /\ Emit("ALIAS", c.token.data) /\ Skip(c)
  <2>1. c.token.data \in Anchors
    BY <1>1, TokenData DEF Is, Cursor
  <2>2. "ALIAS" \in EventType
    BY DEF EventType
  <2> QED BY <1>1, <2>1, <2>2, ReturnOutcome
<1>2. ASSUME NEW p \in Properties(c), FetchFails(p.next, stack)
      PROVE  NodeOutcome
  <2>1. p.next \in Cursor
    BY PropertiesTyped DEF PropertyRecord
  <2>2. Agree(state, stack) /\ stack \in Seq(State)
    BY DEF Agree, Inside, OutsideState, DocumentState, BlockState, FlowState, GoodStack
  <2>3. "fetch" \in Error \ {"none"}
    BY DEF Error
  <2> QED BY <1>2, <2>1, <2>2, <2>3, FailOutcome DEF FetchFails
<1>3. ASSUME NEW p \in Properties(c), p.next.token # NoToken,
             NodeContent(p, stack, block, indentless)
      PROVE  NodeOutcome
  BY <1>3, PropertiesTyped, NodeContentOutcome
<1> QED BY <1>1, <1>2, <1>3 DEF ParseNode

(* An entry's indicator followed by its node, or by none. *)
LEMMA NodeAfterOutcome ==
    ASSUME TypeOK, state \in Inside \ {"DOCUMENT_END"}, GoodStack(states),
           NEW c \in Cursor, NEW absent, NEW newState \in Continuation,
           NEW block \in BOOLEAN, NEW indentless \in BOOLEAN,
           NodeAfter(c, absent, newState, block, indentless)
    PROVE  NodeOutcome
<1>1. PICK d \in PeekAfter(c) :
         \/ FetchFails(d, states)
         \/ AbsentNode(newState) /\ Keep(d)
         \/ ParseNode(d, Append(states, newState), block, indentless)
  BY DEF NodeAfter
<1>2. d \in Cursor
  BY PeekAfterCursor
<1>3. CASE FetchFails(d, states)
  <2>1. Agree(state, states) /\ states \in Seq(State)
    BY DEF Agree, Inside, OutsideState, DocumentState, BlockState, FlowState, GoodStack
  <2>2. "fetch" \in Error \ {"none"}
    BY DEF Error
  <2> QED BY <1>2, <1>3, <2>1, <2>2, FailOutcome DEF FetchFails
<1>4. CASE AbsentNode(newState) /\ Keep(d)
  <2>1. newState \in Inside \ (FirstState \cup {"DOCUMENT_END"})
    BY DEF Continuation, Inside, BlockState, FlowState
  <2>2. "SCALAR" \in EventType
    BY DEF EventType
  <2> QED BY <1>2, <1>4, <2>1, <2>2, ContinueOutcome DEF AbsentNode, EmptyScalar
<1>5. CASE ParseNode(d, Append(states, newState), block, indentless)
  <2>1. GoodStack(Append(states, newState))
    BY PushGood
  <2> QED BY <1>2, <1>5, <2>1, ParseNodeOutcome
<1> QED BY <1>1, <1>3, <1>4, <1>5

-----------------------------------------------------------------------------
(***************************************************************************)
(* The inductive invariant.                                                *)
(***************************************************************************)
Inv == TypeOK /\ StackDiscipline /\ OpenerAtHead /\ DirectiveScope

Opener == BlockOpener \cup FlowOpener

(* A call that leaves the directives alone. *)
EntryOutcome == NodeOutcome /\ marks' \in Seq(Opener)

(* What a call inside a document must show to preserve the invariant.      *)
LEMMA EntryPreservesInv ==
    ASSUME Inv, state \in Inside, EntryOutcome, UNCHANGED directives
    PROVE  Inv'
<1>1. TypeOK' /\ StackDiscipline' /\ OpenerAtHead'
  BY DEF EntryOutcome, NodeOutcome, Inv, TypeOK, StackDiscipline, Agree, GoodStack, Opener, directives
<1>2. state \notin OutsideState /\ state' \notin OutsideState
  BY DEF EntryOutcome, NodeOutcome, Inside, OutsideState, DocumentState, BlockState, FlowState
<1>3. DirectiveScope'
  BY <1>2 DEF Inv, DirectiveScope, directives
<1> QED BY <1>1, <1>3 DEF Inv

(* Inside a document the return states are a good stack. *)
LEMMA InsideStack ==
    ASSUME Inv, state \in Inside \ {"DOCUMENT_END"}
    PROVE  GoodStack(states) /\ Agree(state, states) /\ states \in Seq(State)
<1>1. state \notin OutsideState \cup {"DOCUMENT_END"}
  BY DEF Inside, OutsideState, DocumentState, BlockState, FlowState
<1> QED BY <1>1 DEF Inv, TypeOK, StackDiscipline, GoodStack, Agree

(* A null token fails the call and leaves the parser as it was.            *)
LEMMA FetchFailsOutcome ==
    ASSUME Inv, NEW c \in Cursor, FetchFails(c, states)
    PROVE  NodeOutcome
<1>1. Agree(state, states) /\ states \in Seq(State)
  BY DEF Inv, TypeOK, StackDiscipline, Agree, GoodStack
<1>2. "fetch" \in Error \ {"none"} /\ TypeOK
  BY DEF Error, Inv
<1> QED BY <1>1, <1>2, FailOutcome DEF FetchFails

(* Entering a collection's state function: the marks hold opening tokens.  *)
LEMMA EntriesTyped ==
    ASSUME Inv, error = "none", NEW first \in BOOLEAN, first => state \in FirstState,
           NEW e \in Entries(first)
    PROVE  e.at \in Cursor /\ e.marks \in Seq(Opener)
<1>1. TypeOK /\ marks \in Seq(Opener)
  BY DEF Inv, TypeOK, Opener
<1>2. CASE first
  <2>1. IsOneOf(Current, Opener)
    BY <1>2 DEF Inv, OpenerAtHead, Opener
  <2>2. Peek = {Current}
    BY <2>1 DEF IsOneOf, Current, Peek
  <2>3. PICK c \in Peek : \E d \in PeekAfter(c) : e = [marks |-> Append(marks, c.token.type), at |-> d]
    BY <1>2 DEF Entries
  <2>4. c = Current /\ c \in Cursor
    BY <1>1, <2>2, PeekCursor
  <2>5. PeekAfter(c) \subseteq Cursor
    BY <2>4, PeekAfterCursor
  <2>6. Append(marks, c.token.type) \in Seq(Opener)
    BY <1>1, <2>1, <2>4, AppendProperties DEF IsOneOf
  <2> QED BY <2>3, <2>5, <2>6
<1>3. CASE ~first
  <2>1. Peek \subseteq Cursor
    BY <1>1, PeekCursor
  <2> QED BY <1>1, <1>3, <2>1 DEF Entries
<1> QED BY <1>2, <1>3

(* A closing token pops the collection's mark and return state.            *)
LEMMA CloseOutcome ==
    ASSUME Inv, state \in Inside \ {"DOCUMENT_END"},
           NEW e, e.at \in Cursor, e.marks \in Seq(Opener),
           NEW type \in EventType, CloseCollection(e, type)
    PROVE  EntryOutcome
<1>1. marks' \in Seq(Opener)
  BY FrontProperties DEF CloseCollection
<1>2. NodeOutcome
  BY InsideStack, ReturnOutcome DEF CloseCollection, Inv
<1> QED BY <1>1, <1>2 DEF EntryOutcome

(* A token the collection cannot take pops the mark and fails.             *)
LEMMA MisplacedOutcome ==
    ASSUME Inv, state \in Inside \ {"DOCUMENT_END"},
           NEW e, e.at \in Cursor, e.marks \in Seq(Opener), Misplaced(e)
    PROVE  EntryOutcome
<1>1. marks' \in Seq(Opener)
  BY FrontProperties DEF Misplaced
<1>2. "syntax" \in Error \ {"none"}
  BY DEF Error
<1>3. NodeOutcome
  BY <1>2, InsideStack, FailOutcome DEF Misplaced, Inv
<1> QED BY <1>1, <1>3 DEF EntryOutcome

-----------------------------------------------------------------------------
(***************************************************************************)
(* One lemma per state function.                                           *)
(***************************************************************************)
LEMMA BlockSequenceEntryStep ==
    ASSUME Inv, error = "none", NEW first \in BOOLEAN, ParseBlockSequenceEntry(first)
    PROVE  Inv'
<1>1. state \in Inside \ {"DOCUMENT_END"} /\ (first => state \in FirstState)
  BY DEF ParseBlockSequenceEntry, Inside, BlockState, FirstState
<1>2. TypeOK /\ GoodStack(states)
  BY <1>1, InsideStack DEF Inv
<1>3. PICK e \in Entries(first) :
         \/ FetchFails(e.at, states) /\ marks' = e.marks
         \/ /\ NodeAfter(e.at, {"BLOCK-ENTRY", "BLOCK-END"}, "BLOCK_SEQUENCE_ENTRY", TRUE, FALSE)
            /\ marks' = e.marks
         \/ CloseCollection(e, "SEQUENCE-END")
         \/ Misplaced(e)
  BY DEF ParseBlockSequenceEntry
<1>4. e.at \in Cursor /\ e.marks \in Seq(Opener)
  BY <1>1, EntriesTyped
<1>5. EntryOutcome
  <2>1. CASE FetchFails(e.at, states) /\ marks' = e.marks
    BY <1>4, <2>1, FetchFailsOutcome DEF EntryOutcome
  <2>2. CASE /\ NodeAfter(e.at, {"BLOCK-ENTRY", "BLOCK-END"}, "BLOCK_SEQUENCE_ENTRY", TRUE, FALSE)
             /\ marks' = e.marks
    <3>1. "BLOCK_SEQUENCE_ENTRY" \in Continuation
      BY DEF Continuation, BlockState, FirstState
    <3> QED BY <1>1, <1>2, <1>4, <2>2, <3>1, NodeAfterOutcome DEF EntryOutcome
  <2>3. CASE CloseCollection(e, "SEQUENCE-END")
    BY <1>1, <1>4, <2>3, CloseOutcome DEF EventType
  <2>4. CASE Misplaced(e)
    BY <1>1, <1>4, <2>4, MisplacedOutcome
  <2> QED BY <1>3, <2>1, <2>2, <2>3, <2>4
<1> QED BY <1>1, <1>5, EntryPreservesInv DEF ParseBlockSequenceEntry

(* parse_block_mapping_key preserves the invariant.                        *)
LEMMA BlockMappingKeyStep ==
    ASSUME Inv, error = "none", NEW first \in BOOLEAN, ParseBlockMappingKey(first)
    PROVE  Inv'
<1>1. state \in Inside \ {"DOCUMENT_END"} /\ (first => state \in FirstState)
  BY DEF ParseBlockMappingKey, Inside, BlockState, FirstState
<1>2. TypeOK /\ GoodStack(states)
  BY <1>1, InsideStack DEF Inv
<1>3. PICK e \in Entries(first) :
         \/ FetchFails(e.at, states) /\ marks' = e.marks
         \/ /\ NodeAfter(e.at, {"KEY", "VALUE", "BLOCK-END"}, "BLOCK_MAPPING_VALUE", TRUE, TRUE)
            /\ marks' = e.marks
         \/ CloseCollection(e, "MAPPING-END")
         \/ Misplaced(e)
  BY DEF ParseBlockMappingKey
<1>4. e.at \in Cursor /\ e.marks \in Seq(Opener)
  BY <1>1, EntriesTyped
<1>5. EntryOutcome
  <2>1. CASE FetchFails(e.at, states) /\ marks' = e.marks
    BY <1>4, <2>1, FetchFailsOutcome DEF EntryOutcome
  <2>2. CASE /\ NodeAfter(e.at, {"KEY", "VALUE", "BLOCK-END"}, "BLOCK_MAPPING_VALUE", TRUE, TRUE)
             /\ marks' = e.marks
    <3>1. "BLOCK_MAPPING_VALUE" \in Continuation
      BY DEF Continuation, BlockState, FirstState
    <3> QED BY <1>1, <1>2, <1>4, <2>2, <3>1, NodeAfterOutcome DEF EntryOutcome
  <2>3. CASE CloseCollection(e, "MAPPING-END")
    BY <1>1, <1>4, <2>3, CloseOutcome DEF EventType
  <2>4. CASE Misplaced(e)
    BY <1>1, <1>4, <2>4, MisplacedOutcome
  <2> QED BY <1>3, <2>1, <2>2, <2>3, <2>4
<1> QED BY <1>1, <1>5, EntryPreservesInv DEF ParseBlockMappingKey

(* parse_flow_sequence_entry preserves the invariant.                      *)
LEMMA FlowSequenceEntryStep ==
    ASSUME Inv, error = "none", NEW first \in BOOLEAN, ParseFlowSequenceEntry(first)
    PROVE  Inv'
<1>1. state \in Inside \ {"DOCUMENT_END"} /\ (first => state \in FirstState)
  BY DEF ParseFlowSequenceEntry, Inside, FlowState, FirstState
<1>2. TypeOK /\ GoodStack(states)
  BY <1>1, InsideStack DEF Inv
<1>3. PICK e \in Entries(first) :
         \/ Misplaced(e)
         \/ \E c \in FlowItems(first, e) :
               \/ FetchFails(c, states) /\ marks' = e.marks
               \/ /\ state' = "FLOW_SEQUENCE_ENTRY_MAPPING_KEY"
                  /\ Emit("MAPPING-START", NoAnchor)
                  /\ Skip(c)
                  /\ marks' = e.marks
                  /\ UNCHANGED states
               \/ CloseCollection([e EXCEPT !.at = c], "SEQUENCE-END")
               \/ /\ ParseNode(c, Append(states, "FLOW_SEQUENCE_ENTRY"), FALSE, FALSE)
                  /\ marks' = e.marks
  BY DEF ParseFlowSequenceEntry
<1>4. e.at \in Cursor /\ e.marks \in Seq(Opener)
  BY <1>1, EntriesTyped
<1>5. FlowItems(first, e) \subseteq Cursor
  BY <1>4, PeekAfterCursor DEF FlowItems
<1>6. EntryOutcome
  <2>1. CASE Misplaced(e)
    BY <1>1, <1>4, <2>1, MisplacedOutcome
  <2>2. ASSUME NEW c \in FlowItems(first, e), FetchFails(c, states), marks' = e.marks
        PROVE  EntryOutcome
    BY <1>4, <1>5, <2>2, FetchFailsOutcome DEF EntryOutcome
  <2>3. ASSUME NEW c \in FlowItems(first, e),
               state' = "FLOW_SEQUENCE_ENTRY_MAPPING_KEY",
               Emit("MAPPING-START", NoAnchor), Skip(c), marks' = e.marks, UNCHANGED states
        PROVE  EntryOutcome
    <3>1. "FLOW_SEQUENCE_ENTRY_MAPPING_KEY" \in Inside \ (FirstState \cup {"DOCUMENT_END"})
      BY DEF Inside, FlowState, FirstState
    <3>2. "MAPPING-START" \in EventType
      BY DEF EventType
    <3> QED BY <1>2, <1>4, <1>5, <2>3, <3>1, <3>2, ContinueOutcome DEF EntryOutcome
  <2>4. ASSUME NEW c \in FlowItems(first, e), CloseCollection([e EXCEPT !.at = c], "SEQUENCE-END")
        PROVE  EntryOutcome
    <3>1. [e EXCEPT !.at = c].at \in Cursor /\ [e EXCEPT !.at = c].marks \in Seq(Opener)
      BY <1>4, <1>5 DEF Entries
    <3> QED BY <1>1, <2>4, <3>1, CloseOutcome DEF EventType
  <2>5. ASSUME NEW c \in FlowItems(first, e), marks' = e.marks,
               ParseNode(c, Append(states, "FLOW_SEQUENCE_ENTRY"), FALSE, FALSE)
        PROVE  EntryOutcome
    <3>1. "FLOW_SEQUENCE_ENTRY" \in Continuation
      BY DEF Continuation, FlowState, FirstState
    <3>2. GoodStack(Append(states, "FLOW_SEQUENCE_ENTRY"))
      BY <1>2, <3>1, PushGood
    <3> QED BY <1>1, <1>2, <1>4, <1>5, <2>5, <3>2, ParseNodeOutcome DEF EntryOutcome
  <2> QED BY <1>3, <2>1, <2>2, <2>3, <2>4, <2>5
<1> QED BY <1>1, <1>6, EntryPreservesInv DEF ParseFlowSequenceEntry

(* parse_flow_mapping_key preserves the invariant.                         *)
LEMMA FlowMappingKeyStep ==
    ASSUME Inv, error = "none", NEW first \in BOOLEAN, ParseFlowMappingKey(first)
    PROVE  Inv'
<1>1. state \in Inside \ {"DOCUMENT_END"} /\ (first => state \in FirstState)
  BY DEF ParseFlowMappingKey, Inside, FlowState, FirstState
<1>2. TypeOK /\ GoodStack(states)
  BY <1>1, InsideStack DEF Inv
<1>3. PICK e \in Entries(first) :
         \/ Misplaced(e)
         \/ \E c \in FlowItems(first, e) :
               \/ FetchFails(c, states) /\ marks' = e.marks
               \/ /\ NodeAfter(c, {"VALUE", "FLOW-ENTRY", "FLOW-MAPPING-END"},
                               "FLOW_MAPPING_VALUE", FALSE, FALSE)
                  /\ marks' = e.marks
               \/ CloseCollection([e EXCEPT !.at = c], "MAPPING-END")
               \/ /\ ParseNode(c, Append(states, "FLOW_MAPPING_EMPTY_VALUE"), FALSE, FALSE)
                  /\ marks' = e.marks
  BY DEF ParseFlowMappingKey
<1>4. e.at \in Cursor /\ e.marks \in Seq(Opener)
  BY <1>1, EntriesTyped
<1>5. FlowItems(first, e) \subseteq Cursor
  BY <1>4, PeekAfterCursor DEF FlowItems
<1>6. EntryOutcome
  <2>1. CASE Misplaced(e)
    BY <1>1, <1>4, <2>1, MisplacedOutcome
  <2>2. ASSUME NEW c \in FlowItems(first, e), FetchFails(c, states), marks' = e.marks
        PROVE  EntryOutcome
    BY <1>4, <1>5, <2>2, FetchFailsOutcome DEF EntryOutcome
  <2>3. ASSUME NEW c \in FlowItems(first, e), marks' = e.marks,
               NodeAfter(c, {"VALUE", "FLOW-ENTRY", "FLOW-MAPPING-END"},
                         "FLOW_MAPPING_VALUE", FALSE, FALSE)
        PROVE  EntryOutcome
    <3>1. "FLOW_MAPPING_VALUE" \in Continuation
      BY DEF Continuation, FlowState, FirstState
    <3> QED BY <1>1, <1>2, <1>4, <1>5, <2>3, <3>1, NodeAfterOutcome DEF EntryOutcome
  <2>4. ASSUME NEW c \in FlowItems(first, e), CloseCollection([e EXCEPT !.at = c], "MAPPING-END")
        PROVE  EntryOutcome
    <3>1. [e EXCEPT !.at = c].at \in Cursor /\ [e EXCEPT !.at = c].marks \in Seq(Opener)
      BY <1>4, <1>5 DEF Entries
    <3> QED BY <1>1, <2>4, <3>1, CloseOutcome DEF EventType
  <2>5. ASSUME NEW c \in FlowItems(first, e), marks' = e.marks,
               ParseNode(c, Append(states, "FLOW_MAPPING_EMPTY_VALUE"), FALSE, FALSE)
        PROVE  EntryOutcome
    <3>1. "FLOW_MAPPING_EMPTY_VALUE" \in Continuation
      BY DEF Continuation, FlowState, FirstState
    <3>2. GoodStack(Append(states, "FLOW_MAPPING_EMPTY_VALUE"))
      BY <1>2, <3>1, PushGood
    <3> QED BY <1>1, <1>2, <1>4, <1>5, <2>5, <3>2, ParseNodeOutcome DEF EntryOutcome
  <2> QED BY <1>3, <2>1, <2>2, <2>3, <2>4, <2>5
<1> QED BY <1>1, <1>6, EntryPreservesInv DEF ParseFlowMappingKey

(* The state functions that peek once: their outcome is that of the node,  *)
(* of the pop, or of going on; the marks are left alone.                   *)
LEMMA PeekStep ==
    ASSUME Inv, state \in Inside, NodeOutcome, UNCHANGED <<marks, directives>>
    PROVE  Inv'
<1>1. EntryOutcome
  BY DEF EntryOutcome, Inv, TypeOK, Opener
<1> QED BY <1>1, EntryPreservesInv

(* parse_indentless_sequence_entry preserves the invariant.                *)
LEMMA IndentlessSequenceEntryStep ==
    ASSUME Inv, ParseIndentlessSequenceEntry
    PROVE  Inv'
<1>1. state \in Inside \ {"DOCUMENT_END"} /\ TypeOK
  BY DEF ParseIndentlessSequenceEntry, Inside, BlockState, Inv
<1>2. PICK c \in Peek :
         \/ FetchFails(c, states)
         \/ NodeAfter(c, {"BLOCK-ENTRY", "KEY", "VALUE", "BLOCK-END"},
                      "INDENTLESS_SEQUENCE_ENTRY", TRUE, FALSE)
         \/ Return(states) /\ Emit("SEQUENCE-END", NoAnchor) /\ Keep(c)
  BY DEF ParseIndentlessSequenceEntry
<1>3. c \in Cursor /\ GoodStack(states)
  BY <1>1, InsideStack, PeekCursor
<1>4. NodeOutcome
  <2>1. CASE FetchFails(c, states)
    BY <1>3, <2>1, FetchFailsOutcome
  <2>2. CASE NodeAfter(c, {"BLOCK-ENTRY", "KEY", "VALUE", "BLOCK-END"},
                       "INDENTLESS_SEQUENCE_ENTRY", TRUE, FALSE)
    <3>1. "INDENTLESS_SEQUENCE_ENTRY" \in Continuation
      BY DEF Continuation, BlockState, FirstState
    <3> QED BY <1>1, <1>3, <2>2, <3>1, NodeAfterOutcome
  <2>3. CASE Return(states) /\ Emit("SEQUENCE-END", NoAnchor) /\ Keep(c)
    BY <1>1, <1>3, <2>3, ReturnOutcome DEF EventType
  <2> QED BY <1>2, <2>1, <2>2, <2>3
<1> QED BY <1>1, <1>4, PeekStep DEF ParseIndentlessSequenceEntry

(* parse_block_mapping_value preserves the invariant.                      *)
LEMMA BlockMappingValueStep ==
    ASSUME Inv, ParseBlockMappingValue
    PROVE  Inv'
<1>1. state \in Inside \ {"DOCUMENT_END"} /\ TypeOK
  BY DEF ParseBlockMappingValue, Inside, BlockState, Inv
<1>2. PICK c \in Peek :
         \/ FetchFails(c, states)
         \/ NodeAfter(c, {"KEY", "VALUE", "BLOCK-END"}, "BLOCK_MAPPING_KEY", TRUE, TRUE)
         \/ AbsentNode("BLOCK_MAPPING_KEY") /\ Keep(c)
  BY DEF ParseBlockMappingValue
<1>3. c \in Cursor /\ GoodStack(states)
  BY <1>1, InsideStack, PeekCursor
<1>4. /\ "BLOCK_MAPPING_KEY" \in Continuation
      /\ "BLOCK_MAPPING_KEY" \in Inside \ (FirstState \cup {"DOCUMENT_END"})
  BY DEF Continuation, Inside, BlockState, FirstState
<1>5. NodeOutcome
  <2>1. CASE FetchFails(c, states)
    BY <1>3, <2>1, FetchFailsOutcome
  <2>2. CASE NodeAfter(c, {"KEY", "VALUE", "BLOCK-END"}, "BLOCK_MAPPING_KEY", TRUE, TRUE)
    BY <1>1, <1>3, <1>4, <2>2, NodeAfterOutcome
  <2>3. CASE AbsentNode("BLOCK_MAPPING_KEY") /\ Keep(c)
    BY <1>1, <1>3, <1>4, <2>3, ContinueOutcome DEF AbsentNode, EmptyScalar, EventType
  <2> QED BY <1>2, <2>1, <2>2, <2>3
<1> QED BY <1>1, <1>5, PeekStep DEF ParseBlockMappingValue

(* parse_flow_mapping_value preserves the invariant.                       *)
LEMMA FlowMappingValueStep ==
    ASSUME Inv, NEW empty \in BOOLEAN, ParseFlowMappingValue(empty)
    PROVE  Inv'
<1>1. state \in Inside \ {"DOCUMENT_END"} /\ TypeOK
  BY DEF ParseFlowMappingValue, Inside, FlowState, Inv
<1>2. PICK c \in Peek :
         \/ FetchFails(c, states)
         \/ NodeAfter(c, {"FLOW-ENTRY", "FLOW-MAPPING-END"}, "FLOW_MAPPING_KEY", FALSE, FALSE)
         \/ AbsentNode("FLOW_MAPPING_KEY") /\ Keep(c)
  BY DEF ParseFlowMappingValue
<1>3. c \in Cursor /\ GoodStack(states)
  BY <1>1, InsideStack, PeekCursor
<1>4. /\ "FLOW_MAPPING_KEY" \in Continuation
      /\ "FLOW_MAPPING_KEY" \in Inside \ (FirstState \cup {"DOCUMENT_END"})
  BY DEF Continuation, Inside, FlowState, FirstState
<1>5. NodeOutcome
  <2>1. CASE FetchFails(c, states)
    BY <1>3, <2>1, FetchFailsOutcome
  <2>2. CASE NodeAfter(c, {"FLOW-ENTRY", "FLOW-MAPPING-END"}, "FLOW_MAPPING_KEY", FALSE, FALSE)
    BY <1>1, <1>3, <1>4, <2>2, NodeAfterOutcome
  <2>3. CASE AbsentNode("FLOW_MAPPING_KEY") /\ Keep(c)
    BY <1>1, <1>3, <1>4, <2>3, ContinueOutcome DEF AbsentNode, EmptyScalar, EventType
  <2> QED BY <1>2, <2>1, <2>2, <2>3
<1> QED BY <1>1, <1>5, PeekStep DEF ParseFlowMappingValue

(* The key of a single pair in a flow sequence preserves the invariant.    *)
LEMMA FlowSequenceEntryMappingKeyStep ==
    ASSUME Inv, ParseFlowSequenceEntryMappingKey
    PROVE  Inv'
<1> DEFINE newState == "FLOW_SEQUENCE_ENTRY_MAPPING_VALUE"
<1>1. state \in Inside \ {"DOCUMENT_END"} /\ TypeOK
  BY DEF ParseFlowSequenceEntryMappingKey, Inside, FlowState, Inv
<1>2. PICK c \in Peek :
         \/ FetchFails(c, states)
         \/ AbsentNode(newState) /\ Skip(c)
         \/ ParseNode(c, Append(states, newState), FALSE, FALSE)
  BY DEF ParseFlowSequenceEntryMappingKey
<1>3. c \in Cursor /\ GoodStack(states)
  BY <1>1, InsideStack, PeekCursor
<1>4. newState \in Continuation /\ newState \in Inside \ (FirstState \cup {"DOCUMENT_END"})
  BY DEF Continuation, Inside, FlowState, FirstState
<1>5. NodeOutcome
  <2>1. CASE FetchFails(c, states)
    BY <1>3, <2>1, FetchFailsOutcome
  <2>2. CASE AbsentNode(newState) /\ Skip(c)
    BY <1>1, <1>3, <1>4, <2>2, ContinueOutcome DEF AbsentNode, EmptyScalar, EventType
  <2>3. CASE ParseNode(c, Append(states, newState), FALSE, FALSE)
    BY <1>1, <1>3, <1>4, <2>3, PushGood, ParseNodeOutcome
  <2> QED BY <1>2, <2>1, <2>2, <2>3
<1> QED BY <1>1, <1>5, PeekStep DEF ParseFlowSequenceEntryMappingKey

(* Its value does.                                                         *)
LEMMA FlowSequenceEntryMappingValueStep ==
    ASSUME Inv, ParseFlowSequenceEntryMappingValue
    PROVE  Inv'
<1> DEFINE newState == "FLOW_SEQUENCE_ENTRY_MAPPING_END"
<1>1. state \in Inside \ {"DOCUMENT_END"} /\ TypeOK
  BY DEF ParseFlowSequenceEntryMappingValue, Inside, FlowState, Inv
<1>2. PICK c \in Peek :
         \/ FetchFails(c, states)
         \/ NodeAfter(c, {"FLOW-ENTRY", "FLOW-SEQUENCE-END"}, newState, FALSE, FALSE)
         \/ AbsentNode(newState) /\ Keep(c)
  BY DEF ParseFlowSequenceEntryMappingValue
<1>3. c \in Cursor /\ GoodStack(states)
  BY <1>1, InsideStack, PeekCursor
<1>4. newState \in Continuation /\ newState \in Inside \ (FirstState \cup {"DOCUMENT_END"})
  BY DEF Continuation, Inside, FlowState, FirstState
<1>5. NodeOutcome
  <2>1. CASE FetchFails(c, states)
    BY <1>3, <2>1, FetchFailsOutcome
  <2>2. CASE NodeAfter(c, {"FLOW-ENTRY", "FLOW-SEQUENCE-END"}, newState, FALSE, FALSE)
    BY <1>1, <1>3, <1>4, <2>2, NodeAfterOutcome
  <2>3. CASE AbsentNode(newState) /\ Keep(c)
    BY <1>1, <1>3, <1>4, <2>3, ContinueOutcome DEF AbsentNode, EmptyScalar, EventType
  <2> QED BY <1>2, <2>1, <2>2, <2>3
<1> QED BY <1>1, <1>5, PeekStep DEF ParseFlowSequenceEntryMappingValue

(* Its end does.                                                           *)
LEMMA FlowSequenceEntryMappingEndStep ==
    ASSUME Inv, ParseFlowSequenceEntryMappingEnd
    PROVE  Inv'
<1>1. state \in Inside \ {"DOCUMENT_END"} /\ TypeOK
  BY DEF ParseFlowSequenceEntryMappingEnd, Inside, FlowState, Inv
<1>2. PICK c \in Peek :
         \/ FetchFails(c, states)
         \/ /\ state' = "FLOW_SEQUENCE_ENTRY"
            /\ Emit("MAPPING-END", NoAnchor)
            /\ Keep(c)
            /\ UNCHANGED states
  BY DEF ParseFlowSequenceEntryMappingEnd
<1>3. c \in Cursor /\ GoodStack(states)
  BY <1>1, InsideStack, PeekCursor
<1>4. "FLOW_SEQUENCE_ENTRY" \in Inside \ (FirstState \cup {"DOCUMENT_END"})
  BY DEF Inside, FlowState, FirstState
<1>5. NodeOutcome
  <2>1. CASE FetchFails(c, states)
    BY <1>3, <2>1, FetchFailsOutcome
  <2>2. CASE /\ state' = "FLOW_SEQUENCE_ENTRY"
             /\ Emit("MAPPING-END", NoAnchor)
             /\ Keep(c)
             /\ UNCHANGED states
    BY <1>1, <1>3, <1>4, <2>2, ContinueOutcome DEF EventType
  <2> QED BY <1>2, <2>1, <2>2
<1> QED BY <1>1, <1>5, PeekStep DEF ParseFlowSequenceEntryMappingEnd

(* The root node of a document without '---' preserves the invariant.      *)
LEMMA BlockNodeStep ==
    ASSUME Inv, ParseBlockNode
    PROVE  Inv'
<1>1. state \in Inside \ {"DOCUMENT_END"} /\ TypeOK
  BY DEF ParseBlockNode, Inside, DocumentState, Inv
<1>2. PICK c \in Peek : ParseNode(c, states, TRUE, FALSE)
  BY DEF ParseBlockNode
<1>3. c \in Cursor /\ GoodStack(states)
  BY <1>1, InsideStack, PeekCursor
<1>4. NodeOutcome
  BY <1>1, <1>2, <1>3, ParseNodeOutcome
<1> QED BY <1>1, <1>4, PeekStep DEF ParseBlockNode

(* The root node, or its absence, after '---' preserves the invariant.     *)
LEMMA DocumentContentStep ==
    ASSUME Inv, ParseDocumentContent
    PROVE  Inv'
<1>1. state \in Inside \ {"DOCUMENT_END"} /\ TypeOK
  BY DEF ParseDocumentContent, Inside, DocumentState, Inv
<1>2. PICK c \in Peek :
         \/ Return(states) /\ EmptyScalar /\ Keep(c)
         \/ ParseNode(c, states, TRUE, FALSE)
  BY DEF ParseDocumentContent
<1>3. c \in Cursor /\ GoodStack(states)
  BY <1>1, InsideStack, PeekCursor
<1>4. NodeOutcome
  <2>1. CASE Return(states) /\ EmptyScalar /\ Keep(c)
    BY <1>1, <1>3, <2>1, ReturnOutcome DEF EmptyScalar, EventType
  <2>2. CASE ParseNode(c, states, TRUE, FALSE)
    BY <1>1, <1>3, <2>2, ParseNodeOutcome
  <2> QED BY <1>2, <2>1, <2>2
<1> QED BY <1>1, <1>4, PeekStep DEF ParseDocumentContent

-----------------------------------------------------------------------------
(***************************************************************************)
(* Streams, documents and their directives.                                *)
(***************************************************************************)

(* Adding the default directives defines every default handle, once.       *)
LEMMA WithDefaultsProperties ==
    ASSUME Inv
    PROVE  /\ WithDefaults \subseteq TagDirective
           /\ \A d1, d2 \in WithDefaults : d1.handle = d2.handle => d1 = d2
           /\ DefaultHandles \subseteq {d.handle : d \in WithDefaults}
<1> DEFINE missing == {x \in DefaultHandles : \A d \in tagDirectives : d.handle # x}
           added == {[handle |-> h, prefix |-> "default"] : h \in missing}
<1>1. WithDefaults = tagDirectives \cup added
  BY DEF WithDefaults
<1>2. tagDirectives \subseteq TagDirective /\ missing \subseteq Handles
  BY ConstantsAssumption DEF Inv, TypeOK
<1>3. added \subseteq TagDirective
  BY <1>2 DEF TagDirective
<1>4. \A d1, d2 \in tagDirectives : d1.handle = d2.handle => d1 = d2
  BY DEF Inv, DirectiveScope
<1>5. \A d1, d2 \in added : d1.handle = d2.handle => d1 = d2
  OBVIOUS
<1>6. \A d1 \in tagDirectives, d2 \in added : d1.handle # d2.handle
  OBVIOUS
<1>7. ASSUME NEW h \in DefaultHandles PROVE \E d \in WithDefaults : d.handle = h
  <2>1. CASE \E d \in tagDirectives : d.handle = h
    BY <1>1, <2>1
  <2>2. CASE h \in missing
    <3>1. [handle |-> h, prefix |-> "default"] \in added
      BY <2>2
    <3> QED BY <1>1, <3>1
  <2> QED BY <2>1, <2>2
<1>8. \A d1, d2 \in WithDefaults : d1.handle = d2.handle => d1 = d2
  BY <1>1, <1>4, <1>5, <1>6
<1>9. DefaultHandles \subseteq {d.handle : d \in WithDefaults}
  BY <1>7
<1> HIDE DEF added, missing
<1> QED BY <1>1, <1>2, <1>3, <1>8, <1>9

(* What an error leaves. *)
LEMMA FailTyped ==
    ASSUME NEW problem \in Error \ {"none"}, Fail(problem)
    PROVE  UNCHANGED state /\ error' \in Error /\ error' # "none" /\ event' \in Event
BY DEF Fail, NullEvent, Event, EventType

(* The directives after a call. *)
DirectivesTyped == /\ tagDirectives' \subseteq TagDirective
                   /\ declared' \subseteq TagDirective
                   /\ version' \in BOOLEAN

(* Moving between the states outside documents, or failing there.          *)
LEMMA OutsideOutcome ==
    ASSUME Inv, state \in OutsideState, NEW c \in Cursor, Keep(c) \/ Skip(c),
           state' \in OutsideState, UNCHANGED stacks,
           error' \in Error, event' \in Event,
           DirectivesTyped, DirectiveScope'
    PROVE  Inv'
<1>1. QueueTyped
  BY QueueTyping DEF Inv
<1>2. state' \in State /\ state' \notin FirstState
  BY DEF State, OutsideState, FirstState
<1>3. TypeOK'
  BY <1>1, <1>2 DEF QueueTyped, DirectivesTyped, Inv, TypeOK, stacks
<1>4. StackDiscipline'
  BY DEF Inv, StackDiscipline, stacks
<1> QED BY <1>2, <1>3, <1>4 DEF Inv, OpenerAtHead

(* parse_stream_start preserves the invariant.                             *)
LEMMA StreamStartStep ==
    ASSUME Inv, error = "none", ParseStreamStart
    PROVE  Inv'
<1>1. state \in OutsideState /\ UNCHANGED <<marks, directives>> /\ TypeOK
  BY DEF ParseStreamStart, OutsideState, Inv
<1>2. PICK c \in Peek :
         \/ FetchFails(c, states)
         \/ /\ state' = "IMPLICIT_DOCUMENT_START"
            /\ Emit("STREAM-START", NoAnchor)
            /\ Skip(c)
            /\ UNCHANGED states
         \/ Fail("syntax") /\ Keep(c) /\ UNCHANGED states
  BY DEF ParseStreamStart
<1>3. c \in Cursor
  BY <1>1, PeekCursor
<1>4. /\ Keep(c) \/ Skip(c)
      /\ state' \in OutsideState
      /\ UNCHANGED stacks
      /\ error' \in Error /\ event' \in Event
  <2>1. {"fetch", "syntax"} \subseteq Error \ {"none"}
    BY DEF Error
  <2>2. CASE FetchFails(c, states)
    BY <1>1, <2>1, <2>2, FailTyped DEF FetchFails, stacks
  <2>3. CASE Fail("syntax") /\ Keep(c) /\ UNCHANGED states
    BY <1>1, <2>1, <2>3, FailTyped DEF stacks
  <2>4. CASE /\ state' = "IMPLICIT_DOCUMENT_START"
             /\ Emit("STREAM-START", NoAnchor)
             /\ Skip(c)
             /\ UNCHANGED states
    BY <1>1, <2>4 DEF stacks, OutsideState, Emit, TypeOK, Event, EventType
  <2> QED BY <1>2, <2>2, <2>3, <2>4
<1>5. DirectivesTyped /\ DirectiveScope'
  BY <1>1, <1>4 DEF DirectivesTyped, directives, TypeOK, Inv, DirectiveScope
<1> QED BY <1>1, <1>3, <1>4, <1>5, OutsideOutcome

(* Skipping a '...' before a document preserves the invariant.             *)
LEMMA SkipDocumentEndStep ==
    ASSUME Inv, SkipDocumentEnd
    PROVE  Inv'
<1>1. PICK c \in Peek : Skip(c)
  BY DEF SkipDocumentEnd
<1>2. c \in Cursor
  BY PeekCursor DEF Inv
<1>3. /\ state \in OutsideState /\ state' \in OutsideState /\ UNCHANGED stacks
      /\ error' \in Error /\ event' \in Event
  BY DEF SkipDocumentEnd, OutsideState, Inv, TypeOK, NullEvent, Event, EventType
<1>4. DirectivesTyped /\ DirectiveScope'
  BY DEF SkipDocumentEnd, DirectivesTyped, directives, Inv, TypeOK, DirectiveScope
<1> QED BY <1>1, <1>2, <1>3, <1>4, OutsideOutcome

(* A directive preserves the invariant: a handle already there is refused. *)
LEMMA ProcessDirectiveStep ==
    ASSUME Inv, error = "none", ProcessDirective
    PROVE  Inv'
<1>1. /\ state \in OutsideState /\ UNCHANGED stacks /\ TypeOK
  BY DEF ProcessDirective, AtDocumentStart, OutsideState, Inv
<1> DEFINE entry(c) == [handle |-> c.token.data, prefix |-> "document"]
<1>2. PICK c \in Peek :
         /\ IsOneOf(c, DirectiveType)
         /\ \/ /\ Fail("duplicate directive") \/ Fail("incompatible version")
               /\ Keep(c)
               /\ version' = FALSE /\ declared' = {}
               /\ UNCHANGED tagDirectives
            \/ /\ Skip(c)
               /\ event' = NullEvent
               /\ \/ version' = TRUE /\ UNCHANGED <<declared, tagDirectives>>
                  \/ /\ ~Is(c, "VERSION-DIRECTIVE")
                     /\ \A d \in tagDirectives : d.handle # c.token.data
                     /\ tagDirectives' = tagDirectives \cup {entry(c)}
                     /\ declared' = declared \cup {entry(c)}
                     /\ UNCHANGED version
               /\ UNCHANGED <<state, error>>
  BY DEF ProcessDirective
<1>3. c \in Cursor
  BY <1>1, PeekCursor
<1>4. /\ Keep(c) \/ Skip(c)
      /\ state' \in OutsideState
      /\ error' \in Error /\ event' \in Event
  <2>1. CASE (Fail("duplicate directive") \/ Fail("incompatible version")) /\ Keep(c)
    <3>1. {"duplicate directive", "incompatible version"} \subseteq Error \ {"none"}
      BY DEF Error
    <3> QED BY <1>1, <2>1, <3>1, FailTyped
  <2>2. CASE Skip(c) /\ event' = NullEvent /\ UNCHANGED <<state, error>>
    BY <1>1, <2>2 DEF NullEvent, Event, EventType, TypeOK
  <2> QED BY <1>2, <2>1, <2>2
<1>5. ~Is(c, "VERSION-DIRECTIVE") => entry(c) \in TagDirective
  <2>1. ~Is(c, "VERSION-DIRECTIVE") => c.token \in Token /\ c.token.type = "TAG-DIRECTIVE"
    BY <1>2, <1>3 DEF Is, IsOneOf, DirectiveType, Cursor
  <2> QED BY <2>1, TokenData DEF TagDirective
<1>6. DirectivesTyped
  BY <1>1, <1>2, <1>5 DEF DirectivesTyped, TypeOK
<1>7. DirectiveScope'
  <2>1. /\ \A d1, d2 \in tagDirectives : d1.handle = d2.handle => d1 = d2
        /\ tagDirectives = declared
    BY <1>1 DEF Inv, DirectiveScope
  <2>2. CASE Fail("duplicate directive") \/ Fail("incompatible version")
    <3>1. UNCHANGED tagDirectives /\ error' # "none"
      BY <1>1, <1>2, <2>2 DEF Fail, TypeOK
    <3> QED BY <1>4, <2>1, <3>1 DEF DirectiveScope
  <2>3. CASE UNCHANGED <<declared, tagDirectives>>
    BY <1>4, <2>1, <2>3 DEF DirectiveScope
  <2>4. CASE /\ \A d \in tagDirectives : d.handle # c.token.data
             /\ tagDirectives' = tagDirectives \cup {entry(c)}
             /\ declared' = declared \cup {entry(c)}
    BY <1>4, <2>1, <2>4 DEF DirectiveScope
  <2> QED BY <1>2, <2>2, <2>3, <2>4
<1> QED BY <1>1, <1>3, <1>4, <1>6, <1>7, OutsideOutcome

(* A null token before a document preserves the invariant.                 *)
LEMMA DocumentStartFetchFailsStep ==
    ASSUME Inv, DocumentStartFetchFails
    PROVE  Inv'
<1>1. PICK c \in Peek : FetchFails(c, states)
  BY DEF DocumentStartFetchFails
<1>2. c \in Cursor /\ TypeOK
  BY PeekCursor DEF Inv
<1>3. /\ state \in OutsideState /\ state' \in OutsideState /\ UNCHANGED stacks /\ Keep(c)
      /\ error' \in Error /\ error' # "none" /\ event' \in Event
  BY <1>1 DEF DocumentStartFetchFails, FetchFails, Fail, stacks, AtDocumentStart, OutsideState,
              NullEvent, Event, EventType, Error
<1>4. DirectivesTyped /\ DirectiveScope'
  BY <1>2, <1>3 DEF DocumentStartFetchFails, DirectivesTyped, Inv, TypeOK, DirectiveScope
<1> QED BY <1>2, <1>3, <1>4, OutsideOutcome

(* Directives without '---' fail, and preserve the invariant.              *)
LEMMA MissingDocumentStartStep ==
    ASSUME Inv, MissingDocumentStart
    PROVE  Inv'
<1>1. PICK c \in Peek : Keep(c)
  BY DEF MissingDocumentStart
<1>2. c \in Cursor /\ TypeOK
  BY PeekCursor DEF Inv
<1>3. /\ state \in OutsideState /\ state' \in OutsideState /\ UNCHANGED stacks
      /\ error' \in Error /\ error' # "none" /\ event' \in Event
  BY DEF MissingDocumentStart, Fail, AtDocumentStart, OutsideState, NullEvent, Event,
         EventType, Error
<1>4. /\ tagDirectives' = WithDefaults /\ declared' = {} /\ version' = FALSE
  BY DEF MissingDocumentStart
<1>5. DirectivesTyped
  BY <1>4, WithDefaultsProperties DEF DirectivesTyped
<1>6. DirectiveScope'
  BY <1>3, <1>4, WithDefaultsProperties DEF DirectiveScope
<1> QED BY <1>1, <1>2, <1>3, <1>5, <1>6, OutsideOutcome

(* A document begins: its return state is the bottom of the stack.         *)
LEMMA StartDocumentOutcome ==
    ASSUME Inv, state \in OutsideState, NEW c \in Cursor, Keep(c) \/ Skip(c),
           state' \in {"BLOCK_NODE", "DOCUMENT_CONTENT"},
           states' = Append(states, "DOCUMENT_END"), UNCHANGED marks,
           tagDirectives' = WithDefaults, declared' = {}, version' \in BOOLEAN,
           Emit("DOCUMENT-START", NoAnchor)
    PROVE  Inv'
<1>1. QueueTyped /\ TypeOK
  BY QueueTyping DEF Inv
<1>2. /\ state' \in State /\ state' \notin FirstState
      /\ state' \notin OutsideState \cup {"DOCUMENT_END"}
  BY DEF State, OutsideState, DocumentState, FirstState
<1>3. states = <<>>
  BY DEF Inv, StackDiscipline
<1>4. "DOCUMENT_END" \in State /\ states \in Seq(State)
  BY <1>1 DEF State, DocumentState, TypeOK
<1>5. /\ states' \in Seq(State) /\ states' # <<>>
      /\ Len(states') = 1 /\ states'[1] = "DOCUMENT_END"
  BY <1>3, <1>4, AppendProperties, EmptySeq
<1>6. StackDiscipline'
  BY <1>2, <1>5 DEF StackDiscipline
<1>7. error' \in Error /\ event' \in Event
  BY <1>1 DEF Emit, TypeOK, Event, EventType
<1>8. TypeOK'
  BY <1>1, <1>2, <1>5, <1>7, WithDefaultsProperties DEF QueueTyped, TypeOK
<1>9. DirectiveScope'
  BY <1>2, WithDefaultsProperties DEF DirectiveScope
<1> QED BY <1>2, <1>6, <1>8, <1>9 DEF Inv, OpenerAtHead

(* A document without '---' starts with the default handles.               *)
LEMMA StartImplicitDocumentStep ==
    ASSUME Inv, StartImplicitDocument
    PROVE  Inv'
<1>1. PICK c \in Peek : Keep(c)
  BY DEF StartImplicitDocument
<1>2. c \in Cursor
  BY PeekCursor DEF Inv
<1>3. state \in OutsideState /\ declared' = {} /\ version' \in BOOLEAN
  BY DEF StartImplicitDocument, InDirectives, OutsideState, Inv, TypeOK
<1> QED BY <1>1, <1>2, <1>3, StartDocumentOutcome DEF StartImplicitDocument

(* A document with '---' starts with its own and the default handles.      *)
LEMMA StartExplicitDocumentStep ==
    ASSUME Inv, StartExplicitDocument
    PROVE  Inv'
<1>1. PICK c \in Peek : Skip(c)
  BY DEF StartExplicitDocument
<1>2. c \in Cursor
  BY PeekCursor DEF Inv
<1>3. state \in OutsideState /\ declared' = {} /\ version' \in BOOLEAN
  BY DEF StartExplicitDocument, AtDocumentStart, OutsideState
<1> QED BY <1>1, <1>2, <1>3, StartDocumentOutcome DEF StartExplicitDocument

(* The end of the stream preserves the invariant.                          *)
LEMMA EndStreamStep ==
    ASSUME Inv, EndStream
    PROVE  Inv'
<1>1. PICK c \in Peek : Skip(c)
  BY DEF EndStream
<1>2. c \in Cursor /\ TypeOK
  BY PeekCursor DEF Inv
<1>3. /\ state \in OutsideState /\ state' \in OutsideState /\ UNCHANGED stacks
      /\ error' = error /\ error' \in Error /\ event' \in Event
  BY <1>2 DEF EndStream, AtDocumentStart, OutsideState, Emit, Event, EventType, TypeOK
<1>4. DirectivesTyped /\ DirectiveScope'
  BY <1>2, <1>3 DEF EndStream, directives, DirectivesTyped, Inv, TypeOK, DirectiveScope
<1> QED BY <1>1, <1>2, <1>3, <1>4, OutsideOutcome

(* The end of a document drops its directives.                             *)
LEMMA DocumentEndStep ==
    ASSUME Inv, error = "none", ParseDocumentEnd
    PROVE  Inv'
<1>1. PICK c \in Peek :
         \/ FetchFails(c, states) /\ UNCHANGED tagDirectives
         \/ /\ Keep(c) \/ Skip(c)
            /\ tagDirectives' = {}
            /\ state' = "DOCUMENT_START"
            /\ Emit("DOCUMENT-END", NoAnchor)
            /\ UNCHANGED states
  BY DEF ParseDocumentEnd
<1>2. c \in Cursor /\ TypeOK
  BY PeekCursor DEF Inv
<1>3. state \in Inside /\ UNCHANGED <<marks, version, declared>>
  BY DEF ParseDocumentEnd, Inside, DocumentState
<1>4. CASE FetchFails(c, states) /\ UNCHANGED tagDirectives
  <2>1. NodeOutcome
    BY <1>2, <1>4, FetchFailsOutcome
  <2> QED BY <1>3, <1>4, <2>1, PeekStep DEF directives
<1>5. CASE /\ Keep(c) \/ Skip(c)
           /\ tagDirectives' = {}
           /\ state' = "DOCUMENT_START"
           /\ Emit("DOCUMENT-END", NoAnchor)
           /\ UNCHANGED states
  <2>1. QueueTyped
    BY <1>2, <1>5, QueueTyping
  <2>2. /\ state' \in State /\ state' \in OutsideState /\ state' \notin FirstState
    BY <1>5 DEF State, OutsideState, FirstState
  <2>3. error' \in Error /\ event' \in Event
    BY <1>2, <1>5 DEF Emit, TypeOK, Event, EventType
  <2>4. TypeOK'
    BY <1>2, <1>3, <1>5, <2>1, <2>2, <2>3 DEF TypeOK, QueueTyped
  <2>5. StackDiscipline'
    BY <1>5, <2>2 DEF Inv, StackDiscipline, ParseDocumentEnd
  <2>6. DirectiveScope'
    <3>1. declared = {}
      BY DEF Inv, DirectiveScope, ParseDocumentEnd, OutsideState
    <3> QED BY <1>3, <1>5, <2>2, <3>1 DEF DirectiveScope
  <2> QED BY <2>2, <2>4, <2>5, <2>6 DEF Inv, OpenerAtHead
<1> QED BY <1>1, <1>4, <1>5

-----------------------------------------------------------------------------
(***************************************************************************)
(* The invariant is inductive.                                             *)
(***************************************************************************)

(* A fresh parser satisfies it.                                            *)
LEMMA InitInv == Init => Inv
<1> SUFFICES ASSUME Init PROVE Inv
  OBVIOUS
<1>1. TypeOK
  BY ConstantsAssumption, EmptySeq DEF Init, TypeOK, State, OutsideState, Error,
     NullEvent, Event, EventType
<1>2. StackDiscipline /\ OpenerAtHead /\ DirectiveScope
  BY DEF Init, StackDiscipline, OpenerAtHead, DirectiveScope, OutsideState, FirstState
<1> QED BY <1>1, <1>2 DEF Inv

(* Between documents: the ways parse_document_start returns or goes on.    *)
LEMMA DocumentStartStep ==
    ASSUME Inv, error = "none", ParseDocumentStart
    PROVE  Inv'
BY SkipDocumentEndStep, ProcessDirectiveStep, DocumentStartFetchFailsStep,
   StartImplicitDocumentStep, StartExplicitDocumentStep, EndStreamStep,
   MissingDocumentStartStep DEF ParseDocumentStart

(* One call of the state machine, by the state function that runs.         *)
LEMMA StateMachineStep ==
    ASSUME Inv, error = "none", StateMachine
    PROVE  Inv'
<1>1. CASE ParseStreamStart \/ ParseDocumentStart \/ ParseDocumentEnd
  BY <1>1, StreamStartStep, DocumentStartStep, DocumentEndStep
<1>2. CASE ParseBlockNode \/ ParseDocumentContent
  BY <1>2, BlockNodeStep, DocumentContentStep
<1>3. CASE ParseIndentlessSequenceEntry \/ ParseBlockMappingValue
  BY <1>3, IndentlessSequenceEntryStep, BlockMappingValueStep
<1>4. CASE \/ ParseFlowSequenceEntryMappingKey
           \/ ParseFlowSequenceEntryMappingValue
           \/ ParseFlowSequenceEntryMappingEnd
  BY <1>4, FlowSequenceEntryMappingKeyStep, FlowSequenceEntryMappingValueStep,
     FlowSequenceEntryMappingEndStep
<1>5. ASSUME NEW first \in BOOLEAN,
             \/ ParseBlockSequenceEntry(first)
             \/ ParseBlockMappingKey(first)
             \/ ParseFlowSequenceEntry(first)
             \/ ParseFlowMappingKey(first)
             \/ ParseFlowMappingValue(first)
      PROVE  Inv'
  BY <1>5, BlockSequenceEntryStep, BlockMappingKeyStep, FlowSequenceEntryStep,
     FlowMappingKeyStep, FlowMappingValueStep
<1> QED BY <1>1, <1>2, <1>3, <1>4, <1>5 DEF StateMachine

(* A call after the end, or after an error, changes only the event.        *)
LEMMA NoMoreEventsStep ==
    ASSUME Inv, NoMoreEvents
    PROVE  Inv'
<1>1. event' \in Event
  BY DEF NoMoreEvents, NullEvent, Event, EventType
<1> QED BY <1>1 DEF NoMoreEvents, stacks, directives, tokens, Inv, TypeOK, StackDiscipline,
                   OpenerAtHead, DirectiveScope, Current, IsOneOf

(* Every step preserves the invariant.                                     *)
LEMMA NextInv == Inv /\ [Next]_vars => Inv'
<1> SUFFICES ASSUME Inv, [Next]_vars PROVE Inv'
  OBVIOUS
<1>1. CASE Parse
  BY <1>1, StateMachineStep DEF Parse, Finished
<1>2. CASE NoMoreEvents
  BY <1>2, NoMoreEventsStep
<1>3. CASE UNCHANGED vars
  BY <1>3 DEF vars, stacks, directives, tokens, Inv, TypeOK, StackDiscipline,
              OpenerAtHead, DirectiveScope, Current, IsOneOf
<1> QED BY <1>1, <1>2, <1>3 DEF Next

-----------------------------------------------------------------------------
(***************************************************************************)
(* The theorems.                                                           *)
(***************************************************************************)

(* The inductive invariant holds whatever tokens the scanner delivers, in  *)
(* every nesting of collections.                                           *)
THEOREM InvariantHolds == Spec => []Inv
<1>1. Init => Inv
  BY InitInv
<1>2. Inv /\ [Next]_vars => Inv'
  BY NextInv
<1> QED BY <1>1, <1>2, PTL DEF Spec

(* The parser object of parser.c stays well-typed.                         *)
THEOREM TypeCorrect == Spec => []TypeOK
<1>1. Inv => TypeOK
  BY DEF Inv
<1> QED BY <1>1, InvariantHolds, PTL

(* POP(parser, parser->states) never meets an empty stack: DOCUMENT_END is *)
(* at the bottom inside a document, continuations of collections above it. *)
THEOREM StatesNeverUnderflow == Spec => []StackDiscipline
<1>1. Inv => StackDiscipline
  BY DEF Inv
<1> QED BY <1>1, InvariantHolds, PTL

(* The FIRST states, which read the token they peek without a check for    *)
(* NULL, find their own opening token in the queue.                        *)
THEOREM FirstStatesFindTheirToken == Spec => []OpenerAtHead
<1>1. Inv => OpenerAtHead
  BY DEF Inv
<1> QED BY <1>1, InvariantHolds, PTL

(* Tag directives never outlive their document, no handle has two          *)
(* meanings, and every document knows the default handles.                 *)
THEOREM DirectivesAreScoped == Spec => []DirectiveScope
<1>1. Inv => DirectiveScope
  BY DEF Inv
<1> QED BY <1>1, InvariantHolds, PTL

-----------------------------------------------------------------------------
(***************************************************************************)
(* The events of successive calls form a stream (Parser refines            *)
(* EventStream), and the marks are those of the open collections.  Both    *)
(* read a stack of return states as the concatenation of what each state   *)
(* has open.                                                               *)
(***************************************************************************)
-----------------------------------------------------------------------------
(***************************************************************************)
(* What a stack of return states has open, and the marks it owns.          *)
(***************************************************************************)
ConstructOf == [q \in State |-> Constructs(q)]
MarkMap == [q \in State |-> MarkOf(q)]

OpenOf(s) == Along(ConstructOf, s)
MarksOf(s) == Along(MarkMap, s)

(* The sequence operators EventStream reaches are those of this module.    *)
LEMMA SameOperators ==
    \A s : Stream!Last(s) = Last(s) /\ Stream!Front(s) = Front(s)
BY DEF Stream!Last, Stream!Front, Last, Front

(* The maps are well-typed. *)
LEMMA MapsTyped ==
    /\ ConstructOf \in [State -> Seq(Stream!Construct)]
    /\ MarkMap \in [State -> Seq(Opener)]
<1>1. ASSUME NEW q \in State PROVE Constructs(q) \in Seq(Stream!Construct)
  <2>1. /\ <<>> \in Seq(Stream!Construct)
        /\ \A c \in Stream!Construct : <<c>> \in Seq(Stream!Construct)
        /\ \A c, d \in Stream!Construct : <<c, d>> \in Seq(Stream!Construct)
    OBVIOUS
  <2>2. Constructs(q) \in {<<>>, <<"docEnd">>, <<"seq">>, <<"key">>, <<"value">>,
                           <<"seq", "key">>, <<"seq", "value">>}
    BY DEF State, OutsideState, DocumentState, BlockState, FlowState, Constructs
  <2>3. {"docEnd", "seq", "key", "value"} \subseteq Stream!Construct
    BY DEF Stream!Construct
  <2> QED BY <2>1, <2>2, <2>3
<1>2. ASSUME NEW q \in State PROVE MarkOf(q) \in Seq(Opener)
  <2>1. OwnsMark(q) => OpenerOf(q) \in Opener
    BY DEF OwnsMark, OpenerOf, Continuation, BlockState, FlowState, FirstState, Opener,
           BlockOpener, FlowOpener
  <2> QED BY <2>1 DEF MarkOf
<1> QED BY <1>1, <1>2 DEF ConstructOf, MarkMap

(* The concatenations the invariant and the refinement mapping write out.  *)
LEMMA AlongStates ==
    ASSUME NEW s \in Seq(State)
    PROVE  /\ FlattenSeq([i \in 1..Len(s) |-> Constructs(s[i])]) = OpenOf(s)
           /\ FlattenSeq([i \in 1..Len(s) |-> MarkOf(s[i])]) = MarksOf(s)
<1>1. \A i \in 1..Len(s) : s[i] \in State
  BY ElementOfSeq
<1>2. [i \in 1..Len(s) |-> Constructs(s[i])] = [i \in 1..Len(s) |-> ConstructOf[s[i]]]
  BY <1>1 DEF ConstructOf
<1>3. [i \in 1..Len(s) |-> MarkOf(s[i])] = [i \in 1..Len(s) |-> MarkMap[s[i]]]
  BY <1>1 DEF MarkMap
<1> QED BY <1>2, <1>3 DEF OpenOf, MarksOf, Along

(* PUSH adds what the pushed state has open, POP hands back what the top   *)
(* has.                                                                    *)
LEMMA StackMaps ==
    ASSUME NEW s \in Seq(State)
    PROVE  /\ OpenOf(s) \in Seq(Stream!Construct)
           /\ MarksOf(s) \in Seq(Opener)
           /\ s = <<>> => OpenOf(s) = <<>> /\ MarksOf(s) = <<>>
           /\ \A q \in State : /\ OpenOf(Append(s, q)) = OpenOf(s) \o Constructs(q)
                               /\ MarksOf(Append(s, q)) = MarksOf(s) \o MarkOf(q)
           /\ s # <<>> => /\ OpenOf(s) = OpenOf(Front(s)) \o Constructs(Last(s))
                          /\ MarksOf(s) = MarksOf(Front(s)) \o MarkOf(Last(s))
<1>1. s # <<>> => Last(s) \in State
  BY FrontProperties
<1>0. ASSUME NEW S, NEW m \in [State -> Seq(S)]
      PROVE  /\ Along(m, s) \in Seq(S)
             /\ s = <<>> => Along(m, s) = <<>>
             /\ \A q \in State : Along(m, Append(s, q)) = Along(m, s) \o m[q]
             /\ s # <<>> => Along(m, s) = Along(m, Front(s)) \o m[Last(s)]
  <2>1. m \in Meanings(State, S)
    BY DEF Meanings
  <2> QED BY <2>1, AlongProperties
<1>2. /\ OpenOf(s) \in Seq(Stream!Construct)
      /\ s = <<>> => OpenOf(s) = <<>>
      /\ \A q \in State : OpenOf(Append(s, q)) = OpenOf(s) \o ConstructOf[q]
      /\ s # <<>> => OpenOf(s) = OpenOf(Front(s)) \o ConstructOf[Last(s)]
  BY <1>0, MapsTyped DEF OpenOf
<1>3. /\ MarksOf(s) \in Seq(Opener)
      /\ s = <<>> => MarksOf(s) = <<>>
      /\ \A q \in State : MarksOf(Append(s, q)) = MarksOf(s) \o MarkMap[q]
      /\ s # <<>> => MarksOf(s) = MarksOf(Front(s)) \o MarkMap[Last(s)]
  BY <1>0, MapsTyped DEF MarksOf
<1>4. \A q \in State : ConstructOf[q] = Constructs(q) /\ MarkMap[q] = MarkOf(q)
  BY DEF ConstructOf, MarkMap
<1> QED BY <1>1, <1>2, <1>3, <1>4

(* The states before the root node of a document. *)
RootState == {"BLOCK_NODE", "DOCUMENT_CONTENT"}

-----------------------------------------------------------------------------
(***************************************************************************)
(* The inductive invariant of the refinement.                              *)
(***************************************************************************)

(* Before its root node a document has nothing open but itself.            *)
DocumentRoot == error = "none" /\ state \in RootState => states = <<"DOCUMENT_END">>

RefinementInv == Inv /\ DocumentRoot /\ MarksOfOpenCollections

(* The open constructs of a state, by the case it is in.                   *)
LEMMA Mapping ==
    ASSUME states \in Seq(State)
    PROVE  /\ error # "none" => openConstructs = <<>>
           /\ error = "none" /\ state \in RootState => openConstructs = <<"root">>
           /\ error = "none" /\ state \notin RootState =>
                 openConstructs = OpenOf(states) \o Constructs(state)
           /\ MarksOfOpenCollections <=>
                 (error = "none" => marks = MarksOf(states) \o MarkOf(state))
<1>1. /\ FlattenSeq([i \in 1..Len(states) |-> Constructs(states[i])]) = OpenOf(states)
      /\ FlattenSeq([i \in 1..Len(states) |-> MarkOf(states[i])]) = MarksOf(states)
  BY AlongStates
<1> QED BY <1>1 DEF openConstructs, MarksOfOpenCollections, RootState

LEMMA MappingNext ==
    ASSUME states' \in Seq(State)
    PROVE  /\ error' # "none" => openConstructs' = <<>>
           /\ error' = "none" /\ state' \in RootState => openConstructs' = <<"root">>
           /\ error' = "none" /\ state' \notin RootState =>
                 openConstructs' = OpenOf(states') \o Constructs(state')
           /\ MarksOfOpenCollections' <=>
                 (error' = "none" => marks' = MarksOf(states') \o MarkOf(state'))
<1>1. /\ FlattenSeq([i \in 1..Len(states') |-> Constructs(states'[i])]) = OpenOf(states')
      /\ FlattenSeq([i \in 1..Len(states') |-> MarkOf(states'[i])]) = MarksOf(states')
  BY AlongStates
<1> QED BY <1>1 DEF openConstructs, MarksOfOpenCollections, RootState

-----------------------------------------------------------------------------
(***************************************************************************)
(* What a step must show.                                                  *)
(***************************************************************************)

(* A step of the stream, which keeps the rest of the invariant. *)
StreamStep == Stream!Next /\ DocumentRoot' /\ MarksOfOpenCollections'

(* The innermost construct, and the rest. *)
LEMMA Innermost ==
    ASSUME NEW S, NEW s \in Seq(S), NEW c \in S
    PROVE  /\ s \o <<c>> \in Seq(S) /\ s \o <<c>> = Append(s, c)
           /\ s \o <<c>> # <<>> /\ Last(s \o <<c>>) = c /\ Front(s \o <<c>>) = s
<1> DEFINE t == s \o <<c>>
<1>1. /\ t \in Seq(S) /\ t # <<>>
      /\ Len(s) \in Nat /\ Len(t) = Len(s) + 1
      /\ t[Len(s) + 1] = c
      /\ \A i \in 1..Len(s) : t[i] = s[i]
  OBVIOUS
<1>2. Last(t) = c
  BY <1>1 DEF Last
<1>3. Front(t) = s
  <2> HIDE DEF t
  <2>1. /\ Front(t) \in Seq(S)
        /\ Len(Front(t)) = Len(t) - 1
        /\ \A i \in 1..Len(t) - 1 : Front(t)[i] = t[i]
    BY <1>1, FrontProperties
  <2>2. Len(Front(t)) = Len(s) /\ \A i \in 1..Len(s) : Front(t)[i] = s[i]
    BY <1>1, <2>1
  <2> QED BY <2>1, <2>2, SeqEqual
<1>4. t = Append(s, c)
  BY AppendIsConcat
<1> QED BY <1>1, <1>2, <1>3, <1>4

(* The constructs of a single pair in a flow sequence are two. *)
LEMMA TwoConstructs ==
    ASSUME NEW S, NEW s \in Seq(S), NEW b \in S, NEW c \in S
    PROVE  s \o <<b, c>> = (s \o <<b>>) \o <<c>> /\ s \o <<b>> \in Seq(S)
<1> DEFINE one == <<b>>
           two == <<b, c>>
           last == <<c>>
           appended == Append(one, c)
<1>1. /\ one \in Seq(S) /\ Len(one) = 1 /\ one[1] = b
      /\ two \in Seq(S) /\ Len(two) = 2 /\ two[1] = b /\ two[2] = c
      /\ last \in Seq(S)
  OBVIOUS
<1>2. appended \in Seq(S) /\ Len(appended) = 2 /\ appended[1] = b /\ appended[2] = c
  OBVIOUS
<1>3. appended = one \o last
  BY <1>1, AppendIsConcat
<1> HIDE DEF one, two, last, appended
<1>4. two = appended
  BY <1>1, <1>2, SeqEqual
<1>5. (s \o one) \o last = s \o (one \o last)
  BY <1>1, ConcatAssociative
<1>6. s \o one \in Seq(S)
  BY <1>1, ConcatProperties
<1> QED BY <1>3, <1>4, <1>5, <1>6 DEF one, two, last

(* An error ends the stream, wherever it happens. *)
LEMMA FailedMaps ==
    ASSUME error = "none", state # "END", error' # "none", event' = NullEvent
    PROVE  StreamStep
<1>1. streamPhase \in {"before", "stream"} /\ streamPhase' = "aborted"
  BY DEF streamPhase
<1>2. openConstructs' = <<>>
  BY DEF openConstructs
<1>3. Stream!Abort
  BY <1>1, <1>2 DEF Stream!Abort, Stream!Deliver, NullEvent
<1> QED BY <1>3 DEF StreamStep, Stream!Next, DocumentRoot, MarksOfOpenCollections

-----------------------------------------------------------------------------
(***************************************************************************)
(* A node begins.                                                          *)
(***************************************************************************)
SequenceFirst == {"BLOCK_SEQUENCE_FIRST_ENTRY", "FLOW_SEQUENCE_FIRST_ENTRY",
                  "INDENTLESS_SEQUENCE_ENTRY"}
MappingFirst == {"BLOCK_MAPPING_FIRST_KEY", "FLOW_MAPPING_FIRST_KEY"}

Delivers(type, anchor) == event' = [type |-> type, anchor |-> anchor]

Leaf == \/ \E x \in Anchors : Delivers("ALIAS", x)
        \/ \E x \in Anchors \cup {NoAnchor} : Delivers("SCALAR", x)

Branch == \E x \in Anchors \cup {NoAnchor} :
             \/ state' \in SequenceFirst /\ Delivers("SEQUENCE-START", x)
             \/ state' \in MappingFirst /\ Delivers("MAPPING-START", x)

(* The ways a call for a node ends, that was to return to stack. *)
NodeBegun(stack) == \/ error' # "none" /\ event' = NullEvent
                    \/ UNCHANGED error /\ Return(stack) /\ Leaf
                    \/ UNCHANGED error /\ states' = stack /\ Branch

(* parse_node fails, returns a leaf, or opens a collection. *)
LEMMA ParseNodeBegins ==
    ASSUME NEW c \in Cursor, NEW stack, NEW block \in BOOLEAN, NEW indentless \in BOOLEAN,
           ParseNode(c, stack, block, indentless)
    PROVE  NodeBegun(stack)
<1>1. CASE Is(c, "ALIAS") /\ Return(stack) /\ Emit("ALIAS", c.token.data)
  <2>1. c.token.data \in Anchors
    BY <1>1, TokenData DEF Is, Cursor
  <2> QED BY <1>1, <2>1 DEF NodeBegun, Leaf, Emit, Delivers
<1>2. ASSUME NEW p \in Properties(c), FetchFails(p.next, stack)
      PROVE  NodeBegun(stack)
  BY <1>2 DEF FetchFails, Fail, NodeBegun
<1>3. ASSUME NEW p \in Properties(c), NodeContent(p, stack, block, indentless)
      PROVE  NodeBegun(stack)
  <2> DEFINE t == p.next.token.type
  <2>1. p.anchor \in Anchors \cup {NoAnchor}
    BY PropertiesTyped DEF PropertyRecord
  <2>2. \/ Fail("undefined tag handle") \/ Fail("syntax")
        \/ Return(stack) /\ Emit("SCALAR", p.anchor)
        \/ OpenCollection(p, stack, "INDENTLESS_SEQUENCE_ENTRY", "SEQUENCE-START")
        \/ t \in Opener /\ OpenCollection(p, stack, OpenerState(t), OpenerEvent(t))
    BY <1>3 DEF NodeContent, IsOneOf, Openers, Opener
  <2>3. CASE Fail("undefined tag handle") \/ Fail("syntax")
    BY <2>3 DEF Fail, NodeBegun
  <2>4. CASE Return(stack) /\ Emit("SCALAR", p.anchor)
    BY <2>1, <2>4 DEF NodeBegun, Leaf, Emit, Delivers
  <2>5. CASE OpenCollection(p, stack, "INDENTLESS_SEQUENCE_ENTRY", "SEQUENCE-START")
    BY <2>1, <2>5 DEF OpenCollection, Emit, NodeBegun, Branch, Delivers, SequenceFirst
  <2>6. CASE t \in Opener /\ OpenCollection(p, stack, OpenerState(t), OpenerEvent(t))
    <3>1. \/ OpenerState(t) \in SequenceFirst /\ OpenerEvent(t) = "SEQUENCE-START"
          \/ OpenerState(t) \in MappingFirst /\ OpenerEvent(t) = "MAPPING-START"
      BY <2>6 DEF Opener, BlockOpener, FlowOpener, OpenerState, OpenerEvent,
                  SequenceFirst, MappingFirst
    <3> HIDE DEF t
    <3>2. UNCHANGED error /\ states' = stack
      BY <2>6 DEF OpenCollection, Emit
    <3>3. state' = OpenerState(t) /\ Delivers(OpenerEvent(t), p.anchor)
      BY <2>6 DEF OpenCollection, Emit, Delivers
    <3> QED BY <2>1, <3>1, <3>2, <3>3 DEF NodeBegun, Branch
  <2> QED BY <2>2, <2>3, <2>4, <2>5, <2>6
<1> QED BY <1>1, <1>2, <1>3 DEF ParseNode

(* A node that is absent is a leaf: what would be pushed is the next state. *)
LEMMA AbsentNodeBegins ==
    ASSUME states \in Seq(State), NEW n \in State, AbsentNode(n)
    PROVE  NodeBegun(Append(states, n))
<1>1. Append(states, n) = states \o <<n>>
  BY AppendIsConcat
<1>2. Last(states \o <<n>>) = n /\ Front(states \o <<n>>) = states
  <2> SUFFICES ASSUME NEW s \in Seq(State)
               PROVE  Last(s \o <<n>>) = n /\ Front(s \o <<n>>) = s
    OBVIOUS
  <2> QED BY Innermost
<1> QED BY <1>1, <1>2 DEF AbsentNode, EmptyScalar, Emit, NodeBegun, Return, Leaf, Delivers

(* An entry's indicator is followed by a node, or by none. *)
LEMMA NodeAfterBegins ==
    ASSUME states \in Seq(State), NEW c \in Cursor, NEW absent, NEW n \in State,
           NEW block \in BOOLEAN, NEW indentless \in BOOLEAN,
           NodeAfter(c, absent, n, block, indentless)
    PROVE  NodeBegun(Append(states, n))
<1>1. PICK d \in PeekAfter(c) :
         \/ FetchFails(d, states)
         \/ AbsentNode(n)
         \/ ParseNode(d, Append(states, n), block, indentless)
  BY DEF NodeAfter
<1>2. d \in Cursor
  BY PeekAfterCursor
<1>3. CASE FetchFails(d, states)
  BY <1>3 DEF FetchFails, Fail, NodeBegun
<1>4. CASE AbsentNode(n)
  BY <1>4, AbsentNodeBegins
<1>5. CASE ParseNode(d, Append(states, n), block, indentless)
  BY <1>2, <1>5, ParseNodeBegins
<1> QED BY <1>1, <1>3, <1>4, <1>5

(* The stream takes a node, after which the constructs of stack are open. *)
TakesNode(stack) == Stream!AcceptsNode /\ Stream!Advanced = OpenOf(stack)

(* Inside a document the stream goes on; what opens, or returns, does too. *)
LEMMA PhaseInside ==
    ASSUME state \in Inside, error = "none"
    PROVE  streamPhase = "stream"
BY DEF streamPhase, Inside, DocumentState, BlockState, FlowState

LEMMA PhaseInsideNext ==
    ASSUME state' \in Inside, error' = "none"
    PROVE  streamPhase' = "stream"
BY DEF streamPhase, Inside, DocumentState, BlockState, FlowState

(* POP never yields the state before a root node. *)
LEMMA PopIsNoRoot ==
    ASSUME NEW s, GoodStack(s)
    PROVE  Last(s) \notin RootState
<1>1. s \in Seq(State) /\ s # <<>>
  BY DEF GoodStack
<1>2. Len(s) \in Nat /\ Len(s) >= 1
  BY <1>1, FrontProperties
<1>3. CASE Len(s) = 1
  BY <1>3 DEF GoodStack, Last, RootState
<1>4. CASE Len(s) # 1
  <2>1. Len(s) \in 2..Len(s)
    BY <1>2, <1>4
  <2>2. Last(s) \in Continuation
    BY <2>1 DEF GoodStack, Last
  <2> QED BY <2>2 DEF Continuation, BlockState, FlowState, RootState
<1> QED BY <1>3, <1>4

(* A node that begins is an event of the stream, and leaves the marks of   *)
(* what it returns to.                                                     *)
LEMMA NodeMaps ==
    ASSUME Inv', error = "none", state \in Inside,
           NEW stack, GoodStack(stack), NodeBegun(stack), TakesNode(stack),
           error' = "none" => marks' = MarksOf(stack)
    PROVE  StreamStep
<1>0. stack \in Seq(State) /\ states' \in Seq(State) /\ streamPhase = "stream" /\ state # "END"
  BY PhaseInside DEF GoodStack, Inv, TypeOK, Inside, DocumentState, BlockState, FlowState
<1>1. CASE error' # "none" /\ event' = NullEvent
  BY <1>0, <1>1, FailedMaps
<1>2. CASE UNCHANGED error /\ Return(stack) /\ Leaf
  <2>1. /\ state' = Last(stack) /\ states' = Front(stack) /\ error' = "none"
        /\ state' \in Inside /\ state' \notin RootState
    BY <1>2, PopGood, PopIsNoRoot DEF Return
  <2>2. OpenOf(stack) = OpenOf(states') \o Constructs(state')
        /\ MarksOf(stack) = MarksOf(states') \o MarkOf(state')
    BY <1>0, <2>1, StackMaps DEF GoodStack
  <2>3. openConstructs' = Stream!Advanced /\ MarksOfOpenCollections'
    BY <1>0, <2>1, <2>2, MappingNext DEF TakesNode
  <2>4. streamPhase' = "stream" /\ DocumentRoot'
    BY <2>1, PhaseInsideNext DEF DocumentRoot
  <2>5. Stream!Node
    BY <1>0, <1>2, <2>3, <2>4
    DEF TakesNode, Leaf, Delivers, Stream!Node, Stream!Alias, Stream!Scalar, Stream!Deliver
  <2> QED BY <2>3, <2>4, <2>5 DEF StreamStep, Stream!Next
<1>3. CASE UNCHANGED error /\ states' = stack /\ Branch
  <2>1. /\ error' = "none" /\ state' \in Inside /\ state' \notin RootState
        /\ MarkOf(state') = <<>>
        /\ state' \in SequenceFirst => Constructs(state') = <<"seq">>
        /\ state' \in MappingFirst => Constructs(state') = <<"key">>
    BY <1>3 DEF Branch, SequenceFirst, MappingFirst, Inside, DocumentState, BlockState,
                FlowState, RootState, MarkOf, OwnsMark, Continuation, FirstState,
                Constructs, OutsideState
  <2>2. OpenOf(stack) \in Seq(Stream!Construct) /\ MarksOf(stack) \in Seq(Opener)
    BY <1>0, StackMaps
  <2>3. /\ openConstructs' = OpenOf(stack) \o Constructs(state')
        /\ MarksOfOpenCollections' <=> marks' = MarksOf(stack) \o MarkOf(state')
    BY <1>0, <1>3, <2>1, MappingNext
  <2>4. MarksOfOpenCollections'
    BY <2>1, <2>2, <2>3, ConcatEmptySeq
  <2>5. \A c \in Stream!Construct : OpenOf(stack) \o <<c>> = Append(OpenOf(stack), c)
    BY <2>2, AppendIsConcat
  <2>6. streamPhase' = "stream" /\ DocumentRoot'
    BY <2>1, PhaseInsideNext DEF DocumentRoot
  <2>7. "seq" \in Stream!Construct /\ "key" \in Stream!Construct
    BY DEF Stream!Construct
  <2>8. /\ state' \in SequenceFirst => openConstructs' = Append(Stream!Advanced, "seq")
        /\ state' \in MappingFirst => openConstructs' = Append(Stream!Advanced, "key")
    BY <2>1, <2>3, <2>5, <2>7 DEF TakesNode
  <2>9. Stream!Node
    BY <1>0, <1>3, <2>6, <2>8
    DEF TakesNode, Branch, Delivers, Stream!Node, Stream!SequenceStart, Stream!MappingStart,
        Stream!Deliver
  <2> QED BY <2>4, <2>6, <2>9 DEF StreamStep, Stream!Next
<1> QED BY <1>1, <1>2, <1>3 DEF NodeBegun

-----------------------------------------------------------------------------
(***************************************************************************)
(* The items of a collection.                                              *)
(***************************************************************************)

(* Going from q to n is what the innermost construct of q does when a      *)
(* child begins.                                                           *)
Advances(q, n) ==
    \E t \in Stream!Construct \ {"docEnd"} :
       \/ Constructs(q) = <<t>> /\ Constructs(n) = <<Stream!AfterChild(t)>>
       \/ Constructs(q) = <<"seq", t>> /\ Constructs(n) = <<"seq", Stream!AfterChild(t)>>

(* n is a state of the collection that q is in, past its FIRST state. *)
SameMark(q, n) == IF q \in FirstState
                  THEN OwnsMark(n) /\ OpenerState(OpenerOf(n)) = q
                  ELSE MarkOf(n) = MarkOf(q)

(* Where each state function returns to after the node it begins. *)
NextItem ==
    {<<"BLOCK_SEQUENCE_FIRST_ENTRY", "BLOCK_SEQUENCE_ENTRY">>,
     <<"BLOCK_SEQUENCE_ENTRY", "BLOCK_SEQUENCE_ENTRY">>,
     <<"INDENTLESS_SEQUENCE_ENTRY", "INDENTLESS_SEQUENCE_ENTRY">>,
     <<"BLOCK_MAPPING_FIRST_KEY", "BLOCK_MAPPING_VALUE">>,
     <<"BLOCK_MAPPING_KEY", "BLOCK_MAPPING_VALUE">>,
     <<"BLOCK_MAPPING_VALUE", "BLOCK_MAPPING_KEY">>,
     <<"FLOW_SEQUENCE_FIRST_ENTRY", "FLOW_SEQUENCE_ENTRY">>,
     <<"FLOW_SEQUENCE_ENTRY", "FLOW_SEQUENCE_ENTRY">>,
     <<"FLOW_SEQUENCE_ENTRY_MAPPING_KEY", "FLOW_SEQUENCE_ENTRY_MAPPING_VALUE">>,
     <<"FLOW_SEQUENCE_ENTRY_MAPPING_VALUE", "FLOW_SEQUENCE_ENTRY_MAPPING_END">>,
     <<"FLOW_MAPPING_FIRST_KEY", "FLOW_MAPPING_VALUE">>,
     <<"FLOW_MAPPING_FIRST_KEY", "FLOW_MAPPING_EMPTY_VALUE">>,
     <<"FLOW_MAPPING_KEY", "FLOW_MAPPING_VALUE">>,
     <<"FLOW_MAPPING_KEY", "FLOW_MAPPING_EMPTY_VALUE">>,
     <<"FLOW_MAPPING_VALUE", "FLOW_MAPPING_KEY">>,
     <<"FLOW_MAPPING_EMPTY_VALUE", "FLOW_MAPPING_KEY">>}

(* They all move the innermost construct on, within the same collection.   *)
LEMMA ItemsAdvance ==
    ASSUME NEW q, NEW n, <<q, n>> \in NextItem
    PROVE  /\ Advances(q, n) /\ SameMark(q, n)
           /\ n \in Continuation
           /\ q \in Inside \ (RootState \cup {"DOCUMENT_END"})
<1>1. /\ n \in Continuation
      /\ q \in Inside \ (RootState \cup {"DOCUMENT_END"})
  BY DEF NextItem, Continuation, Inside, DocumentState, BlockState, FlowState, RootState, FirstState
<1>2. SameMark(q, n)
  BY DEF NextItem, SameMark, FirstState, MarkOf, OwnsMark, OpenerOf, OpenerState,
         Continuation, BlockState, FlowState
<1>3. Advances(q, n)
  <2>1. \/ Constructs(q) = <<"seq">> /\ Constructs(n) = <<"seq">>
        \/ Constructs(q) = <<"key">> /\ Constructs(n) = <<"value">>
        \/ Constructs(q) = <<"value">> /\ Constructs(n) = <<"key">>
        \/ Constructs(q) = <<"seq", "key">> /\ Constructs(n) = <<"seq", "value">>
        \/ Constructs(q) = <<"seq", "value">> /\ Constructs(n) = <<"seq", "key">>
    BY DEF NextItem, Constructs, OutsideState
  <2>2. /\ Stream!AfterChild("seq") = "seq" /\ Stream!AfterChild("key") = "value"
        /\ Stream!AfterChild("value") = "key"
        /\ {"seq", "key", "value"} \subseteq Stream!Construct \ {"docEnd"}
    BY DEF Stream!AfterChild, Stream!Construct
  <2> QED BY <2>1, <2>2 DEF Advances
<1> QED BY <1>1, <1>2, <1>3

(* A collection takes a node, and waits for the next item then.            *)
LEMMA ItemTakesNode ==
    ASSUME Inv, error = "none", NEW n, <<state, n>> \in NextItem
    PROVE  /\ TakesNode(Append(states, n))
           /\ MarksOf(Append(states, n)) = MarksOf(states) \o MarkOf(n)
           /\ GoodStack(Append(states, n))
<1>1. /\ Advances(state, n) /\ n \in Continuation
      /\ state \in Inside \ {"DOCUMENT_END"} /\ state \notin RootState
  BY ItemsAdvance
<1>2. GoodStack(states) /\ states \in Seq(State) /\ n \in State
  BY <1>1, InsideStack DEF Continuation, State
<1>3. /\ OpenOf(Append(states, n)) = OpenOf(states) \o Constructs(n)
      /\ MarksOf(Append(states, n)) = MarksOf(states) \o MarkOf(n)
      /\ OpenOf(states) \in Seq(Stream!Construct)
  BY <1>2, StackMaps
<1>4. openConstructs = OpenOf(states) \o Constructs(state)
  BY <1>1, <1>2, Mapping
<1>5. TakesNode(Append(states, n))
  <2>1. PICK t \in Stream!Construct \ {"docEnd"} :
           \/ Constructs(state) = <<t>> /\ Constructs(n) = <<Stream!AfterChild(t)>>
           \/ Constructs(state) = <<"seq", t>> /\ Constructs(n) = <<"seq", Stream!AfterChild(t)>>
    BY <1>1 DEF Advances
  <2>2. Stream!AfterChild(t) \in Stream!Construct /\ "seq" \in Stream!Construct
    BY DEF Stream!AfterChild, Stream!Construct
  <2>3. PICK s \in Seq(Stream!Construct) :
           /\ openConstructs = s \o <<t>>
           /\ OpenOf(Append(states, n)) = s \o <<Stream!AfterChild(t)>>
    <3>1. CASE Constructs(state) = <<t>> /\ Constructs(n) = <<Stream!AfterChild(t)>>
      BY <1>3, <1>4, <3>1
    <3>2. CASE Constructs(state) = <<"seq", t>> /\ Constructs(n) = <<"seq", Stream!AfterChild(t)>>
      <4>1. \A r \in Seq(Stream!Construct), c \in Stream!Construct :
               /\ r \o <<"seq", c>> = (r \o <<"seq">>) \o <<c>>
               /\ r \o <<"seq">> \in Seq(Stream!Construct)
        BY <2>2, TwoConstructs
      <4>2. /\ openConstructs = (OpenOf(states) \o <<"seq">>) \o <<t>>
            /\ OpenOf(Append(states, n)) = (OpenOf(states) \o <<"seq">>) \o <<Stream!AfterChild(t)>>
            /\ OpenOf(states) \o <<"seq">> \in Seq(Stream!Construct)
        BY <1>3, <1>4, <2>2, <3>2, <4>1
      <4> QED BY <4>2
    <3> QED BY <2>1, <3>1, <3>2
  <2>4. /\ s \o <<t>> # <<>> /\ Last(s \o <<t>>) = t /\ Front(s \o <<t>>) = s
        /\ Append(s, Stream!AfterChild(t)) = s \o <<Stream!AfterChild(t)>>
    BY <2>2, Innermost
  <2>5. Stream!Last(openConstructs) = t /\ Stream!Front(openConstructs) = s
    BY <2>3, <2>4, SameOperators
  <2> QED BY <2>3, <2>4, <2>5 DEF TakesNode, Stream!AcceptsNode, Stream!Advanced
<1> QED BY <1>1, <1>2, <1>3, <1>5, PushGood

(* An item is a node of the stream. *)
LEMMA ItemMaps ==
    ASSUME Inv, Inv', error = "none", NEW n, <<state, n>> \in NextItem,
           NodeBegun(Append(states, n)), marks' = MarksOf(states) \o MarkOf(n)
    PROVE  StreamStep
<1>1. state \in Inside
  BY ItemsAdvance
<1> QED BY <1>1, ItemTakesNode, NodeMaps

(* The marks on entry to a state function, past the FIRST state.           *)
LEMMA EntriesMarks ==
    ASSUME RefinementInv, error = "none", NEW first \in BOOLEAN,
           first <=> state \in FirstState, NEW e \in Entries(first),
           NEW n, <<state, n>> \in NextItem, OwnsMark(n)
    PROVE  e.marks = MarksOf(states) \o MarkOf(n) /\ Front(e.marks) = MarksOf(states)
<1>1. /\ states \in Seq(State) /\ MarksOf(states) \in Seq(Opener)
      /\ marks = MarksOf(states) \o MarkOf(state)
      /\ marks \in Seq(Opener)
  BY StackMaps, Mapping DEF RefinementInv, Inv, TypeOK, Opener
<1>2. SameMark(state, n) /\ MarkOf(n) = <<OpenerOf(n)>>
  BY ItemsAdvance DEF MarkOf
<1>3. OpenerOf(n) \in Opener
  BY DEF OwnsMark, OpenerOf, Continuation, BlockState, FlowState, FirstState, Opener,
         BlockOpener, FlowOpener
<1>4. e.marks = MarksOf(states) \o <<OpenerOf(n)>>
  <2>1. CASE first
    <3>1. IsOneOf(Current, Opener) /\ OpenerState(head.type) = state
      BY <2>1 DEF RefinementInv, Inv, OpenerAtHead, Opener
    <3>2. head.type \in Opener /\ Peek = {Current} /\ Current.token = head
      BY <3>1 DEF IsOneOf, Current, Peek
    <3>3. e.marks = Append(marks, head.type)
      BY <2>1, <3>2 DEF Entries
    <3>4. OpenerState(OpenerOf(n)) = state
      BY <1>2, <2>1 DEF SameMark
    <3>5. head.type = OpenerOf(n)
      BY <1>3, <3>1, <3>2, <3>4 DEF Opener, BlockOpener, FlowOpener, OpenerState
    <3>6. MarkOf(state) = <<>>
      BY <2>1 DEF MarkOf, OwnsMark, FirstState, Continuation
    <3>7. marks = MarksOf(states)
      BY <1>1, <3>6, ConcatEmptySeq
    <3> QED BY <1>1, <1>3, <3>3, <3>5, <3>7, AppendIsConcat
  <2>2. CASE ~first
    <3>1. e.marks = marks
      BY <2>2 DEF Entries
    <3>2. MarkOf(n) = MarkOf(state)
      BY <1>2, <2>2 DEF SameMark
    <3> QED BY <1>1, <1>2, <3>1, <3>2
  <2> QED BY <2>1, <2>2
<1>5. ASSUME NEW s \in Seq(Opener) PROVE Front(s \o <<OpenerOf(n)>>) = s
  BY <1>3, Innermost
<1> QED BY <1>1, <1>2, <1>4, <1>5

(* A collection closes: its construct and its mark go, the rest stays.     *)
LEMMA CloseMaps ==
    ASSUME Inv, Inv', error = "none", state \in Inside \ (RootState \cup {"DOCUMENT_END"}),
           NEW type,
           \/ Constructs(state) = <<"seq">> /\ type = "SEQUENCE-END"
           \/ Constructs(state) = <<"key">> /\ type = "MAPPING-END",
           Return(states), Emit(type, NoAnchor), marks' = MarksOf(states)
    PROVE  StreamStep
<1>1. /\ GoodStack(states) /\ states \in Seq(State) /\ states # <<>>
      /\ states' \in Seq(State) /\ streamPhase = "stream"
  BY InsideStack, PhaseInside DEF GoodStack, Inv, TypeOK
<1>2. /\ state' = Last(states) /\ states' = Front(states) /\ error' = "none"
      /\ state' \in Inside /\ state' \notin RootState
  BY <1>1, PopGood, PopIsNoRoot DEF Return, Emit
<1>3. /\ OpenOf(states) = OpenOf(states') \o Constructs(state')
      /\ MarksOf(states) = MarksOf(states') \o MarkOf(state')
      /\ OpenOf(states) \in Seq(Stream!Construct)
  BY <1>1, <1>2, StackMaps
<1>4. openConstructs' = OpenOf(states) /\ MarksOfOpenCollections'
  BY <1>1, <1>2, <1>3, MappingNext
<1>5. streamPhase' = "stream" /\ DocumentRoot'
  BY <1>2, PhaseInsideNext DEF DocumentRoot
<1>6. openConstructs = OpenOf(states) \o Constructs(state)
  BY <1>1, Mapping
<1>7. PICK c \in {"seq", "key"} :
         /\ Constructs(state) = <<c>>
         /\ type = IF c = "seq" THEN "SEQUENCE-END" ELSE "MAPPING-END"
  OBVIOUS
<1>8. ASSUME NEW s \in Seq(Stream!Construct)
      PROVE  s \o <<c>> # <<>> /\ Last(s \o <<c>>) = c /\ Front(s \o <<c>>) = s
  BY Innermost DEF Stream!Construct
<1>9. /\ openConstructs # <<>> /\ Stream!Last(openConstructs) = c
      /\ openConstructs' = Stream!Front(openConstructs)
  BY <1>3, <1>4, <1>6, <1>7, <1>8, SameOperators
<1>10. Stream!SequenceEnd \/ Stream!MappingEnd
  BY <1>1, <1>5, <1>7, <1>9 DEF Stream!SequenceEnd, Stream!MappingEnd, Stream!Deliver, Emit
<1> QED BY <1>4, <1>5, <1>10 DEF StreamStep, Stream!Next

-----------------------------------------------------------------------------
(***************************************************************************)
(* One lemma per state function of a collection.                           *)
(***************************************************************************)

(* An entry of a block sequence is a node of it; BLOCK-END closes it. *)
LEMMA BlockSequenceEntryMaps ==
    ASSUME RefinementInv, Inv', error = "none", NEW first \in BOOLEAN, ParseBlockSequenceEntry(first)
    PROVE  StreamStep
<1>1. /\ first <=> state \in FirstState
      /\ <<state, "BLOCK_SEQUENCE_ENTRY">> \in NextItem
      /\ OwnsMark("BLOCK_SEQUENCE_ENTRY")
      /\ Inv /\ states \in Seq(State) /\ state # "END"
  BY DEF ParseBlockSequenceEntry, FirstState, NextItem, OwnsMark, Continuation,
         BlockState, RefinementInv, Inv, TypeOK
<1>2. PICK e \in Entries(first) :
         \/ Fail("fetch") \/ Fail("syntax")
         \/ /\ NodeAfter(e.at, {"BLOCK-ENTRY", "BLOCK-END"}, "BLOCK_SEQUENCE_ENTRY", TRUE, FALSE)
            /\ marks' = e.marks
         \/ CloseCollection(e, "SEQUENCE-END")
  BY DEF ParseBlockSequenceEntry, FetchFails, Misplaced
<1>3. /\ e.marks = MarksOf(states) \o MarkOf("BLOCK_SEQUENCE_ENTRY")
      /\ Front(e.marks) = MarksOf(states)
      /\ e.at \in Cursor /\ "BLOCK_SEQUENCE_ENTRY" \in State
  BY <1>1, EntriesMarks, EntriesTyped DEF State, BlockState
<1>4. CASE Fail("fetch") \/ Fail("syntax")
  BY <1>1, <1>4, FailedMaps DEF Fail
<1>5. CASE /\ NodeAfter(e.at, {"BLOCK-ENTRY", "BLOCK-END"}, "BLOCK_SEQUENCE_ENTRY", TRUE, FALSE)
           /\ marks' = e.marks
  <2>1. NodeBegun(Append(states, "BLOCK_SEQUENCE_ENTRY"))
    BY <1>1, <1>3, <1>5, NodeAfterBegins
  <2> QED BY <1>1, <1>3, <1>5, <2>1, ItemMaps
<1>6. CASE CloseCollection(e, "SEQUENCE-END")
  <2>1. /\ state \in Inside \ (RootState \cup {"DOCUMENT_END"})
        /\ Constructs(state) = <<"seq">>
    BY <1>1, ItemsAdvance DEF ParseBlockSequenceEntry, Constructs, OutsideState
  <2> QED BY <1>1, <1>3, <1>6, <2>1, CloseMaps DEF CloseCollection
<1> QED BY <1>2, <1>4, <1>5, <1>6

(* A key of a block mapping waits for its value; BLOCK-END closes it. *)
LEMMA BlockMappingKeyMaps ==
    ASSUME RefinementInv, Inv', error = "none", NEW first \in BOOLEAN, ParseBlockMappingKey(first)
    PROVE  StreamStep
<1>1. /\ first <=> state \in FirstState
      /\ <<state, "BLOCK_MAPPING_VALUE">> \in NextItem
      /\ OwnsMark("BLOCK_MAPPING_VALUE")
      /\ Inv /\ states \in Seq(State) /\ state # "END"
  BY DEF ParseBlockMappingKey, FirstState, NextItem, OwnsMark, Continuation,
         BlockState, RefinementInv, Inv, TypeOK
<1>2. PICK e \in Entries(first) :
         \/ Fail("fetch") \/ Fail("syntax")
         \/ /\ NodeAfter(e.at, {"KEY", "VALUE", "BLOCK-END"}, "BLOCK_MAPPING_VALUE", TRUE, TRUE)
            /\ marks' = e.marks
         \/ CloseCollection(e, "MAPPING-END")
  BY DEF ParseBlockMappingKey, FetchFails, Misplaced
<1>3. /\ e.marks = MarksOf(states) \o MarkOf("BLOCK_MAPPING_VALUE")
      /\ Front(e.marks) = MarksOf(states)
      /\ e.at \in Cursor /\ "BLOCK_MAPPING_VALUE" \in State
  BY <1>1, EntriesMarks, EntriesTyped DEF State, BlockState
<1>4. CASE Fail("fetch") \/ Fail("syntax")
  BY <1>1, <1>4, FailedMaps DEF Fail
<1>5. CASE /\ NodeAfter(e.at, {"KEY", "VALUE", "BLOCK-END"}, "BLOCK_MAPPING_VALUE", TRUE, TRUE)
           /\ marks' = e.marks
  <2>1. NodeBegun(Append(states, "BLOCK_MAPPING_VALUE"))
    BY <1>1, <1>3, <1>5, NodeAfterBegins
  <2> QED BY <1>1, <1>3, <1>5, <2>1, ItemMaps
<1>6. CASE CloseCollection(e, "MAPPING-END")
  <2>1. /\ state \in Inside \ (RootState \cup {"DOCUMENT_END"})
        /\ Constructs(state) = <<"key">>
    BY <1>1, ItemsAdvance DEF ParseBlockMappingKey, Constructs, OutsideState
  <2> QED BY <1>1, <1>3, <1>6, <2>1, CloseMaps DEF CloseCollection
<1> QED BY <1>2, <1>4, <1>5, <1>6

(* A '?' in a flow sequence begins a single pair: a mapping of the sequence,  *)
(* whose key comes next.                                                     *)
LEMMA PairMaps ==
    ASSUME Inv, Inv', error = "none", <<state, "FLOW_SEQUENCE_ENTRY">> \in NextItem,
           state \in {"FLOW_SEQUENCE_FIRST_ENTRY", "FLOW_SEQUENCE_ENTRY"},
           state' = "FLOW_SEQUENCE_ENTRY_MAPPING_KEY", UNCHANGED states,
           Emit("MAPPING-START", NoAnchor),
           marks' = MarksOf(states) \o MarkOf("FLOW_SEQUENCE_ENTRY")
    PROVE  StreamStep
<1> DEFINE n == "FLOW_SEQUENCE_ENTRY"
<1>1. /\ states \in Seq(State) /\ states' = states /\ error' = "none" /\ n \in State
      /\ state \in Inside /\ state' \in Inside /\ state' \notin RootState
      /\ Constructs(state') = <<"seq", "key">> /\ Constructs(n) = <<"seq">>
      /\ MarkOf(state') = MarkOf(n)
  BY DEF Inv, TypeOK, Emit, State, Inside, FlowState, RootState, Constructs, OutsideState,
         MarkOf, OwnsMark, OpenerOf, Continuation, FirstState
<1>2. streamPhase = "stream" /\ streamPhase' = "stream" /\ DocumentRoot'
  BY <1>1, PhaseInside, PhaseInsideNext DEF DocumentRoot
<1>3. TakesNode(Append(states, n)) /\ OpenOf(Append(states, n)) = OpenOf(states) \o <<"seq">>
  BY <1>1, ItemTakesNode, StackMaps
<1>4. openConstructs' = OpenOf(states) \o <<"seq", "key">> /\ MarksOfOpenCollections'
  BY <1>1, MappingNext
<1>5. ASSUME NEW s \in Seq(Stream!Construct)
      PROVE  s \o <<"seq", "key">> = Append(s \o <<"seq">>, "key")
  BY TwoConstructs, Innermost DEF Stream!Construct
<1>6. openConstructs' = Append(Stream!Advanced, "key")
  BY <1>1, <1>3, <1>4, <1>5, StackMaps DEF TakesNode
<1>7. Stream!Node
  BY <1>2, <1>3, <1>6 DEF Emit, TakesNode, Stream!Node, Stream!MappingStart, Stream!Deliver
<1> QED BY <1>2, <1>4, <1>7 DEF StreamStep, Stream!Next

(* An entry of a flow sequence is a node or a single pair; ']' closes it. *)
LEMMA FlowSequenceEntryMaps ==
    ASSUME RefinementInv, Inv', error = "none", NEW first \in BOOLEAN, ParseFlowSequenceEntry(first)
    PROVE  StreamStep
<1>1. /\ first <=> state \in FirstState
      /\ \A n \in {"FLOW_SEQUENCE_ENTRY"} : <<state, n>> \in NextItem /\ OwnsMark(n) /\ n \in State
      /\ Inv /\ states \in Seq(State) /\ state # "END"
  BY DEF ParseFlowSequenceEntry, FirstState, NextItem, OwnsMark, Continuation,
         State, FlowState, RefinementInv, Inv, TypeOK
<1>2. PICK e \in Entries(first) :
         \/ Fail("syntax")
         \/ \E c \in FlowItems(first, e) :
               \/ Fail("fetch")
               \/ /\ state' = "FLOW_SEQUENCE_ENTRY_MAPPING_KEY"
                  /\ Emit("MAPPING-START", NoAnchor)
                  /\ marks' = e.marks
                  /\ UNCHANGED states
               \/ CloseCollection([e EXCEPT !.at = c], "SEQUENCE-END")
               \/ /\ ParseNode(c, Append(states, "FLOW_SEQUENCE_ENTRY"), FALSE, FALSE)
                  /\ marks' = e.marks
  BY DEF ParseFlowSequenceEntry, FetchFails, Misplaced
<1>3. /\ \A n \in {"FLOW_SEQUENCE_ENTRY"} : e.marks = MarksOf(states) \o MarkOf(n)
      /\ Front(e.marks) = MarksOf(states)
      /\ e.at \in Cursor
  BY <1>1, EntriesMarks, EntriesTyped
<1>4. FlowItems(first, e) \subseteq Cursor
  BY <1>3, PeekAfterCursor DEF FlowItems
<1>5. CASE Fail("fetch") \/ Fail("syntax")
  BY <1>1, <1>5, FailedMaps DEF Fail
<1>6. CASE /\ state' = "FLOW_SEQUENCE_ENTRY_MAPPING_KEY"
           /\ Emit("MAPPING-START", NoAnchor)
           /\ marks' = e.marks
           /\ UNCHANGED states
  BY <1>1, <1>3, <1>6, PairMaps DEF ParseFlowSequenceEntry
<1>7. ASSUME NEW c \in FlowItems(first, e), CloseCollection([e EXCEPT !.at = c], "SEQUENCE-END")
      PROVE  StreamStep
  <2>1. /\ state \in Inside \ (RootState \cup {"DOCUMENT_END"})
        /\ Constructs(state) = <<"seq">>
    BY <1>1, ItemsAdvance DEF ParseFlowSequenceEntry, Constructs, OutsideState
  <2>2. [e EXCEPT !.at = c].marks = e.marks
    BY DEF Entries
  <2> QED BY <1>1, <1>3, <1>7, <2>1, <2>2, CloseMaps DEF CloseCollection
<1>8. ASSUME NEW c \in FlowItems(first, e), marks' = e.marks,
             ParseNode(c, Append(states, "FLOW_SEQUENCE_ENTRY"), FALSE, FALSE)
      PROVE  StreamStep
  <2>1. NodeBegun(Append(states, "FLOW_SEQUENCE_ENTRY"))
    BY <1>4, <1>8, ParseNodeBegins
  <2> QED BY <1>1, <1>3, <1>8, <2>1, ItemMaps
<1> QED BY <1>2, <1>5, <1>6, <1>7, <1>8

(* A key of a flow mapping, with '?' or without; '}' closes it. *)
LEMMA FlowMappingKeyMaps ==
    ASSUME RefinementInv, Inv', error = "none", NEW first \in BOOLEAN, ParseFlowMappingKey(first)
    PROVE  StreamStep
<1>1. /\ first <=> state \in FirstState
      /\ \A n \in {"FLOW_MAPPING_VALUE", "FLOW_MAPPING_EMPTY_VALUE"} : <<state, n>> \in NextItem /\ OwnsMark(n) /\ n \in State
      /\ Inv /\ states \in Seq(State) /\ state # "END"
  BY DEF ParseFlowMappingKey, FirstState, NextItem, OwnsMark, Continuation,
         State, FlowState, RefinementInv, Inv, TypeOK
<1>2. PICK e \in Entries(first) :
         \/ Fail("syntax")
         \/ \E c \in FlowItems(first, e) :
               \/ Fail("fetch")
               \/ /\ NodeAfter(c, {"VALUE", "FLOW-ENTRY", "FLOW-MAPPING-END"},
                               "FLOW_MAPPING_VALUE", FALSE, FALSE)
                  /\ marks' = e.marks
               \/ CloseCollection([e EXCEPT !.at = c], "MAPPING-END")
               \/ /\ ParseNode(c, Append(states, "FLOW_MAPPING_EMPTY_VALUE"), FALSE, FALSE)
                  /\ marks' = e.marks
  BY DEF ParseFlowMappingKey, FetchFails, Misplaced
<1>3. /\ \A n \in {"FLOW_MAPPING_VALUE", "FLOW_MAPPING_EMPTY_VALUE"} : e.marks = MarksOf(states) \o MarkOf(n)
      /\ Front(e.marks) = MarksOf(states)
      /\ e.at \in Cursor
  BY <1>1, EntriesMarks, EntriesTyped
<1>4. FlowItems(first, e) \subseteq Cursor
  BY <1>3, PeekAfterCursor DEF FlowItems
<1>5. CASE Fail("fetch") \/ Fail("syntax")
  BY <1>1, <1>5, FailedMaps DEF Fail
<1>6. ASSUME NEW c \in FlowItems(first, e), marks' = e.marks,
             NodeAfter(c, {"VALUE", "FLOW-ENTRY", "FLOW-MAPPING-END"},
                       "FLOW_MAPPING_VALUE", FALSE, FALSE)
      PROVE  StreamStep
  <2>1. NodeBegun(Append(states, "FLOW_MAPPING_VALUE"))
    BY <1>1, <1>4, <1>6, NodeAfterBegins
  <2> QED BY <1>1, <1>3, <1>6, <2>1, ItemMaps
<1>7. ASSUME NEW c \in FlowItems(first, e), CloseCollection([e EXCEPT !.at = c], "MAPPING-END")
      PROVE  StreamStep
  <2>1. /\ state \in Inside \ (RootState \cup {"DOCUMENT_END"})
        /\ Constructs(state) = <<"key">>
    BY <1>1, ItemsAdvance DEF ParseFlowMappingKey, Constructs, OutsideState
  <2>2. [e EXCEPT !.at = c].marks = e.marks
    BY DEF Entries
  <2> QED BY <1>1, <1>3, <1>7, <2>1, <2>2, CloseMaps DEF CloseCollection
<1>8. ASSUME NEW c \in FlowItems(first, e), marks' = e.marks,
             ParseNode(c, Append(states, "FLOW_MAPPING_EMPTY_VALUE"), FALSE, FALSE)
      PROVE  StreamStep
  <2>1. NodeBegun(Append(states, "FLOW_MAPPING_EMPTY_VALUE"))
    BY <1>4, <1>8, ParseNodeBegins
  <2> QED BY <1>1, <1>3, <1>8, <2>1, ItemMaps
<1> QED BY <1>2, <1>5, <1>6, <1>7, <1>8

(* An indentless sequence, which owns no mark, ends at any other token.    *)
LEMMA IndentlessSequenceEntryMaps ==
    ASSUME RefinementInv, Inv', error = "none", ParseIndentlessSequenceEntry
    PROVE  StreamStep
<1> DEFINE n == "INDENTLESS_SEQUENCE_ENTRY"
<1>1. /\ <<state, n>> \in NextItem /\ n \in State
      /\ MarkOf(n) = MarkOf(state)
      /\ Inv /\ TypeOK /\ states \in Seq(State) /\ state # "END"
      /\ marks' = marks
  BY DEF ParseIndentlessSequenceEntry, NextItem, MarkOf, OwnsMark, OpenerOf, Continuation, FirstState,
         State, BlockState, FlowState, RefinementInv, Inv, TypeOK
<1>2. PICK c \in Peek :
         \/ Fail("fetch")
         \/ NodeAfter(c, {"BLOCK-ENTRY", "KEY", "VALUE", "BLOCK-END"}, n, TRUE, FALSE)
         \/ Return(states) /\ Emit("SEQUENCE-END", NoAnchor)
  BY DEF ParseIndentlessSequenceEntry, FetchFails
<1>3. c \in Cursor /\ marks' = MarksOf(states) \o MarkOf(n)
  BY <1>1, PeekCursor, Mapping DEF RefinementInv
<1>4. CASE Fail("fetch")
  BY <1>1, <1>4, FailedMaps DEF Fail
<1>5. CASE NodeAfter(c, {"BLOCK-ENTRY", "KEY", "VALUE", "BLOCK-END"}, n, TRUE, FALSE)
  <2>1. NodeBegun(Append(states, n))
    BY <1>1, <1>3, <1>5, NodeAfterBegins
  <2> QED BY <1>1, <1>3, <2>1, ItemMaps
<1>6. CASE Return(states) /\ Emit("SEQUENCE-END", NoAnchor)
  <2>1. /\ state \in Inside \ (RootState \cup {"DOCUMENT_END"})
        /\ Constructs(state) = <<"seq">> /\ MarkOf(n) = <<>>
    BY <1>1, ItemsAdvance DEF ParseIndentlessSequenceEntry, Constructs, OutsideState, MarkOf, OwnsMark
  <2>2. marks' = MarksOf(states)
    BY <1>1, <1>3, <2>1, StackMaps, ConcatEmptySeq
  <2> QED BY <1>1, <1>6, <2>1, <2>2, CloseMaps
<1> QED BY <1>2, <1>4, <1>5, <1>6

(* A value of a block mapping, or its absence, is a node.                  *)
LEMMA BlockMappingValueMaps ==
    ASSUME RefinementInv, Inv', error = "none", ParseBlockMappingValue
    PROVE  StreamStep
<1> DEFINE n == "BLOCK_MAPPING_KEY"
<1>1. /\ <<state, n>> \in NextItem /\ n \in State
      /\ MarkOf(n) = MarkOf(state)
      /\ Inv /\ TypeOK /\ states \in Seq(State) /\ state # "END"
      /\ marks' = marks
  BY DEF ParseBlockMappingValue, NextItem, MarkOf, OwnsMark, OpenerOf, Continuation, FirstState,
         State, BlockState, FlowState, RefinementInv, Inv, TypeOK
<1>2. PICK c \in Peek :
         \/ Fail("fetch")
         \/ NodeAfter(c, {"KEY", "VALUE", "BLOCK-END"}, n, TRUE, TRUE)
         \/ AbsentNode(n)
  BY DEF ParseBlockMappingValue, FetchFails
<1>3. c \in Cursor /\ marks' = MarksOf(states) \o MarkOf(n)
  BY <1>1, PeekCursor, Mapping DEF RefinementInv
<1>4. CASE Fail("fetch")
  BY <1>1, <1>4, FailedMaps DEF Fail
<1>5. CASE NodeAfter(c, {"KEY", "VALUE", "BLOCK-END"}, n, TRUE, TRUE)
  <2>1. NodeBegun(Append(states, n))
    BY <1>1, <1>3, <1>5, NodeAfterBegins
  <2> QED BY <1>1, <1>3, <2>1, ItemMaps
<1>6. CASE AbsentNode(n)
  <2>1. NodeBegun(Append(states, n))
    BY <1>1, <1>6, AbsentNodeBegins
  <2> QED BY <1>1, <1>3, <2>1, ItemMaps
<1> QED BY <1>2, <1>4, <1>5, <1>6

(* A value of a flow mapping, or its absence, is a node.                   *)
LEMMA FlowMappingValueMaps ==
    ASSUME RefinementInv, Inv', error = "none", 
           NEW empty \in BOOLEAN, ParseFlowMappingValue(empty)
    PROVE  StreamStep
<1> DEFINE n == "FLOW_MAPPING_KEY"
<1>1. /\ <<state, n>> \in NextItem /\ n \in State
      /\ MarkOf(n) = MarkOf(state)
      /\ Inv /\ TypeOK /\ states \in Seq(State) /\ state # "END"
      /\ marks' = marks
  BY DEF ParseFlowMappingValue, NextItem, MarkOf, OwnsMark, OpenerOf, Continuation, FirstState,
         State, BlockState, FlowState, RefinementInv, Inv, TypeOK
<1>2. PICK c \in Peek :
         \/ Fail("fetch")
         \/ NodeAfter(c, {"FLOW-ENTRY", "FLOW-MAPPING-END"}, n, FALSE, FALSE)
         \/ AbsentNode(n)
  BY DEF ParseFlowMappingValue, FetchFails
<1>3. c \in Cursor /\ marks' = MarksOf(states) \o MarkOf(n)
  BY <1>1, PeekCursor, Mapping DEF RefinementInv
<1>4. CASE Fail("fetch")
  BY <1>1, <1>4, FailedMaps DEF Fail
<1>5. CASE NodeAfter(c, {"FLOW-ENTRY", "FLOW-MAPPING-END"}, n, FALSE, FALSE)
  <2>1. NodeBegun(Append(states, n))
    BY <1>1, <1>3, <1>5, NodeAfterBegins
  <2> QED BY <1>1, <1>3, <2>1, ItemMaps
<1>6. CASE AbsentNode(n)
  <2>1. NodeBegun(Append(states, n))
    BY <1>1, <1>6, AbsentNodeBegins
  <2> QED BY <1>1, <1>3, <2>1, ItemMaps
<1> QED BY <1>2, <1>4, <1>5, <1>6

(* The key of a single pair, or its absence, is a node.                    *)
LEMMA FlowSequenceEntryMappingKeyMaps ==
    ASSUME RefinementInv, Inv', error = "none", ParseFlowSequenceEntryMappingKey
    PROVE  StreamStep
<1> DEFINE n == "FLOW_SEQUENCE_ENTRY_MAPPING_VALUE"
<1>1. /\ <<state, n>> \in NextItem /\ n \in State
      /\ MarkOf(n) = MarkOf(state)
      /\ Inv /\ TypeOK /\ states \in Seq(State) /\ state # "END"
      /\ marks' = marks
  BY DEF ParseFlowSequenceEntryMappingKey, NextItem, MarkOf, OwnsMark, OpenerOf, Continuation, FirstState,
         State, BlockState, FlowState, RefinementInv, Inv, TypeOK
<1>2. PICK c \in Peek :
         \/ Fail("fetch")
         \/ AbsentNode(n)
         \/ ParseNode(c, Append(states, n), FALSE, FALSE)
  BY DEF ParseFlowSequenceEntryMappingKey, FetchFails
<1>3. c \in Cursor /\ marks' = MarksOf(states) \o MarkOf(n)
  BY <1>1, PeekCursor, Mapping DEF RefinementInv
<1>4. CASE Fail("fetch")
  BY <1>1, <1>4, FailedMaps DEF Fail
<1>5. CASE AbsentNode(n)
  <2>1. NodeBegun(Append(states, n))
    BY <1>1, <1>5, AbsentNodeBegins
  <2> QED BY <1>1, <1>3, <2>1, ItemMaps
<1>6. CASE ParseNode(c, Append(states, n), FALSE, FALSE)
  <2>1. NodeBegun(Append(states, n))
    BY <1>3, <1>6, ParseNodeBegins
  <2> QED BY <1>1, <1>3, <2>1, ItemMaps
<1> QED BY <1>2, <1>4, <1>5, <1>6

(* The value of a single pair, or its absence, is a node.                  *)
LEMMA FlowSequenceEntryMappingValueMaps ==
    ASSUME RefinementInv, Inv', error = "none", ParseFlowSequenceEntryMappingValue
    PROVE  StreamStep
<1> DEFINE n == "FLOW_SEQUENCE_ENTRY_MAPPING_END"
<1>1. /\ <<state, n>> \in NextItem /\ n \in State
      /\ MarkOf(n) = MarkOf(state)
      /\ Inv /\ TypeOK /\ states \in Seq(State) /\ state # "END"
      /\ marks' = marks
  BY DEF ParseFlowSequenceEntryMappingValue, NextItem, MarkOf, OwnsMark, OpenerOf, Continuation, FirstState,
         State, BlockState, FlowState, RefinementInv, Inv, TypeOK
<1>2. PICK c \in Peek :
         \/ Fail("fetch")
         \/ NodeAfter(c, {"FLOW-ENTRY", "FLOW-SEQUENCE-END"}, n, FALSE, FALSE)
         \/ AbsentNode(n)
  BY DEF ParseFlowSequenceEntryMappingValue, FetchFails
<1>3. c \in Cursor /\ marks' = MarksOf(states) \o MarkOf(n)
  BY <1>1, PeekCursor, Mapping DEF RefinementInv
<1>4. CASE Fail("fetch")
  BY <1>1, <1>4, FailedMaps DEF Fail
<1>5. CASE NodeAfter(c, {"FLOW-ENTRY", "FLOW-SEQUENCE-END"}, n, FALSE, FALSE)
  <2>1. NodeBegun(Append(states, n))
    BY <1>1, <1>3, <1>5, NodeAfterBegins
  <2> QED BY <1>1, <1>3, <2>1, ItemMaps
<1>6. CASE AbsentNode(n)
  <2>1. NodeBegun(Append(states, n))
    BY <1>1, <1>6, AbsentNodeBegins
  <2> QED BY <1>1, <1>3, <2>1, ItemMaps
<1> QED BY <1>2, <1>4, <1>5, <1>6

(* A single pair ends: its mapping closes, the sequence stays open.        *)
LEMMA FlowSequenceEntryMappingEndMaps ==
    ASSUME RefinementInv, Inv', error = "none", ParseFlowSequenceEntryMappingEnd
    PROVE  StreamStep
<1>1. /\ state = "FLOW_SEQUENCE_ENTRY_MAPPING_END" /\ marks' = marks
      /\ Inv /\ TypeOK /\ states \in Seq(State) /\ state # "END"
  BY DEF ParseFlowSequenceEntryMappingEnd, RefinementInv, Inv, TypeOK
<1>2. \/ Fail("fetch")
      \/ state' = "FLOW_SEQUENCE_ENTRY" /\ Emit("MAPPING-END", NoAnchor) /\ UNCHANGED states
  BY DEF ParseFlowSequenceEntryMappingEnd, FetchFails
<1>3. CASE Fail("fetch")
  BY <1>1, <1>3, FailedMaps DEF Fail
<1>4. CASE state' = "FLOW_SEQUENCE_ENTRY" /\ Emit("MAPPING-END", NoAnchor) /\ UNCHANGED states
  <2>1. /\ states' \in Seq(State) /\ error' = "none"
        /\ state \in Inside /\ state' \in Inside
        /\ state \notin RootState /\ state' \notin RootState
        /\ Constructs(state) = <<"seq", "key">> /\ Constructs(state') = <<"seq">>
        /\ MarkOf(state') = MarkOf(state)
    BY <1>1, <1>4 DEF Emit, Inside, FlowState, RootState, Constructs, OutsideState,
                      MarkOf, OwnsMark, OpenerOf, Continuation, FirstState
  <2>2. streamPhase = "stream" /\ streamPhase' = "stream" /\ DocumentRoot'
    BY <2>1, PhaseInside, PhaseInsideNext DEF DocumentRoot
  <2>3. /\ openConstructs = OpenOf(states) \o <<"seq", "key">>
        /\ openConstructs' = OpenOf(states) \o <<"seq">>
        /\ MarksOfOpenCollections'
    BY <1>1, <1>4, <2>1, Mapping, MappingNext DEF RefinementInv
  <2>4. ASSUME NEW s \in Seq(Stream!Construct)
        PROVE  /\ s \o <<"seq", "key">> # <<>>
               /\ Last(s \o <<"seq", "key">>) = "key"
               /\ Front(s \o <<"seq", "key">>) = s \o <<"seq">>
    <3>1. "seq" \in Stream!Construct /\ "key" \in Stream!Construct
      BY DEF Stream!Construct
    <3>2. /\ s \o <<"seq", "key">> = (s \o <<"seq">>) \o <<"key">>
          /\ s \o <<"seq">> \in Seq(Stream!Construct)
      BY <3>1, TwoConstructs
    <3>3. ASSUME NEW r \in Seq(Stream!Construct)
          PROVE  /\ r \o <<"key">> # <<>>
                 /\ Last(r \o <<"key">>) = "key" /\ Front(r \o <<"key">>) = r
      BY <3>1, Innermost
    <3> QED BY <3>2, <3>3
  <2>5. /\ openConstructs # <<>> /\ Stream!Last(openConstructs) = "key"
        /\ openConstructs' = Stream!Front(openConstructs)
    BY <1>1, <2>3, <2>4, StackMaps, SameOperators
  <2>6. Stream!MappingEnd
    BY <1>4, <2>2, <2>5 DEF Emit, Stream!MappingEnd, Stream!Deliver
  <2> QED BY <2>2, <2>3, <2>6 DEF StreamStep, Stream!Next
<1> QED BY <1>2, <1>3, <1>4

-----------------------------------------------------------------------------
(***************************************************************************)
(* Documents and the stream.                                               *)
(***************************************************************************)

(* The root of a document takes a node, and then waits for its end.        *)
LEMMA RootTakesNode ==
    ASSUME RefinementInv, error = "none", state \in RootState
    PROVE  /\ GoodStack(states) /\ TakesNode(states)
           /\ marks = MarksOf(states)
           /\ state \in Inside /\ state # "END"
<1>1. /\ state \in Inside \ {"DOCUMENT_END"} /\ state # "END" /\ MarkOf(state) = <<>>
      /\ Inv
  BY DEF RootState, Inside, DocumentState, MarkOf, OwnsMark, Continuation, BlockState,
         FlowState, RefinementInv
<1>2. GoodStack(states) /\ states \in Seq(State)
  BY <1>1, InsideStack
<1>3. marks = MarksOf(states)
  BY <1>1, <1>2, Mapping, StackMaps, ConcatEmptySeq DEF RefinementInv
<1>4. states = <<"DOCUMENT_END">> /\ openConstructs = <<"root">>
  BY <1>2, Mapping DEF RefinementInv, DocumentRoot
<1>5. Last(states) = "DOCUMENT_END" /\ Front(states) = <<>>
  <2>1. Len(states) = 1 /\ states[1] = "DOCUMENT_END"
    BY <1>4
  <2>2. Front(states) \in Seq(State) /\ Len(Front(states)) = 0
    <3> SUFFICES ASSUME NEW s \in Seq(State), Len(s) = 1
                 PROVE  Front(s) \in Seq(State) /\ Len(Front(s)) = 0
      BY <1>2, <2>1
    <3>1. s # <<>>
      BY EmptySeq
    <3> QED BY <3>1, FrontProperties
  <2> QED BY <2>1, <2>2, EmptySeq DEF Last
<1>6. OpenOf(states) = <<"docEnd">>
  <2>1. Constructs("DOCUMENT_END") = <<"docEnd">>
    BY DEF Constructs, OutsideState
  <2>2. OpenOf(<<>>) = <<>> /\ <<>> \in Seq(State)
    BY StackMaps, EmptySeq
  <2>3. OpenOf(states) = OpenOf(Front(states)) \o Constructs(Last(states))
    BY <1>2, StackMaps DEF GoodStack
  <2>4. <<>> \o <<"docEnd">> = <<"docEnd">>
    OBVIOUS
  <2> QED BY <1>5, <2>1, <2>2, <2>3, <2>4
<1>7. Stream!Last(openConstructs) = "root" /\ Stream!Front(openConstructs) = <<>>
  <2>1. <<>> \in Seq({"root"}) /\ "root" \in {"root"} /\ <<>> \o <<"root">> = <<"root">>
    OBVIOUS
  <2>2. Last(<<>> \o <<"root">>) = "root" /\ Front(<<>> \o <<"root">>) = <<>>
    BY <2>1, Innermost
  <2> QED BY <1>4, <2>1, <2>2, SameOperators
<1>8. Append(<<>>, Stream!AfterChild("root")) = <<"docEnd">>
  BY DEF Stream!AfterChild
<1> QED BY <1>1, <1>2, <1>3, <1>4, <1>6, <1>7, <1>8
        DEF TakesNode, Stream!AcceptsNode, Stream!Advanced

(* The root node of a document without '---'.                              *)
LEMMA BlockNodeMaps ==
    ASSUME RefinementInv, Inv', error = "none", ParseBlockNode
    PROVE  StreamStep
<1>1. state \in RootState /\ marks' = marks /\ TypeOK
  BY DEF ParseBlockNode, RootState, RefinementInv, Inv
<1>2. PICK c \in Peek : ParseNode(c, states, TRUE, FALSE)
  BY DEF ParseBlockNode
<1>3. NodeBegun(states)
  BY <1>1, <1>2, PeekCursor, ParseNodeBegins
<1> QED BY <1>1, <1>3, RootTakesNode, NodeMaps

(* The root node, or its absence, after '---'.                             *)
LEMMA DocumentContentMaps ==
    ASSUME RefinementInv, Inv', error = "none", ParseDocumentContent
    PROVE  StreamStep
<1>1. state \in RootState /\ marks' = marks /\ TypeOK
  BY DEF ParseDocumentContent, RootState, RefinementInv, Inv
<1>2. PICK c \in Peek : \/ Return(states) /\ EmptyScalar
                        \/ ParseNode(c, states, TRUE, FALSE)
  BY DEF ParseDocumentContent
<1>3. NodeBegun(states)
  <2>1. CASE Return(states) /\ EmptyScalar
    BY <2>1 DEF EmptyScalar, Emit, NodeBegun, Leaf, Delivers
  <2>2. CASE ParseNode(c, states, TRUE, FALSE)
    BY <1>1, <2>2, PeekCursor, ParseNodeBegins
  <2> QED BY <1>2, <2>1, <2>2
<1> QED BY <1>1, <1>3, RootTakesNode, NodeMaps

(* Between documents nothing is open. *)
LEMMA OutsideEmpty ==
    ASSUME RefinementInv, error = "none", state \in OutsideState \cup {"DOCUMENT_END"}
    PROVE  /\ states = <<>> /\ marks = <<>> /\ Inv
           /\ openConstructs = IF state = "DOCUMENT_END" THEN <<"docEnd">> ELSE <<>>
<1>1. /\ Inv /\ states \in Seq(State) /\ states = <<>>
      /\ state \notin RootState /\ MarkOf(state) = <<>>
      /\ Constructs(state) = IF state = "DOCUMENT_END" THEN <<"docEnd">> ELSE <<>>
  BY DEF RefinementInv, Inv, TypeOK, StackDiscipline, OutsideState, RootState, MarkOf, OwnsMark,
         Continuation, BlockState, FlowState, Constructs
<1>2. OpenOf(states) = <<>> /\ MarksOf(states) = <<>>
  BY <1>1, StackMaps
<1>3. <<>> \o <<>> = <<>> /\ <<>> \o <<"docEnd">> = <<"docEnd">>
  OBVIOUS
<1> QED BY <1>1, <1>2, <1>3, Mapping DEF RefinementInv

LEMMA OutsideEmptyNext ==
    ASSUME Inv', error' = "none", state' \in OutsideState, marks' = <<>>
    PROVE  openConstructs' = <<>> /\ DocumentRoot' /\ MarksOfOpenCollections'
<1>1. /\ states' \in Seq(State) /\ states' = <<>>
      /\ state' \notin RootState /\ MarkOf(state') = <<>> /\ Constructs(state') = <<>>
  BY DEF Inv, TypeOK, StackDiscipline, OutsideState, RootState, MarkOf, OwnsMark,
         Continuation, BlockState, FlowState, Constructs
<1>2. OpenOf(states') = <<>> /\ MarksOf(states') = <<>>
  BY <1>1, StackMaps
<1>3. <<>> \o <<>> = <<>>
  OBVIOUS
<1> QED BY <1>1, <1>2, <1>3, MappingNext DEF DocumentRoot

(* The start of the stream. *)
LEMMA StreamStartMaps ==
    ASSUME RefinementInv, Inv', error = "none", ParseStreamStart
    PROVE  StreamStep
<1>1. state \in OutsideState /\ state = "STREAM_START" /\ marks' = marks
  BY DEF ParseStreamStart, OutsideState
<1>2. CASE Fail("fetch") \/ Fail("syntax")
  BY <1>1, <1>2, FailedMaps DEF Fail
<1>3. CASE state' = "IMPLICIT_DOCUMENT_START" /\ Emit("STREAM-START", NoAnchor)
  <2>1. error' = "none" /\ state' \in OutsideState
    BY <1>3 DEF Emit, OutsideState
  <2>2. openConstructs = <<>> /\ openConstructs' = <<>> /\ DocumentRoot' /\ MarksOfOpenCollections'
    BY <1>1, <2>1, OutsideEmpty, OutsideEmptyNext
  <2>3. streamPhase = "before" /\ streamPhase' = "stream"
    BY <1>1, <1>3, <2>1 DEF streamPhase
  <2>4. Stream!StreamStart
    BY <1>3, <2>2, <2>3 DEF Emit, Stream!StreamStart, Stream!Deliver
  <2> QED BY <2>2, <2>4 DEF StreamStep, Stream!Next
<1> QED BY <1>2, <1>3 DEF ParseStreamStart, FetchFails

(* A call that goes on reading directives or '...' returns no event.       *)
LEMMA NoEventMaps ==
    ASSUME RefinementInv, event' = NullEvent, UNCHANGED <<state, stacks, error>>
    PROVE  StreamStep
<1>1. openConstructs' = openConstructs /\ streamPhase' = streamPhase
  BY DEF openConstructs, streamPhase, stacks
<1>2. DocumentRoot' /\ MarksOfOpenCollections'
  BY DEF RefinementInv, DocumentRoot, MarksOfOpenCollections, stacks
<1>3. Stream!NoEvent
  BY <1>1 DEF Stream!NoEvent, Stream!Deliver, NullEvent
<1> QED BY <1>2, <1>3 DEF StreamStep, Stream!Next

(* A document starts: its root is all that is open. *)
LEMMA StartDocumentMaps ==
    ASSUME RefinementInv, Inv', error = "none", AtDocumentStart, state' \in RootState,
           states' = Append(states, "DOCUMENT_END"), UNCHANGED marks,
           Emit("DOCUMENT-START", NoAnchor)
    PROVE  StreamStep
<1>1. state \in OutsideState \cup {"DOCUMENT_END"} /\ state # "DOCUMENT_END" /\ error' = "none"
  BY DEF AtDocumentStart, OutsideState, Emit
<1>2. states = <<>> /\ marks = <<>> /\ openConstructs = <<>>
  BY <1>1, OutsideEmpty
<1>3. states' = <<"DOCUMENT_END">> /\ states' \in Seq(State)
  BY <1>2 DEF Inv, TypeOK
<1>4. openConstructs' = <<"root">> /\ DocumentRoot'
  BY <1>1, <1>3, MappingNext DEF DocumentRoot
<1>5. MarksOfOpenCollections'
  <2>1. <<>> \in Seq(State) /\ "DOCUMENT_END" \in State
    BY DEF State, DocumentState
  <2>2. MarkOf("DOCUMENT_END") = <<>> /\ MarkOf(state') = <<>>
    BY DEF MarkOf, OwnsMark, RootState, Continuation, BlockState, FlowState
  <2>3. MarksOf(Append(<<>>, "DOCUMENT_END")) = MarksOf(<<>>) \o <<>> /\ MarksOf(<<>>) = <<>>
    BY <2>1, <2>2, StackMaps
  <2>4. states' = Append(<<>>, "DOCUMENT_END") /\ <<>> \o <<>> = <<>>
    BY <1>2
  <2>5. marks' = MarksOf(states') \o MarkOf(state')
    BY <1>2, <2>2, <2>3, <2>4
  <2> QED BY <1>3, <2>5, MappingNext
<1>6. streamPhase = "stream" /\ streamPhase' = "stream"
  BY <1>1 DEF streamPhase, AtDocumentStart, RootState
<1>7. Stream!DocumentStart
  BY <1>2, <1>4, <1>6 DEF Emit, Stream!DocumentStart, Stream!Deliver
<1> QED BY <1>4, <1>5, <1>7 DEF StreamStep, Stream!Next

(* The end of the stream, between documents only. *)
LEMMA EndStreamMaps ==
    ASSUME RefinementInv, Inv', error = "none", EndStream
    PROVE  StreamStep
<1>1. /\ state \in OutsideState \cup {"DOCUMENT_END"} /\ state # "DOCUMENT_END"
      /\ error' = "none" /\ state' = "END" /\ state' \in OutsideState
      /\ marks' = marks
  BY DEF EndStream, AtDocumentStart, OutsideState, Emit, stacks
<1>2. openConstructs = <<>> /\ openConstructs' = <<>> /\ DocumentRoot' /\ MarksOfOpenCollections'
  BY <1>1, OutsideEmpty, OutsideEmptyNext
<1>3. streamPhase = "stream" /\ streamPhase' = "ended"
  BY <1>1 DEF streamPhase, EndStream, AtDocumentStart
<1>4. Stream!StreamEnd
  BY <1>2, <1>3 DEF EndStream, Emit, Stream!StreamEnd, Stream!Deliver
<1> QED BY <1>2, <1>4 DEF StreamStep, Stream!Next

(* Between documents every call maps to a step of the stream. *)
LEMMA DocumentStartMaps ==
    ASSUME RefinementInv, Inv', error = "none", ParseDocumentStart
    PROVE  StreamStep
<1>1. CASE SkipDocumentEnd
  BY <1>1, NoEventMaps DEF SkipDocumentEnd
<1>2. CASE ProcessDirective
  <2>1. \/ Fail("duplicate directive") \/ Fail("incompatible version")
        \/ event' = NullEvent /\ UNCHANGED <<state, stacks, error>>
    BY <1>2 DEF ProcessDirective
  <2>2. state # "END"
    BY <1>2 DEF ProcessDirective, AtDocumentStart
  <2> QED BY <2>1, <2>2, FailedMaps, NoEventMaps DEF Fail
<1>3. CASE DocumentStartFetchFails
  BY <1>3, FailedMaps DEF DocumentStartFetchFails, AtDocumentStart, FetchFails, Fail
<1>4. CASE MissingDocumentStart
  BY <1>4, FailedMaps DEF MissingDocumentStart, AtDocumentStart, Fail
<1>5. CASE StartImplicitDocument
  BY <1>5, StartDocumentMaps DEF StartImplicitDocument, AtDocumentStart, RootState
<1>6. CASE StartExplicitDocument
  BY <1>6, StartDocumentMaps DEF StartExplicitDocument, RootState
<1>7. CASE EndStream
  BY <1>7, EndStreamMaps
<1> QED BY <1>1, <1>2, <1>3, <1>4, <1>5, <1>6, <1>7 DEF ParseDocumentStart

(* A document ends once its root node has. *)
LEMMA DocumentEndMaps ==
    ASSUME RefinementInv, Inv', error = "none", ParseDocumentEnd
    PROVE  StreamStep
<1>1. state \in OutsideState \cup {"DOCUMENT_END"} /\ state = "DOCUMENT_END" /\ marks' = marks
  BY DEF ParseDocumentEnd
<1>2. CASE Fail("fetch")
  BY <1>1, <1>2, FailedMaps DEF Fail
<1>3. CASE state' = "DOCUMENT_START" /\ Emit("DOCUMENT-END", NoAnchor)
  <2>1. error' = "none" /\ state' \in OutsideState
    BY <1>3 DEF Emit, OutsideState
  <2>2. /\ openConstructs = <<"docEnd">> /\ openConstructs' = <<>>
        /\ DocumentRoot' /\ MarksOfOpenCollections'
    BY <1>1, <2>1, OutsideEmpty, OutsideEmptyNext
  <2>3. streamPhase = "stream" /\ streamPhase' = "stream"
    BY <1>1, <1>3, <2>1 DEF streamPhase
  <2>4. Stream!DocumentEnd
    BY <1>3, <2>2, <2>3 DEF Emit, Stream!DocumentEnd, Stream!Deliver
  <2> QED BY <2>2, <2>4 DEF StreamStep, Stream!Next
<1> QED BY <1>2, <1>3 DEF ParseDocumentEnd, FetchFails

-----------------------------------------------------------------------------
(***************************************************************************)
(* The refinement.                                                         *)
(***************************************************************************)

(* A fresh parser maps to a stream that has not begun. *)
LEMMA InitMaps ==
    ASSUME Init
    PROVE  Stream!Init /\ RefinementInv
<1>1. Inv /\ states \in Seq(State)
  BY InitInv DEF Inv, TypeOK
<1>2. /\ states = <<>> /\ marks = <<>> /\ error = "none" /\ state \notin RootState
      /\ MarkOf(state) = <<>> /\ Constructs(state) = <<>>
  BY DEF Init, RootState, MarkOf, OwnsMark, Continuation, BlockState, FlowState,
         Constructs, OutsideState
<1>3. OpenOf(states) = <<>> /\ MarksOf(states) = <<>>
  BY <1>1, <1>2, StackMaps
<1>4. openConstructs = <<>> /\ MarksOfOpenCollections
  <2>1. <<>> \o <<>> = <<>>
    OBVIOUS
  <2> QED BY <1>1, <1>2, <1>3, <2>1, Mapping
<1>5. streamPhase = "before"
  BY DEF Init, streamPhase
<1> QED BY <1>1, <1>2, <1>4, <1>5 DEF Init, NullEvent, Stream!Init, RefinementInv, DocumentRoot

(* Every call of the state machine maps to a step of the stream. *)
LEMMA StateMachineMaps ==
    ASSUME RefinementInv, Inv', error = "none", StateMachine
    PROVE  StreamStep
<1>1. CASE ParseStreamStart \/ ParseDocumentStart \/ ParseDocumentEnd
  BY <1>1, StreamStartMaps, DocumentStartMaps, DocumentEndMaps
<1>2. CASE ParseBlockNode \/ ParseDocumentContent
  BY <1>2, BlockNodeMaps, DocumentContentMaps
<1>3. CASE ParseIndentlessSequenceEntry \/ ParseBlockMappingValue
  BY <1>3, IndentlessSequenceEntryMaps, BlockMappingValueMaps
<1>4. CASE \/ ParseFlowSequenceEntryMappingKey
           \/ ParseFlowSequenceEntryMappingValue
           \/ ParseFlowSequenceEntryMappingEnd
  BY <1>4, FlowSequenceEntryMappingKeyMaps, FlowSequenceEntryMappingValueMaps,
     FlowSequenceEntryMappingEndMaps
<1>5. ASSUME NEW first \in BOOLEAN,
             \/ ParseBlockSequenceEntry(first)
             \/ ParseBlockMappingKey(first)
             \/ ParseFlowSequenceEntry(first)
             \/ ParseFlowMappingKey(first)
             \/ ParseFlowMappingValue(first)
      PROVE  StreamStep
  BY <1>5, BlockSequenceEntryMaps, BlockMappingKeyMaps, FlowSequenceEntryMaps,
     FlowMappingKeyMaps, FlowMappingValueMaps
<1> QED BY <1>1, <1>2, <1>3, <1>4, <1>5 DEF StateMachine

(* Every step maps to a step of the stream or to none, and keeps the       *)
(* invariant.                                                              *)
LEMMA NextMaps ==
    RefinementInv /\ [Next]_vars => [Stream!Next]_(Stream!vars) /\ RefinementInv'
<1> SUFFICES ASSUME RefinementInv, [Next]_vars
             PROVE  [Stream!Next]_(Stream!vars) /\ RefinementInv'
  OBVIOUS
<1>1. Inv'
  BY NextInv DEF RefinementInv
<1>2. CASE Parse
  <2>1. StreamStep
    BY <1>1, <1>2, StateMachineMaps DEF Parse, Finished
  <2> QED BY <1>1, <2>1 DEF StreamStep, RefinementInv
<1>3. CASE NoMoreEvents
  <2>1. StreamStep
    BY <1>3, NoEventMaps DEF NoMoreEvents
  <2> QED BY <1>1, <2>1 DEF StreamStep, RefinementInv
<1>4. CASE UNCHANGED vars
  <2>1. UNCHANGED <<state, states, marks, error, event>>
    BY <1>4 DEF vars, stacks
  <2>2. openConstructs' = openConstructs /\ streamPhase' = streamPhase
    BY <2>1 DEF openConstructs, streamPhase
  <2>3. DocumentRoot' /\ MarksOfOpenCollections'
    BY <2>1 DEF RefinementInv, DocumentRoot, MarksOfOpenCollections
  <2> QED BY <1>1, <2>1, <2>2, <2>3 DEF RefinementInv, Stream!vars
<1> QED BY <1>2, <1>3, <1>4 DEF Next

(* The marks stack holds the start of each open collection, in order:      *)
(* parser->marks is popped for the collection that closes, or that an      *)
(* error names.                                                            *)
THEOREM MarksMatchCollections == Spec => []MarksOfOpenCollections
<1>1. Init => RefinementInv
  BY InitMaps
<1>2. RefinementInv /\ [Next]_vars => RefinementInv'
  BY NextMaps
<1>3. RefinementInv => MarksOfOpenCollections
  BY DEF RefinementInv
<1> QED BY <1>1, <1>2, <1>3, PTL DEF Spec

(* The events of successive calls of yaml_parser_parse form a stream: for  *)
(* every scanner, every nesting, and every place an error can happen.      *)
THEOREM ParserRefinesEventStream == Spec => EventsFormStream
<1>1. Init => Stream!Init /\ RefinementInv
  BY InitMaps
<1>2. RefinementInv /\ [Next]_vars => [Stream!Next]_(Stream!vars) /\ RefinementInv'
  BY NextMaps
<1> QED BY <1>1, <1>2, PTL DEF Spec, EventsFormStream, Stream!Spec

=============================================================================
