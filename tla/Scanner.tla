------------------------------- MODULE Scanner -------------------------------
(***************************************************************************)
(* libyaml's scanner (yaml-0.1.4/src/scanner.c) between the characters and *)
(* the parser: the queue of tokens, the potential simple keys that may     *)
(* still put a KEY in front of a token already in the queue, the stack of  *)
(* indentation levels and the flow level.                                  *)
(*                                                                         *)
(* The input is whatever characters come next.  A token takes one column,  *)
(* blanks any number of them; what a token says is left out.  A column     *)
(* stands for several characters, KeyLimit for the 1024 of them that a     *)
(* simple key may take.                                                    *)
(***************************************************************************)
EXTENDS Integers, SequencesExt

CONSTANTS FlowStart,   \* the tokens of '[' and '{' told apart
          FlowEnd,     \* the tokens of ']' and '}' told apart
          Property,    \* the tokens of '*', '&' and '!' told apart
          KeyLimit,    \* the columns a simple key may take
          MaxColumn,   \* BOUND on the columns of a line
          MaxFlow      \* BOUND on the nesting of flow collections

FlowStartToken == {"FLOW-SEQUENCE-START", "FLOW-MAPPING-START"}
FlowEndToken == {"FLOW-SEQUENCE-END", "FLOW-MAPPING-END"}
PropertyToken == {"ALIAS", "ANCHOR", "TAG"}
BlockStartToken == {"BLOCK-SEQUENCE-START", "BLOCK-MAPPING-START"}

Token == {"STREAM-START", "STREAM-END", "DIRECTIVE", "DOCUMENT-START", "DOCUMENT-END",
          "BLOCK-END", "BLOCK-ENTRY", "FLOW-ENTRY", "KEY", "VALUE", "SCALAR"}
         \cup BlockStartToken \cup FlowStartToken \cup FlowEndToken \cup PropertyToken

ASSUME ScannerAssumption ==
    /\ FlowStart \subseteq FlowStartToken
    /\ FlowEnd \subseteq FlowEndToken
    /\ Property \subseteq PropertyToken
    /\ KeyLimit \in Nat
    /\ MaxColumn \in Nat
    /\ MaxFlow \in Nat

VARIABLES tokens,             \* parser->tokens, from its head to its tail
          tokenAvailable,     \* parser->token_available
          streamEndProduced,  \* parser->stream_end_produced
          column,             \* parser->mark.column
          simpleKeys,         \* parser->simple_keys, one for each flow level
          simpleKeyAllowed,   \* parser->simple_key_allowed
          indent,             \* parser->indent
          indents,            \* parser->indents, the levels around it
          flowLevel,          \* parser->flow_level
          error,              \* parser->error, or an assertion that failed
          opened              \* history: block collections the parser is in

context == <<tokens, column, simpleKeys, simpleKeyAllowed, indent, indents, flowLevel>>
vars == <<context, tokenAvailable, streamEndProduced, error, opened>>

(***************************************************************************)
(* A simple key.  at is token_number - tokens_parsed, the place of its     *)
(* token in the queue; oldLine is mark.line < parser->mark.line.           *)
(***************************************************************************)
SimpleKey == [possible : BOOLEAN, required : BOOLEAN, at : Int,
              column : 0..MaxColumn + 1, oldLine : BOOLEAN]

NoKey == [possible |-> FALSE, required |-> FALSE, at |-> 0, column |-> 0, oldLine |-> FALSE]

-----------------------------------------------------------------------------
(***************************************************************************)
(* What a fetcher works on, as a record: the fetchers below are written as *)
(* functions from one context to the next.                                 *)
(***************************************************************************)
Here == [tokens |-> tokens, column |-> column, keys |-> simpleKeys,
         allowed |-> simpleKeyAllowed, indent |-> indent, indents |-> indents,
         flow |-> flowLevel]

Become(c) == /\ tokens' = c.tokens
             /\ column' = c.column
             /\ simpleKeys' = c.keys
             /\ simpleKeyAllowed' = c.allowed
             /\ indent' = c.indent
             /\ indents' = c.indents
             /\ flowLevel' = c.flow
             /\ UNCHANGED <<streamEndProduced, error, opened>>

(* After an error nothing of the context is read again.                    *)
Fail(kind) == /\ error' = kind
              /\ UNCHANGED <<context, tokenAvailable, streamEndProduced, opened>>

(* The position n columns into the next line. *)
Aged(key) == [key EXCEPT !.oldLine = TRUE]
NextLine(c, n) == [c EXCEPT !.column = n, !.keys = [i \in DOMAIN @ |-> Aged(@[i])]]

(* ENQUEUE of a token without extent, and of one the fetcher consumes. *)
Enqueue(c, token) == [c EXCEPT !.tokens = Append(@, token)]
Produce(c, token) == [Enqueue(c, token) EXCEPT !.column = @ + 1]

Allow(c, allowed) == [c EXCEPT !.allowed = allowed]

-----------------------------------------------------------------------------
(***************************************************************************)
(* Simple keys.                                                            *)
(***************************************************************************)
IsStale(key, c) == key.possible /\ (key.oldLine \/ key.column + KeyLimit < c.column)

(* Mutant of LosesRequiredKey: only the key of the current flow level.     *)
LosesRequiredKeyOfLevel(c) == c.keys # <<>> /\ IsStale(Last(c.keys), c) /\ Last(c.keys).required

(* yaml_parser_stale_simple_keys: the condition of its error, its effect.  *)
LosesRequiredKey(c) == \E i \in DOMAIN c.keys : IsStale(c.keys[i], c) /\ c.keys[i].required

StaleSimpleKeys(c) ==
    [c EXCEPT !.keys = [i \in DOMAIN @ |-> IF IsStale(@[i], c) THEN NoKey ELSE @[i]]]

(* yaml_parser_remove_simple_key: the condition of its error, its effect.  *)
KeyOwed(c) == Last(c.keys).possible /\ Last(c.keys).required

RemoveSimpleKey(c) == [c EXCEPT !.keys = ReplaceAt(@, Len(@), NoKey)]

(* yaml_parser_save_simple_key. *)
Required(c) == c.flow = 0 /\ c.indent = c.column

KeyHere(c) == [possible |-> TRUE, required |-> Required(c), at |-> Len(c.tokens),
               column |-> c.column, oldLine |-> FALSE]

SaveSimpleKey(c) ==
    IF c.allowed
    THEN [c EXCEPT !.keys = ReplaceAt(@, Len(@), KeyHere(c))]
    ELSE c

-----------------------------------------------------------------------------
(***************************************************************************)
(* Indentation.                                                            *)
(***************************************************************************)
(* Mutant of RollIndent: an item in the column of its block opens another. *)
RollIndentAgain(c, n, at, token) ==
    IF c.flow > 0 \/ c.indent > n
    THEN c
    ELSE [c EXCEPT !.indents = Append(@, c.indent),
                   !.indent = n,
                   !.tokens = InsertAt(@, at + 1, token)]

(* yaml_parser_roll_indent at column n: open a block collection by a token *)
(* at place "at" of the queue, its tail when at is Len(c.tokens).          *)
RollIndent(c, n, at, token) ==
    IF c.flow > 0 \/ c.indent >= n
    THEN c
    ELSE [c EXCEPT !.indents = Append(@, c.indent),
                   !.indent = n,
                   !.tokens = InsertAt(@, at + 1, token)]

(* yaml_parser_unroll_indent to column n. *)
UnrollIndent(c, n) ==
    LET levels == Append(c.indents, c.indent)
        left == Max({i \in DOMAIN levels : levels[i] <= n})
    IN  IF c.flow > 0
        THEN c
        ELSE [c EXCEPT !.indent = levels[left],
                       !.indents = SubSeq(levels, 1, left - 1),
                       !.tokens = @ \o [i \in 1..Len(levels) - left |-> "BLOCK-END"]]

-----------------------------------------------------------------------------
(***************************************************************************)
(* yaml_parser_scan_to_next_token: blanks, then the token, or a comment    *)
(* and line breaks, blanks again and the token.                            *)
(***************************************************************************)
ScanToNextToken(c) ==
    {[c EXCEPT !.column = n] : n \in c.column..MaxColumn} \cup
    {Allow(NextLine(c, n), c.allowed \/ c.flow = 0) : n \in 0..MaxColumn}

(* The contexts in which yaml_parser_fetch_next_token looks at a character *)
(* that starts a token, and those in which it fails before that.           *)
Checked == IF tokens = <<>> THEN Here ELSE StaleSimpleKeys(Here)

AtEnd == "STREAM-END" \in ToSet(tokens)

Positions == IF AtEnd THEN {Checked} ELSE ScanToNextToken(Checked)

AtToken == {UnrollIndent(StaleSimpleKeys(c), c.column) :
              c \in {p \in Positions : ~LosesRequiredKey(p)}}

(* Mutant of NeedMoreTokens: the head is released as soon as there is one. *)
NeedFirstToken == tokens = <<>>

(* yaml_parser_fetch_more_tokens: another token is needed while a simple   *)
(* key may still be inserted in front of the head.                         *)
NeedMoreTokens ==
    tokens = <<>> \/ \E i \in DOMAIN Checked.keys : Checked.keys[i].possible /\ Checked.keys[i].at = 0

Running == error = "none" /\ ~streamEndProduced /\ ~tokenAvailable

Started == simpleKeys # <<>>

MissesKey == tokens # <<>> /\ LosesRequiredKey(Here)

Fetching == Running /\ Started /\ ~MissesKey /\ NeedMoreTokens

(* A fetcher goes from the context before to the context c.                *)
Step(c) == Become(c) /\ UNCHANGED tokenAvailable

-----------------------------------------------------------------------------
Init == /\ tokens = <<>>
        /\ tokenAvailable = FALSE
        /\ streamEndProduced = FALSE
        /\ column = 0
        /\ simpleKeys = <<>>
        /\ simpleKeyAllowed = FALSE
        /\ indent = 0
        /\ indents = <<>>
        /\ flowLevel = 0
        /\ error = "none"
        /\ opened = 0

-----------------------------------------------------------------------------
(***************************************************************************)
(* The fetchers.  A fetcher that fails, in the characters of its token or  *)
(* because a required key would be lost, is FetchNextFails.                *)
(***************************************************************************)
FetchStreamStart ==
    /\ Running
    /\ ~Started
    /\ Step([Enqueue(Here, "STREAM-START")
             EXCEPT !.indent = -1, !.keys = <<NoKey>>, !.allowed = TRUE])

(* Mutant of EndBlocks: the indentation is not reset. *)
KeepBlocks(c) == Allow(RemoveSimpleKey(c), FALSE)

(* What the end of the stream, a directive and a document indicator do.    *)
EndBlocks(c) == Allow(RemoveSimpleKey(UnrollIndent(c, -1)), FALSE)

(* Mutant of FetchStreamEnd: the line does not end with the input.         *)
FetchStreamEndOnLine ==
    /\ Fetching
    /\ \E c \in AtToken : ~KeyOwed(c) /\ Step(Enqueue(EndBlocks(c), "STREAM-END"))

(* The line is forced to end, so that no key waits for the end of input.   *)
FetchStreamEnd ==
    /\ Fetching
    /\ \E c \in AtToken :
         LET end == IF c.column = 0 THEN c ELSE NextLine(c, 0)
         IN  /\ ~KeyOwed(end)
             /\ Step(Enqueue(EndBlocks(end), "STREAM-END"))

(* A directive takes its line break with it. *)
FetchDirective ==
    /\ Fetching /\ ~AtEnd
    /\ \E c \in AtToken :
         /\ c.column = 0
         /\ ~KeyOwed(c)
         /\ Step(NextLine(Enqueue(EndBlocks(c), "DIRECTIVE"), 0))

FetchDocumentIndicator(token) ==
    /\ Fetching /\ ~AtEnd
    /\ \E c \in AtToken :
         /\ c.column = 0
         /\ ~KeyOwed(c)
         /\ Step(Produce(EndBlocks(c), token))

(* yaml_parser_save_simple_key succeeds; its assertion fails.              *)
CanSave(c) == IF c.allowed THEN ~KeyOwed(c) ELSE ~Required(c)
AssertionFails(c) == ~c.allowed /\ Required(c)

FetchFlowCollectionStart(token) ==
    /\ Fetching /\ ~AtEnd
    /\ \E c \in AtToken :
         /\ CanSave(c)
         /\ c.flow < MaxFlow
         /\ Step(Produce([SaveSimpleKey(c) EXCEPT !.keys = Append(@, NoKey),
                                                  !.flow = @ + 1,
                                                  !.allowed = TRUE], token))

(* Mutant of DecreaseFlowLevel: without its guard. *)
AlwaysDecreaseFlowLevel(c) == [c EXCEPT !.flow = @ - 1, !.keys = Front(@)]

(* yaml_parser_decrease_flow_level. *)
DecreaseFlowLevel(c) ==
    IF c.flow > 0 THEN [c EXCEPT !.flow = @ - 1, !.keys = Front(@)] ELSE c

FetchFlowCollectionEnd(token) ==
    /\ Fetching /\ ~AtEnd
    /\ \E c \in AtToken :
         /\ ~KeyOwed(c)
         /\ Step(Produce(Allow(DecreaseFlowLevel(RemoveSimpleKey(c)), FALSE), token))

FetchFlowEntry ==
    /\ Fetching /\ ~AtEnd
    /\ \E c \in AtToken :
         /\ ~KeyOwed(c)
         /\ Step(Produce(Allow(RemoveSimpleKey(c), TRUE), "FLOW-ENTRY"))

(* '-', '?' and ':' in block context start a line, up to other indicators. *)
Indicated(c) == c.flow > 0 \/ c.allowed

FetchBlockEntry ==
    /\ Fetching /\ ~AtEnd
    /\ \E c \in AtToken :
         LET rolled == RollIndent(c, c.column, Len(c.tokens), "BLOCK-SEQUENCE-START")
         IN  /\ Indicated(c)
             /\ ~KeyOwed(c)
             /\ Step(Produce(Allow(RemoveSimpleKey(rolled), TRUE), "BLOCK-ENTRY"))

FetchKey ==
    /\ Fetching /\ ~AtEnd
    /\ \E c \in AtToken :
         LET rolled == RollIndent(c, c.column, Len(c.tokens), "BLOCK-MAPPING-START")
         IN  /\ Indicated(c)
             /\ ~KeyOwed(c)
             /\ Step(Produce(Allow(RemoveSimpleKey(rolled), c.flow = 0), "KEY"))

(* The value of a simple key puts KEY, and BLOCK-MAPPING-START where the   *)
(* mapping is new, in front of the token the key was saved for.            *)
InsertKey(c) ==
    LET key == Last(c.keys)
        keyed == [c EXCEPT !.tokens = InsertAt(@, key.at + 1, "KEY")]
    IN  Allow(RemoveSimpleKey(RollIndent(keyed, key.column, key.at, "BLOCK-MAPPING-START")), FALSE)

FetchValue ==
    /\ Fetching /\ ~AtEnd
    /\ \E c \in AtToken :
         \/ /\ Last(c.keys).possible
            /\ Step(Produce(InsertKey(c), "VALUE"))
         \/ /\ ~Last(c.keys).possible
            /\ Indicated(c)
            /\ LET rolled == RollIndent(c, c.column, Len(c.tokens), "BLOCK-MAPPING-START")
               IN  Step(Produce(Allow(rolled, c.flow = 0), "VALUE"))

(* yaml_parser_fetch_anchor and yaml_parser_fetch_tag. *)
FetchProperty(token) ==
    /\ Fetching /\ ~AtEnd
    /\ \E c \in AtToken :
         /\ CanSave(c)
         /\ Step(Produce(Allow(SaveSimpleKey(c), FALSE), token))

(* A block scalar ends before a less indented line, or at the end.         *)
FetchBlockScalar ==
    /\ Fetching /\ ~AtEnd
    /\ \E c \in AtToken :
         /\ c.flow = 0
         /\ ~KeyOwed(c)
         /\ Step(NextLine(Enqueue(Allow(RemoveSimpleKey(c), TRUE), "SCALAR"), 0))

(* A quoted scalar may end on a later line, at any column. *)
FetchFlowScalar ==
    /\ Fetching /\ ~AtEnd
    /\ \E c \in AtToken :
         LET saved == Allow(SaveSimpleKey(c), FALSE)
         IN  /\ CanSave(c)
             /\ \/ Step(Produce(saved, "SCALAR"))
                \/ Step(NextLine(Enqueue(saved, "SCALAR"), 1))

(* A plain scalar may end on its line; inside a later line, which is more  *)
(* indented than the block; or before a later line, having eaten the       *)
(* breaks and blanks up to it.                                             *)
FetchPlainScalar ==
    /\ Fetching /\ ~AtEnd
    /\ \E c \in AtToken :
         LET saved == Enqueue(Allow(SaveSimpleKey(c), FALSE), "SCALAR")
             inside == IF c.flow > 0 THEN 1 ELSE c.indent + 2
         IN  /\ CanSave(c)
             /\ \/ Step([saved EXCEPT !.column = @ + 1])
                \/ inside <= MaxColumn + 1 /\ Step(NextLine(saved, inside))
                \/ Step(Allow(NextLine(saved, 0), TRUE))

-----------------------------------------------------------------------------
(***************************************************************************)
(* Failures, and the two ends of yaml_parser_fetch_more_tokens.            *)
(***************************************************************************)
FetchMissesKey == Running /\ MissesKey /\ Fail("scanner")

(* Before the first token it is the reader that fails. *)
FetchNextFails == Running /\ ~MissesKey /\ NeedMoreTokens /\ Fail("scanner")

FetchAborts == /\ Fetching /\ ~AtEnd
               /\ \E c \in AtToken : AssertionFails(c)
               /\ Fail("assertion")

TokenBecomesAvailable ==
    /\ Running
    /\ ~MissesKey
    /\ ~NeedMoreTokens
    /\ Become(Checked)
    /\ tokenAvailable' = TRUE

(* DEQUEUE of yaml_parser_scan, SKIP_TOKEN of the parser; tokens_parsed    *)
(* grows, and what is relative to it moves.                                *)
Nearer(key) == IF key.possible THEN [key EXCEPT !.at = @ - 1] ELSE key

(* What a token adds to the block collections that are open. *)
Weight(token) == IF token \in BlockStartToken THEN 1
                 ELSE IF token = "BLOCK-END" THEN -1 ELSE 0

TakeToken ==
    /\ tokenAvailable
    /\ tokens' = Tail(tokens)
    /\ tokenAvailable' = FALSE
    /\ streamEndProduced' = (Head(tokens) = "STREAM-END")
    /\ simpleKeys' = [i \in DOMAIN simpleKeys |-> Nearer(simpleKeys[i])]
    /\ opened' = opened + Weight(Head(tokens))
    /\ UNCHANGED <<column, simpleKeyAllowed, indent, indents, flowLevel, error>>

(* No tokens after STREAM-END or error. *)
Stopped == /\ streamEndProduced \/ error # "none"
           /\ UNCHANGED vars

FetchNextToken ==
    \/ FetchStreamStart
    \/ FetchStreamEnd
    \/ FetchDirective
    \/ \E t \in {"DOCUMENT-START", "DOCUMENT-END"} : FetchDocumentIndicator(t)
    \/ \E t \in FlowStart : FetchFlowCollectionStart(t)
    \/ \E t \in FlowEnd : FetchFlowCollectionEnd(t)
    \/ FetchFlowEntry
    \/ FetchBlockEntry
    \/ FetchKey
    \/ FetchValue
    \/ \E t \in Property : FetchProperty(t)
    \/ FetchBlockScalar
    \/ FetchFlowScalar
    \/ FetchPlainScalar
    \/ FetchNextFails
    \/ FetchAborts

Next == \/ FetchNextToken
        \/ FetchMissesKey
        \/ TokenBecomesAvailable
        \/ TakeToken
        \/ Stopped

Spec == Init /\ [][Next]_vars

-----------------------------------------------------------------------------
(***************************************************************************)
(* Properties.                                                             *)
(***************************************************************************)
TypeOK ==
    /\ tokens \in Seq(Token)
    /\ tokenAvailable \in BOOLEAN
    /\ streamEndProduced \in BOOLEAN
    /\ column \in 0..MaxColumn + 1
    /\ simpleKeys \in Seq(SimpleKey)
    /\ simpleKeyAllowed \in BOOLEAN
    /\ indent \in -1..MaxColumn
    /\ indents \in Seq(-1..MaxColumn)
    /\ flowLevel \in 0..MaxFlow
    /\ error \in {"none", "scanner", "assertion"}
    /\ opened \in Int

(* The token a potential simple key starts with is still in the queue, a   *)
(* key of an inner flow level behind those of the levels around it: a      *)
(* token is never handed to the parser, or overtaken by an insertion,      *)
(* while a KEY may still have to go in front of it.                        *)
KeysPointIntoQueue ==
    /\ \A i \in DOMAIN simpleKeys : simpleKeys[i].possible =>
            simpleKeys[i].at \in 0..Len(tokens) - 1
    /\ \A i, j \in DOMAIN simpleKeys :
            i < j /\ simpleKeys[i].possible /\ simpleKeys[j].possible =>
            simpleKeys[i].at < simpleKeys[j].at

(* POP takes from a stack without looking whether it is empty.  There is   *)
(* one simple key for the block context and one for each flow level, and   *)
(* the levels of indentation grow from -1, which is never popped.          *)
StacksMatchLevels ==
    LET levels == Append(indents, indent)
    IN  Started => /\ Len(simpleKeys) = flowLevel + 1
                   /\ levels[1] = -1
                   /\ \A i \in DOMAIN indents : levels[i] < levels[i + 1]

(* Block collections opened less those closed, after n tokens of the queue. *)
Depth[n \in 0..Len(tokens)] ==
    IF n = 0 THEN opened ELSE Depth[n - 1] + Weight(tokens[n])

(* Tokens that no block collection reaches across. *)
Boundary == {"DIRECTIVE", "DOCUMENT-START", "DOCUMENT-END", "STREAM-END"}

(* Every BLOCK-END comes after a collection it closes, wherever in the     *)
(* queue the start of one was inserted; what is open at the tail are the   *)
(* levels of indentation; and none is open at the tokens around documents, *)
(* unless an unclosed flow collection kept it open.                        *)
BlockCollectionsBalance ==
    /\ \A n \in 0..Len(tokens) : Depth[n] >= 0
    /\ Depth[Len(tokens)] = Len(indents)
    /\ \A n \in DOMAIN tokens : tokens[n] \in Boundary /\ flowLevel = 0 => Depth[n] = 0

(* STREAM-END is the last token and there is one: while it waits in the    *)
(* queue no simple key asks for more input.                                *)
StreamEndsOnce ==
    /\ \A i \in DOMAIN tokens : tokens[i] = "STREAM-END" => i = Len(tokens)
    /\ streamEndProduced => tokens = <<>>

(* A required simple key is not forgotten: the next token in its column    *)
(* would be no key of the mapping.  It goes when a VALUE finds it.         *)
OwesKey == Started /\ simpleKeys[1].possible /\ simpleKeys[1].required

RequiredKeysGetValues ==
    [][OwesKey /\ ~OwesKey' /\ error' = "none" => Last(tokens') = "VALUE"]_vars

(* "A simple key is required only when it is the first token in the        *)
(* current line.  Therefore it is always allowed." (scanner.c:1108)        *)
RequiredKeysAreAllowed == error # "assertion"
=============================================================================
