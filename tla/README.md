# NetYaml in TLA+

NetYaml is a .NET binding of libyaml 0.1.4.  This directory holds TLA+
specifications of the two, model-checked with TLC, and proofs about them
checked with TLAPS.  `PROJECT.json` lists the components, the runs, the lines of
source every definition stands for, the hazards the properties are aimed at, and
the theorems.

Paths below are those of the repository: `yaml-0.1.4/` is libyaml (C),
`netyaml/` the binding (C# and a small C++ layer).

## The system

### Components, state and operations

| Component | Where | State | Operations |
|---|---|---|---|
| Reader | `src/reader.c` | raw and decoded buffers, encoding, eof | refill the buffer: detect the encoding, decode UTF-8 or UTF-16 |
| Scanner | `src/scanner.c` | token queue, simple keys, indents, flow level | fetch one token; release the head of the queue |
| Parser | `src/parser.c` | state, stacks of return states and marks, tag directives | `yaml_parser_parse`: one event per call |
| Loader | `src/loader.c` | document under construction, anchors | `yaml_parser_load`: one document per call |
| Emitter | `src/emitter.c` | event queue, state, stacks of states and indents, flow level | `yaml_emitter_emit`: one event per call |
| Dumper | `src/dumper.c` | opened, closed, anchor counters | `open`, `dump`, `close` |
| Writer | `src/writer.c` | output buffer | `yaml_emitter_flush`: encode and write |
| API | `src/api.c` | none of its own | life of parsers, emitters, tokens, events, documents |
| Parse loop | `NetYamlNative/interop.cpp`, `NetYaml/Interop/NativeParser.cs` | static dictionary address -> builder | `Parse`, with the callback `ParseYamlEvent` |
| Document builder | `NetYaml/Interop/YamlBuilder.cs`, `NetYaml/YNode.cs` | documents, stack of open nodes, anchors, a mapping's next key | one handler per event type |
| Dump loop | `NetYaml/Interop/NativeEmitter.cs`, `YamlWriter.cs` | static dictionary address -> writer | `Dump`, with the callback `WriteYamlContent` |

### How they interact

Reading is by demand.  `NativeParser.Parse` creates a native parser, registers a
`YamlBuilder` under its address and calls `parser_parse`, which loops: it calls
`yaml_parser_parse`, which runs one state function; that peeks at the token
queue, which `yaml_parser_fetch_more_tokens` fills from the reader's buffer; the
event goes by callback to `ParseYamlEvent`, which looks the builder up by the
address and runs a handler.  Errors travel back as return codes, and exceptions
of the builder as the code 1.

Writing is by push.  `NativeEmitter.Dump` generates events and gives each to
`yaml_emitter_emit`; the emitter keeps events back until it has seen enough of
what follows, runs its state machine and writes to the writer's buffer, which
goes by callback to `WriteYamlContent`.

The native library has no threads and no persistent state.  Concurrency comes
in with the two static dictionaries of the binding, which all callers share and
whose keys, addresses of native objects, come again after they are freed.

### What is hard, and what makes each component correct

  - *Parser.*  A hand-written pushdown automaton of 24 states: pushes and pops
    are far apart and unchecked, FIRST states read a token they do not check,
    and every state function decides on its own which tokens show that an
    optional node is absent.  It is right if its stacks balance under every
    token order, its events nest, directives have the scope of a document, it
    ends, and it accepts its grammar.
  - *Scanner.*  Tokens are inserted into the queue behind tokens already
    fetched; indents and flow level must balance.
  - *Loader, builder.*  Anchors, nesting and the alternation of keys and values
    are spread over many events.
  - *Emitter.*  Lookahead in the event queue; the order of events it accepts.
  - *Parse and dump loop.*  A failure half way, reused addresses, threads.
  - *Reader, writer.*  Boundaries of buffers, encodings that must be inverse.

`PROJECT.json` lists these, and more, as hazards, each at its line.

## Modules

| Module | Models |
|---|---|
| `EventStream` | abstract: what a well-formed stream of events is |
| `Parser` | `parser.c`, one action per state function |
| `MCParser` | constants for TLC: a scanner that may deliver any token |
| `TokenGrammar` | the grammar in the header comment of `parser.c`, as a recogniser |
| `MCGrammar` | the parser beside that recogniser |
| `ParserProofs` | theorems about `Parser` |
| `Scanner`, `MCScanner` | `scanner.c` above the single token: queue, simple keys, indents, flow level |
| `ScannerProofs` | theorems about `Scanner` |
| `YamlBuilder` | the handlers of `YamlBuilder.cs` with `YNode.Add` |
| `ParseLoop` | `parser_parse` and `ParseYamlEvent`: any `EventStream` drives the builder |
| `ParseHistory` | `ParseLoop` with a history of the events, and what they say of the documents |
| `ParseLoopProofs` | theorems about `ParseLoop` and `ParseHistory` |
| `NodeEvents` | the events `NativeEmitter.Dump` makes of a document |
| `MCParseLoop` | the histories of TLC's run, and what `NodeEvents` makes of their documents |
| `NativeParser` | `NativeParser.Parse` with concurrent callers and reused addresses |
| `NativeEmitter` | `NativeEmitter.Dump` in the same way, with the write callback |
| `MCInterop` | callers of both over one heap |
| `InteropProofs` | theorems about `MCInterop` |
| `MCNativeParser` | constants for the callers of `Parse` alone |
| `Characters` | characters, and the tests on them in `yaml_private.h` |
| `Layout` | `emitter.c`: what is on the page, indicators, indentations and breaks |
| `ScalarWriting` | `emitter.c`: the analysis of a text and the five ways to write it |
| `Emitter` | `emitter.c`: queue and state functions |
| `ScalarScanning` | `scanner.c`: the characters of plain, quoted and block scalars |
| `TextReading` | how a text of the emitter is read, independently of the emitter |
| `EmitStream` | any `EventStream` given to the emitter |
| `EmitterProofs` | theorems about `EmitStream` |
| `MCEmitter` | the streams of TLC's run, whose text `TextReading` reads |
| `Loader` | `loader.c`, one action per event |
| `LoadStream` | any `EventStream` given to the loader |
| `LoadHistory` | `LoadStream` with a history of the events, and which anchors make it unreadable |
| `LoaderProofs` | theorems about `LoadStream` and `LoadHistory` |
| `Dumper` | `dumper.c` and the document functions of `api.c` |
| `MCLoadDump` | an application that loads, edits and dumps documents |
| `Reader` | `reader.c` with the read handlers |
| `ReaderProofs` | theorems about `Reader` |
| `Writer` | `writer.c` |
| `MCEncoding` | a text through the writer and the reader |
| `SequenceFacts` | lemmas that the proofs share: induction over numbers, the operators on sequences, counts of events |

An operator whose comment begins with "Mutant of" is a plausible mistake in the
definition that follows it; no specification uses it.  `PROJECT.json` says which
property detects it.

### Parser

`Parser` has the fields of `yaml_parser_t` that `parser.c` uses: `state`,
`states`, `marks`, `tagDirectives`, `streamEndProduced` and `error`, and the
`event` of the last call.  Of the token queue it keeps the token at the head,
once peeked (`head`), and the scanner behind it (`scan`).  A mark is abstracted
to the type of the token it marks, which is what pairs pushes with pops.  The
data of a token is an anchor, a tag handle or a version; the text of scalars,
styles and resolved tags are left out.

Every action is a call of `yaml_parser_parse` that runs one state function from
its first peek to its return, with the tokens it fetches on the way: `Peek` and
`PeekAfter` range over the outcomes of the scanner, failures included.  The one
exception is `yaml_parser_parse_document_start`: a turn of its loop over extra
document ends and of the loop over directives is a step of its own (no event is
returned; `version` and `declared` are the locals of
`yaml_parser_process_directives`), for the number of directives is unbounded.
`NoMoreEvents` is a call after the end or an error, which succeeds and returns
an event of no type.

The scanner is a parameter, `Supply`.  `MCParser` and the proofs take the most
general one, which delivers any token or fails at any point; so what is shown
holds for the real scanner.  `MCGrammar` uses the parameter to run the parser
beside a recogniser of the grammar.

`openConstructs` and `streamPhase` map the parser's state to `EventStream`, and
`EventsFormStream` says that the parser implements it: each step of the parser
is a step of the stream, or leaves it as it is.

### Scanner

`Scanner` has the queue (`tokens`, from its head), `simpleKeys`,
`simpleKeyAllowed`, `indent`, `indents`, `flowLevel` and `column`.  The input is
any: before each token any blanks, comments and line breaks, then any token that
`yaml_parser_fetch_next_token` dispatches on at that column and flow level.  The
functions that scan a single token are reduced to what the rest depends on: on
which line and in which column they end, whether they fail, and, for plain
scalars, that they allow a simple key if they end in a line break.

A fetcher is an action; `Here` is what it works on, and the helpers of the code
(`RollIndent`, `SaveSimpleKey`, ...) are functions on it.  A line number is kept
only as far as the code compares it: `oldLine` says that a simple key began on
an earlier line.  `token_number` is kept relative to `tokens_parsed` (`at`), so
that the state stays finite however many tokens are taken.  `TakeToken` is the
parser's `SKIP_TOKEN`.  `opened` is a history variable: the block collections
the parser has been told of and that are still open.

`Scanner` and `Parser` are not composed: the parser's runs take any tokens, and
those of the scanner any input.

### Builder and parse loop

`YamlBuilder` numbers nodes in the order of their creation.  An operation is a
handler; where the code throws, `thrown` names the exception and nothing else
changes.  `ParseLoop` joins a step of `EventStream` with the handler of that
event, and sets `result` by the exit conditions of the loop of `parser_parse`.
Because the parser implements `EventStream`, what holds in `ParseLoop` holds
for the parser.

`ParseHistory` adds the history of events and says what it means without a
stack: the collection an event belongs to is found by counting starts and ends,
and an alias means the last node before it in its document with that anchor.
`MCParseLoop` bounds it, and lets `NodeEvents` dump the documents.

`NodeEvents` has the three passes of `Dump`: the nodes that are met twice, the
anchors they get, and the events.  Nodes are compared by their `Equals`, which
for scalars is the comparison of texts, so that two scalars of a document with
the same text come out as one node and its alias.  Tags are left out there:
`Dump` always sets the flags that let the emitter leave them out.
`DumpedEventsRebuild` runs the builder again on the events made of each document
it has built.

### Callers of Parse and Dump

`NativeParser` and `NativeEmitter` are about `Parse` and `Dump` as their callers
see them.  An action is an operation on the heap or on a static dictionary; for
`Parse` these are `Create`, `Register`, `ParseYamlEvent` (one event),
`ParseEnds`, `Collect`, `Remove` and `Destroy`, and `Dump` has the like with a
step for each document and each flush.  A text to parse is reduced to its length
in events and its fate: valid, malformed (the parser refuses it after some
events), or refused (a handler throws).  Documents to dump are reduced to their
number and to which of them, if any, has a node that no event can be made of.
The heap gives out any free address.

Any `Emit` of a call may fail, because the emitter refuses an event or a flush
fails, and `Dump` goes on without noticing; `lost` says that one has.  It turns
out in `FlushDocument`: the text that reaches the writer is then some of the
document's or none, and what does not reach it is gone or stays in the buffer
for a later flush.  The flush of STREAM-END is taken together with that of the
last document, and the one of `yaml_emitter_delete` is in `DestroyEmitter`; it
may fail too.

Text waits in the buffer of the native emitter until a flush hands it to
`WriteYamlContent`, which looks the writer up by the address.  The flush of
`yaml_emitter_delete` comes after the entry was removed, or, for a call that
threw, may find the entry of another.  An emitter whose `Add` threw, because a
failed call left its entry behind, has no encoding yet when it is destroyed;
`yaml_emitter_flush` asserts that it has one, and the process ends: `aborted`.

In `MCInterop` the two share the heap: an address may be a parser's and later an
emitter's.  Operations on the dictionaries are atomic; the code uses an
unsynchronised `Dictionary`, whose behaviour under concurrent writes is
unspecified and not modelled.

### Emitter

`Emitter` has the fields of `yaml_emitter_t` that `emitter.c` uses in the record
`emitter`: the queue `events`, the `states` and `indents`, `flowLevel`, the tag
directives, `column`, and the flags by which one call tells another what it left
(`whitespace`, `indention`, `openEnded`, ...).  Each state function of the code
is an operator from such a record to the next; a step that fails sets `ok` to
FALSE, and every later one leaves such a record alone, which is the code's
`if (!f(...)) return 0`.  `Emit` is a call of `yaml_emitter_emit`: it appends an
event, and runs the state machine as long as `NeedMoreEvents` says that no more
have to be waited for.

`EmitStream` is the emitter under a caller that gives it a well-formed stream of
events, each with any content, and goes on after every error, as the managed
`Dump` does, which never looks at what `Emit` returns.  After a refusal the
event stays at the head of the queue and is refused again.  After a failed write
it stays there too, but its handler runs again on what it has changed already:
an end of a flow collection takes `flow_level` down and pops `indents` once
more.  The history variable `lost` says that a write has failed.  From then on
the emitter need not be where the stream is, no claim is made about the text,
and a handler may pop an empty stack, which the code does not check: `error` is
"undefined" there, and the model ends.  A scalar says what it is, by a tag or by
one of the two flags that let the tag be left out; a scalar that says nothing is
refused by `yaml_emitter_select_scalar_style`, and is left out.  `Dump` sets the
flags.

The handlers extend two modules of helpers.  `Layout` has the macros `PUT`,
`WRITE` and their like, and the functions that write indicators and
indentations.  `ScalarWriting` has `yaml_emitter_analyze_scalar`, as one
predicate for each flag it sets, and the writers of the five styles, each a
recursive function of how far in the text it is, with the local variables of the
code as its value (`Pen`).
Plain and single quoted scalars are written by one operator, as the code of the
two differs in the quotes only.

The text written is a sequence of items, indicators and scalars, each with the
line and the column it stands at and all characters up to the next one.
Characters are code points.  One of them is none: `Wide` stands for a word of
130 letters, which no single test of the code tells from a letter, and makes
short texts longer than a line (80) and than a simple key (128).  A name is
spelled as one letter.  `room` counts the items up to a write that fails.

`TextReading` knows nothing of the emitter's states: it finds the structure of
such a text from indicators and columns, as the scanner and the YAML
specification do.  What a scalar says, where it ends, and that it is one at all,
it learns from its characters by `ScalarScanning`, which is
`yaml_parser_scan_plain_scalar`, `_flow_scalar`, `_block_scalar` and the
dispatch in `yaml_parser_fetch_next_token`.  `MCEmitter` compares what is read
with the events that were given, so `TextReadsBack` is about what the states,
the columns, the choice of styles, the escapes, the folding and the chomping
achieve together: a chain of decisions on one side that must be undone by a
chain of others.

`MCEmitter` has two menus.  The streams of "structures" have events of every
kind and few texts, in the modes canonical and not; those of "texts" have one
text of many, in every style, in each position a scalar can take.

Two things do not work and are left out of the run by a constant:

  - `EmptyRoots`: as `yaml_emitter_check_empty_document` always answers no, a
    first document that is implicit and whose root is an empty plain scalar
    leaves no trace in the text.
  - `FoldedBlanks`: `yaml_emitter_write_folded_scalar` breaks a full line at a
    space, also where the line begins with a blank (it does not look at
    `leading_spaces` there).  The scanner does not fold such a line, and reads
    the space as a line break.  The text " w a", with a word w of 130 letters,
    is one.

With either of them TRUE, TLC shows `TextReadsBack` violated by it.

### Loader and dumper

`Loader` takes one event a step.  The activations of `yaml_parser_load_sequence`
and `yaml_parser_load_mapping` are the frames of a stack, and a node is known by
its index.  The assertions of the code about the next event lead to the status
"aborted".  `LoadStream` gives it the events of any `EventStream`;
`FramesMirrorStream` says that the frames are the constructs open there, each as
far as its events have come, so that "aborted" is never reached.  `LoadHistory`
keeps the events, and `BadAnchors` tells from them alone, without a loader, that a
document names two nodes alike or has an alias of no node before it.

`Dumper` is `yaml_emitter_dump` as an operator on a document: the pass that
counts references and names anchors, the pass that makes events, and the clean
up, which has to free every string of the document exactly once whether it was
handed to an event or not, and wherever the emitter failed.  `room` is the
number of events up to that failure.

The application of `MCLoadDump` loads the documents of such a stream, edits a
document with the functions of `api.c` or leaves it, dumps it, and stops at
the first error.  Editing makes documents that no stream is loaded as: shared
nodes, cycles, nodes nothing refers to.

### Reader and writer

`Reader` has both buffers and their pointers; octets are numbers.  A step is
what happens between two calls of the read handler (`Read`, `ReadFails`) within
a call of `yaml_parser_update_buffer` (`Request`); `Skip` is the scanner's.  The
handler delivers a portion of any size.  The texts of the reader's errors are
shortened to a word.  `ReaderSpec` is the reader with any input, which the
theorems are about.  `Writer` has the buffer of the emitter,
`Put`, and `Flush`, which recodes and may fail.

`MCEncoding` writes a text, puts octets behind it that may be no characters, and
reads it.  The form a character must have is taken from a table that neither
module uses.

## Runs

| Run | Checks | Bounds |
|---|---|---|
| `parser` | `TypeOK`, `OpenerAtHead`, `StackDiscipline`, `MarksOfOpenCollections`, `DirectiveScope`, `EventsFormStream`, `EndOfInputEndsStream` | collections two deep; one anchor, a default handle and another |
| `parser_grammar` | `AcceptsGrammar`, `AcceptsOnlyGrammar` | derivations of at most nine symbols |
| `grammar_empty_pair_keys` | `AcceptsGrammar`, violated | as above |
| `parse_loop` | `TypeOK`, `StackMirrorsStream`, `OnlyDocumentsThrow`, `DocumentsMirrorEvents`, `AliasesResolveInTheirDocument`, `DumpedEventsRebuild` | eight events; one anchor, two texts |
| `scanner` | `TypeOK`, `KeysPointIntoQueue`, `StacksMatchLevels`, `BlockCollectionsBalance`, `StreamEndsOnce`, `RequiredKeysGetValues` | lines of five columns, simple keys of three, flow collections two deep |
| `scanner_assertion` | `RequiredKeysAreAllowed`, violated | as above |
| `interop` | `TypeOK`, `CallsDoNotMix`, `SuccessLeavesNoEntry`, `DumpsAreWhole`, `AbortsFollowFailures`, `EveryCallEnds` | two threads, two addresses, up to two calls of each kind and three together, texts of one event, two documents together |
| `stale_parser` | `ValidTextParses`, violated | two calls of `Parse` |
| `emitter` | `TypeOK`, `DocumentsStartClean`, `TextReadsBack`, `NothingStaysBehind`, `RefusedForGood` | streams that cost at most five, or four to go on after a failed write; texts of up to three, or four, characters |
| `load_dump` | `TypeOK`, `DumpRestoresStream`, `DumpLoadsBack`, `RefusesBadAnchorsOnly`, `StringsAreFreedOnce` | eight events; two edits of documents with at most three nodes |
| `encoding` | `TypeOK`, `TextSurvives`, `CallsReturn` | texts of three characters; a raw buffer of five octets |
| `surrogate_pairs` | `TextSurvives`, violated | one character |

The run of the parser is unbounded in the number of calls, tokens and documents:
the state of the parser between calls is finite once the depth is.  `MaxDepth`
bounds `parser->states`, which has an entry for the document too.  A state
function looks at the top of the stacks only, so two collections show every
collection inside every other; what rests on deeper stacks is proved, for every
depth (see Proofs).  `MaxSymbols` bounds the derivations of the recogniser: nine
symbols reach a collection in a pair in a collection in a document with
directives.

Lines are unbounded in number in `scanner`.  Its five columns hold a block
collection in another with a key and a value in it, and `KeyLimit` is less than
a line, so that a simple key can be too long before the line ends; columns stand
for several characters, since the code only compares them.  Of the tokens the
scanner treats alike one is taken: `[` for `{`, `]` for `}`, an anchor for an
alias or a tag.

`MaxEvents` is eight in `parse_loop` and `load_dump`: enough for a document of
five nodes, or two documents of one node each with an anchor in the first and an
alias in the second.  Three nodes and two edits make a node shared, a cycle of
two, and a node nothing refers to; `Rooms` let the emitter fail at the fourth
event of a document (3) or not at all (100), and by then a document
has nodes whose strings were handed on and nodes whose strings were not.

A call that fails, one that runs beside its stale entry and one that meets it
are what such an entry takes; three calls on two addresses (`MaxBoth`) make
these of every mix of `Parse` and `Dump`.  Two documents in one call can be out of
order, and one in each of two calls can be mixed; `MaxAll` bounds them together.

An event costs one in `emitter`, a node two if it carries anything out of the
ordinary (an anchor, a tag, a text that restricts the styles), and ends cost
nothing.  Five hold a document of three nested collections with a scalar in
them, a mapping with a remarkable key or value, or two documents with directives
and roots: the
lookahead of the emitter is three events, and what an event leaves behind for
the next is seen by each pair of events.

The texts of `emitter` are those of up to three of nine characters that stand for
the classes the code tells apart (a letter, a space, both kinds of line breaks,
and the indicators whose meaning depends on their neighbours); those of up to
four of a long word, a letter, a space and a line break, for folding and
chomping; those of up to two of 27 characters, among them the other indicators
and a character of each width and kind; and some with a document mark in them.
A test of the code looks at a character with the ones next to it, so three show
what may be in front and behind, but for the document marks.  A text of more
than two characters, or with one of the others, stands as a root or in a
sequence; the rest also as keys and values, in flow and in block collections.

The raw buffer of the reader has five octets for 16384, so that a character is
cut at its end and in front of it, and the buffer behind it three times that,
as in the code.  The characters lie at the edges of the ranges the decoders tell
apart.  In UTF-16 the characters of the higher planes are from the first 1024 of
their plane, whose text is right; the others are in a run of their own.

`CHECK_DEADLOCK FALSE` is said where the system may stop: the loop has ended,
or the calls are used up.

### What the violated runs show

  - `grammar_empty_pair_keys`: `yaml_parser_parse_flow_sequence_entry_mapping_key`
    skips the token that shows the key to be absent, so `[? : v]` loses its `:`.
    The grammar in the header comment has the production.
  - `scanner_assertion`: `yaml_parser_save_simple_key` asserts that where a
    simple key is required it is allowed, with the comment "Impossible".  After a
    quoted scalar or a flow collection that ends on a later line, the next token
    can stand in the column of its block without starting the line, and the
    program aborts.
  - `stale_parser`: `NativeParser.Parse` removes its dictionary entry only on
    success, and frees the native parser always.  A later call whose native
    parser gets the same address throws `ArgumentException` on a valid text.
  - `surrogate_pairs`: the writer masks the low half of a surrogate pair with
    eight bits where two are left for it, so the text in UTF-16 of a character
    of a higher plane that is not among the first 1024 of the plane is one the
    reader refuses.

The passing run of the grammar leaves out the first production, and another that
the code has no case for: a VALUE without a KEY in a block mapping
(`KeylessValues`).

`interop` shows how far the harm of stale entries goes: they never answer for
another call (`CallsDoNotMix`, `DumpsAreWhole`), they never come from a call
that succeeded (`SuccessLeavesNoEntry`), and the abort in `yaml_emitter_flush`
needs a failed call before it (`AbortsFollowFailures`).  `GoodDocumentsDump`
says of `Dump` what `ValidTextParses` says of `Parse`; it fails in the same way
and has no run.

### Fairness

`EndOfInputEndsStream` assumes weak fairness of `Parse`: the loop of
`parser_parse` goes on calling until it has STREAM-END or an error.  It says that
once STREAM-END is at the head of the queue, finitely many calls are enough.
It does not say that the input ends.  `EveryCallEnds` assumes weak fairness of
the steps of each caller inside a call: a thread runs on.  No lock is held
across steps, so weak fairness is enough.  Nothing is assumed of callers between
calls.  `CallsReturn` needs no fairness: it says that the reader waits for its
handler only while there is something the handler may have to say.

## Proofs

The theorems hold for every value of the constants that the assumptions below
allow: any depth, any length of streams, lines and texts, any number of callers.
Every property they state is checked by TLC in a run too, but for two of
`EmitStream` (`OnlyContentIsRefused`, `KeepsPace`), which are theorems only.

### Parser

`ParserProofs` proves `TypeCorrect` (`TypeOK`), `StatesNeverUnderflow`
(`StackDiscipline`), `FirstStatesFindTheirToken` (`OpenerAtHead`) and
`DirectivesAreScoped` (`DirectiveScope`).  All four follow from one invariant,
`Inv`, whose inductiveness is `InvariantHolds`.  None is inductive alone.  That a
pop leaves a well-formed stack needs to know what is on it: every entry but the
bottom one is a continuation state, which is never a FIRST state, so that
returning to it keeps `OpenerAtHead`; the bottom one is DOCUMENT_END, so that
returning to it empties the stack exactly when the state is DOCUMENT_END.  That
the default handles are defined in a document needs the fact that the only ways
into one run `WithDefaults`, and that between documents nothing but the
directives just read is there.  Lemmas about `Return`, `ParseNode` and
`NodeAfter` carry the invariant through the calls that state functions share;
the step lemma has a case for each action.

It also proves `MarksMatchCollections` (`MarksOfOpenCollections`) and
`ParserRefinesEventStream`: the parser implements `EventStream`
(`EventsFormStream`).  Both read the stack `states` as a concatenation, of the
constructs each entry has open and of the mark it owns (`OpenOf`, `MarksOf`); the
lemma `StackMaps` says what a push and a pop do to it, and every state function
is then a step of the stream or leaves it as it is.  Beyond `Inv` it takes that
in front of the root node `states` holds DOCUMENT_END alone.

### Scanner

`ScannerProofs` proves `ScannerTypeCorrect`, `StacksNeverEmpty`
(`StacksMatchLevels`: no POP of simple keys or indents meets an empty stack),
`KeysStayInQueue`, `CollectionsBalance`, `StreamEndIsLast` and the action
property `RequiredKeysAreKept` (`RequiredKeysGetValues`).  The fetchers are
functions on contexts, so the proof is about what each operation makes of a
`Good` context.  To the properties the invariant adds:

  - a key of the current line began to the left of where the scanner is
    (`GoodKeys`), and the levels of indentation grow (`GoodLevels`), so that the
    column of a key can be an indent;
  - read from `opened` on, counting collection starts up and BLOCK-ENDs down, the
    queue never goes below zero and ends with as many as `indents` has entries
    (`Balanced`): at the place where a BLOCK-MAPPING-START is inserted, too;
  - the tokens that end a document or the stream come last in the queue, and when
    one is there no key of its line waits and, outside of flow collections, no
    indent is left (`EndsWell`).

### Parse loop and builder

`ParseLoopProofs` proves `BuilderTypeCorrect`, `BuilderFollowsStream`
(`StackMirrorsStream`) and `OnlyContentThrows` (`OnlyDocumentsThrow`): none of the
checks in `YamlBuilder.cs` against a broken stream can fire.  The invariant `Inv`
adds that the nodes on the builder's stack are different (`StackedOnce`); otherwise
adding a child to the innermost could change how far another has come, and an
alias to a node that is still open makes that more than a formality.

Of `ParseHistory`, that is of histories of any length, it proves

  - `DocumentsAreThoseOfEvents` (`DocumentsMirrorEvents`): the documents are those
    that the events say, node by node and item by item;
  - `AliasesAreResolved` (`AliasesResolveInTheirDocument`): an alias is unknown
    exactly if no node before it in its document has the anchor;
  - `HistoriesAreParses`: the history only watches.

What the events say is found by counting, what the builder does is done with a
stack; the invariant `HInv` joins them.  `StackedBy` says that the stack holds the
nodes of the events that `Tracks` finds: for each depth the last start up to it,
such that the history has not come back from there (`Depth` counts starts less
ends).  `InnermostOpen` then shows that the last of them is the greatest of
`OpenBefore`, which is where an item belongs.  `NamedBy` says the same of the
anchors and the events since the document's start that have them, and `ToldBy` is
the property itself, with the addition that only mappings have a key that waits.
`TracksStays`, `TracksPush`, `TracksPop`, `KnownGrows` and `ItemsGrow` say what one
event more changes; `TakenIn` is `CurrentNode.Add`: one node gets what the event
means as its last item, whatever its class (`AdoptAppends`), and no other node
is touched, since the numbers of events are different.  The meaning of the events
before does not change, which for aliases needs that each has a definition
(`AliasesDefined`).

### Callers of Parse and Dump

`InteropProofs` is about any number of threads, addresses and calls.  Its
theorems are `InteropTypeCorrect`, `ParsesDoNotMix`, `EntriesAreOfFailures`,
`WritersAreWhole` and `AbortsOnlyAfterFailures`.  The invariant says who owns an
address (`Owned`), of whom each entry of the two dictionaries is
(`ParseEntries`, and the like for emitters: a call that has added it and not
removed it, or one that has ended with an exception), that calls are numbered
apart, and for each program point what the call has done and what its buffer
and its writer hold: text of the call itself in any case, and the documents in
order as long as no `Emit` of it has failed.  That a call which returns has all of
them in its writer is not evident: the last text may come with the flush of
`yaml_emitter_delete`, when its entry is gone, and is then lost.  The invariant
has the buffer empty from `RemoveEmitter` on unless an `Emit` has failed.

### Emitter

`EmitterProofs` is about `EmitStream`: any well-formed stream, with any texts,
tags, directives and write failures, of a caller that goes on after every error.
It proves

  - `EmitterTyped` (`TypeOK`): every field keeps its type whatever writes fail, and
    until one has failed the flow level is never negative and nothing is popped
    that was not pushed;
  - `EmitterStartsClean` (`DocumentsStartClean`): no state, indentation, flow
    level or directive of a document is left for the next;
  - `EmitterHoldsNothingBack` (`NothingStaysBehind`): at most three events wait,
    and none outside of a document;
  - `EmitterRefusesForGood`, the action property `RefusedForGood`: an event that
    is refused before a write has failed is refused by every later call;
  - `EmitterRefusesContentOnly` (`OnlyContentIsRefused`): none of the "expected ..."
    errors of the handlers meets a well-formed stream, unless a write has failed;
  - `EmitterKeepsPace` (`KeepsPace`): with nothing open, the emitter is where the
    stream is.

The invariant `Inv` has to say where the emitter is, which is behind the stream
by the events of its queue.  `Mirrors` relates the emitter to a position of the
stream: the states on its stack, with the current one, are the constructs open
there (`Opened`), the flow level counts the flow collections among them that are
behind their first item, `indents` has an entry for each collection that is, and
the bottom of it is -1.  `Follows` says that there are positions of the stream,
`f`, of which the emitter mirrors the first and its queue leads through the rest
to the position of the caller.  For an emitter that has refused an event, `Doomed`
says that the head of the queue is refused whatever follows; that the queue
is not too short for it belongs to this, for otherwise the next call would not
look at it.

These hold until a write fails (`~lost`; an emitter without an error is one whose
writes have all succeeded).  What holds always is `Fit`: the stacks hold states
and levels, the queue holds events, and an error that is set stays set.  It is
proved for every emitter in any state with any queue, since a handler that runs
again finds them in no order that the stream explains (`FlowSequenceItemFits` to
`StateMachineFits`, and `CallFits` for a call).  `GoodCallKeepsInv`,
`RefusedCallKeepsInv` and `CallFits` are the three cases of `CallKeepsInv`.

Each handler is then a lemma (`FlowSequenceItemReaches` to `DocumentStartHandles`):
from a state that mirrors a position it reaches the next one that its event
leads to, or the event is refused for what it carries.  A call makes as many turns
as its queue allows; `TurnGoesOn` is a turn, and `TurnsGoOn` any number of them.
`NothingStaysBehind` needs to know what `yaml_emitter_need_more_events` counts:
over a queue that begins with a start, starts less ends are what the stream has
gone deeper (`DepthCounted`), so that outside of documents the count has come
back to zero, and a queue that has is not held back.

The writers of scalars are in the proof for what they leave alone: they draw on
the page, and change neither stack (`Kept`, `Drawn`).

### Reader

`ReaderProofs` proves `ReaderTyped` and the action property
`CallsOfReaderReturn` for `ReaderSpec`.  `reader.c` never compares the size of
what it decodes with the room in the buffer behind the raw one; that it fits is a
fact about encodings, and the theorem.  The invariant: the buffer holds whole
characters from the pointer on (`Formed`), `unread` counts them, and a reader
that waits for input has fewer than it was asked for and at most three octets
left over.  The lemmas are that a character has at most four octets
(`FormedLength`), and that decoding writes at most half as many octets again as
it takes (`DecodeUtf8Outcome`, `DecodeUtf16Outcome`); so what is left of the
earlier text and what a full raw buffer decodes to have room together.

### Loader

`LoaderProofs` proves, for `LoadStream`, `LoaderTyped` (`TypeOK`) and
`LoaderKeepsStep` (`FramesMirrorStream`, a part of `RefusesBadAnchorsOnly`): no
assertion of `loader.c` about the next event can fail.  An activation gets its
child's index only when the child has ended, while the stream moves the
construct on when it begins; `Mirrors` says both, "waiting" and "done", and the
lemmas `ChildBegins` and `ChildReturns` lead from one to the other.  That the
index of a collection has an activation to go to needs the document at the bottom
of the stack (`StreamWellFormed`).

For `LoadHistory` it proves `LoaderRefusesBadAnchorsOnly` (all of
`RefusesBadAnchorsOnly`): unless the parser fails, the loader has failed exactly
if the history has bad anchors.  The invariant (`HInv`) adds that the anchors the
loader has registered are those of the nodes since the last DOCUMENT-END
(`NamesInv`), which needs every lemma about an event to say what becomes of them
(`Effect`): an index that is returned, on whatever way, leaves them alone, the end
of a document deletes them, and an event is refused exactly if it cannot follow
the history (`RefusalsAgree`).  The lemmas `NamesGrow` and `BadGrows` say what
one more event makes of a history.

In `MCLoadDump` nodes may be edited between two documents.  That is not a step of
`LoadHistory`; the next call starts from `Empty`, whatever became of the nodes.

### Assumptions

  - `SupplyAssumption`: the scanner returns cursors.  `ConstantsAssumption`,
    `AnchorAssumption`, `LoaderAssumption`, `NullAssumption`: the special values
    are not members of the sets they stand outside of.
  - `ScannerAssumption`, `BoundsAssumption`, `DumpBoundsAssumption`: the bounds
    are numbers, and the tokens taken for a group belong to it.
  - `EmitterAssumption`: the special names and tags are none of the others, and
    `default_tag_directives` are directives.
  - `ReaderAssumption`: the raw buffer holds a character, and the largest look
    ahead fits its size.  With the sizes of `yaml_private.h`, 16384 and 49152
    octets, it allows calls for 6144 characters; the scanner asks for far fewer.

TLC evaluates them in the runs.

### How recursion is handled

`SequenceFacts` has what the proofs share: the least element of a set of numbers,
and induction over numbers from it (`SetInduction`), which takes the property as
a set and so needs no operator as a parameter; from these, what `FlattenSeq` of
the community modules does to an appended sequence, for stacks read as
concatenations.  The loop of the reader's decoder is a recursive function, whose
values are shown to exist and to be good by the same induction (`TurnsExist`,
`TurnsGood`).  So are the loops of the emitter: over the directives of a document
(`AdditionsExist`, `DeclarationsExist`), over the characters of a scalar
(`PensExist`), and the turns of a call (`TurnsExist`).

### Only model-checked

  - The grammar: `AcceptsGrammar` and `AcceptsOnlyGrammar` compare the parser
    with a recogniser written with RECURSIVE operators, for which the prover has
    no SMT backend; so do the other modules over `TokenGrammar`, `Dumper`,
    `NodeEvents`, `ScalarScanning` and `TextReading`.
  - That dumped events rebuild their document (`DumpedEventsRebuild`), the
    emitter's `TextReadsBack` and the loader's and dumper's round trips
    (`DumpRestoresStream`, `DumpLoadsBack`): each compares a whole history with
    what an independent, recursive definition makes of it.
  - `TextSurvives`, the writer and the reader together.
  - `StringsAreFreedOnce`.
  - Liveness (`EndOfInputEndsStream`, `EveryCallEnds`), which is out of the
    prover's reach.

## Not modelled

  - Allocation failure, except in the creation of parsers and emitters, and the
    growth of strings, stacks and queues: the code's own checks for it are the
    same everywhere, and what is left behind is memory.
  - Positions in marks and error wording.
  - The characters of directives, anchors, tags and comments, on both sides:
    `Scanner` knows where such a token ends and whether it fails.  Of scalars,
    `ScalarScanning` leaves out what the emitter never writes: comments in the
    head of a block scalar, tabs in indentations, and the pair of CR and LF.
  - Line breaks other than LF, indents and widths other than the default ones,
    which the emitter has setters for that NetYaml does not call, and a flush
    that fails inside of a scalar.
  - The constructors of tokens and events, and the thin marshalling structs.
  - What an unsynchronised `Dictionary` does under concurrent writes, and when the
    collector takes the delegate of the write callback: neither is specified.
  - A caller that goes on in UTF-16 after a failed write, whose text would be
    recoded once more (`writer.c:138`); a write handler that takes a part of the
    text and then fails; output to a string (`api.c:418`), which NetYaml does not use.
  - `Scanner` and `Parser` together: each is checked against anything the other
    may do.

## Plan

What is left, in this order:

 1. That the loader's documents are those of the events, as `DocumentsMirrorEvents`
    has it for the builder: the nodes by number, and the items of each.
 2. The scanning of directives, anchors and tags, character by character.
