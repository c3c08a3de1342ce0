------------------------------ MODULE MCEmitter ------------------------------
(***************************************************************************)
(* Streams of events that do not cost too much (EmitStream), and the text  *)
(* of them read back.                                                      *)
(***************************************************************************)
EXTENDS EmitStream

CONSTANTS Menus,          \* what the streams of the run vary: "structures", "texts"
          Alphabet,       \* the characters of the texts of up to MaxLength
          Words,          \* the characters of the texts of up to MaxWords
          Signs,          \* the characters of the texts of up to MaxSigns
          MaxLength, MaxWords, MaxSigns,  \* BOUNDS on the lengths of texts
          Rooms,          \* its write failures
          EmptyRoots,     \* may the first document be implicit and an empty scalar?
          FoldedBlanks,   \* may a folded scalar have a full line that begins with a blank?
          MaxCost,        \* BOUND on what a stream costs
          MaxCostLost     \* the same where it goes on after a failed write

VARIABLES given,          \* the events in full
          menu            \* what this stream may have

Reading == INSTANCE TextReading

-----------------------------------------------------------------------------
(***************************************************************************)
(* The menu of structures: every kind of event, few texts.                 *)
(***************************************************************************)
Word == <<Letter>>

WordScalar == [type |-> "SCALAR", anchor |-> NoAnchor, tag |-> NoTag, plainImplicit |-> TRUE,
               quotedImplicit |-> TRUE, style |-> "any", text |-> Word]

Lines == <<Letter, LF, Letter>>
Kept == <<Letter, LF, LF>>

OddScalars ==
    {[WordScalar EXCEPT !.text = t] : t \in {<<>>, <<Wide>>, <<Letter, Comma>>, Lines}}
    \cup {[WordScalar EXCEPT !.text = t, !.style = "literal"] : t \in {Lines, Kept}}
    \cup {[WordScalar EXCEPT !.anchor = "a"],
          [WordScalar EXCEPT !.anchor = BadAnchor],
          [WordScalar EXCEPT !.quotedImplicit = FALSE, !.text = <<Dash, SP>>],
          [WordScalar EXCEPT !.plainImplicit = FALSE, !.quotedImplicit = FALSE, !.tag = "app:"]}

Plain == [anchor |-> NoAnchor, tag |-> NoTag, implicit |-> TRUE, flow |-> FALSE]

FlowStyle == [Plain EXCEPT !.flow = TRUE]

OddCollections == {[Plain EXCEPT !.anchor = "a"], [Plain EXCEPT !.implicit = FALSE, !.tag = "yaml:"]}

Bare == [implicit |-> TRUE, version |-> "none", tagDirectives |-> <<>>]

OddDocuments ==
    {[Bare EXCEPT !.version = "1.1"],
     [Bare EXCEPT !.implicit = FALSE,
                  !.tagDirectives = <<[handle |-> "!!", prefix |-> "app:"]>>]}

(***************************************************************************)
(* The menu of texts: every text, in every style, in few structures.       *)
(***************************************************************************)
DocumentMarks == {<<Dot, Dot, Dot>>, <<Dot, Dot, Dot, SP, Letter>>, <<Dash, Dash, Dash, SP, Letter>>,
                  <<Letter, LF, Dot, Dot, Dot>>, <<Letter, LF, Dash, Dash, Dash>>}

Texts == SeqOf(Alphabet, MaxLength) \cup SeqOf(Words, MaxWords) \cup SeqOf(Signs, MaxSigns)
             \cup DocumentMarks

(* The texts that go everywhere. *)
Short(t) == Len(t) <= 2 /\ Range(t) \subseteq Alphabet

TextScalars(texts) ==
    [type : {"SCALAR"}, anchor : {NoAnchor}, tag : {NoTag}, plainImplicit : {TRUE},
     quotedImplicit : {TRUE}, style : Style \ {"plain"}, text : texts]

(* A line that begins with a blank, and is long enough to be folded.       *)
FoldsAfterBlank(e) ==
    /\ e.style = "folded" /\ Wide \in Range(e.text)
    /\ \E i \in DOMAIN e.text : IsSpace(e.text[i]) /\ (i = 1 \/ IsBreak(e.text[i - 1]))

(* The other events tell nothing new in these modes.                       *)
TellsInMode(e) ==
    CASE emitter.canonical -> e.style = "any"
      [] ~emitter.canonical /\ ~emitter.unicode -> \E ch \in Range(e.text) : ~IsAscii(ch)
      [] OTHER -> TRUE

(* Events without an oddity cost one, the others two, ends nothing.  On    *)
(* the menu of texts a flow collection is no oddity, and a text that does  *)
(* not go everywhere costs three.                                          *)
Cost(e) ==
    CASE e = WordScalar -> 1
      [] e.type = "SCALAR" /\ e # WordScalar ->
            IF menu = "texts" /\ ~Short(e.text) THEN 3 ELSE 2
      [] e.type \in {"SEQUENCE-START", "MAPPING-START"} ->
            IF e.anchor = NoAnchor /\ e.tag = NoTag /\ (~e.flow \/ menu = "texts") THEN 1 ELSE 2
      [] e.type \in {"ALIAS", "DOCUMENT-START"} -> 1
      [] OTHER -> 0

TotalCost == FoldLeft(LAMBDA n, e : n + Cost(e), 0, given)

-----------------------------------------------------------------------------
(* The texts that may come: a stream has one. *)
TextsOffered ==
    CASE \E i \in DOMAIN given : given[i].type = "SCALAR" /\ given[i] # WordScalar -> {}
      [] MaxCost - TotalCost < 2 -> {}
      [] MaxCost - TotalCost = 2 -> {t \in Texts : Short(t)}
      [] OTHER -> Texts

ScalarsOfMenu ==
    {WordScalar} \cup IF menu = "structures" THEN OddScalars
                                              ELSE {e \in TextScalars(TextsOffered) : TellsInMode(e)}

CollectionsOfMenu ==
    {Plain, FlowStyle} \cup IF menu = "structures" THEN OddCollections ELSE {}

(* On the menu of texts a stream has one document. *)
DocumentsOfMenu == CASE menu = "structures" -> {Bare} \cup OddDocuments
                     [] menu = "texts" /\ Len(given) = 1 -> {Bare}
                     [] OTHER -> {}

EndsOfMenu == IF menu = "structures" THEN BOOLEAN ELSE {TRUE}

RoomsOfMenu == IF menu = "structures" THEN Rooms ELSE {-1}

WriteFailures == {-1, 0}

UsedModes == {[canonical |-> FALSE, unicode |-> TRUE], [canonical |-> FALSE, unicode |-> FALSE],
              [canonical |-> TRUE, unicode |-> FALSE]}

SmallAlphabet == {Letter, SP, LF, LS, Dash, Colon, Hash, Comma, Quote}

WordsAndBlanks == {Wide, SP, LF, Letter}

ManySigns ==
    {Letter, SP, LF, PS, NEL, CR, NUL, BEL, TAB, BOM, 160, 233, 128512, Dot, Question, Bang,
     Ampersand, Asterisk, Bar, Greater, Percent, At, Grave, DoubleQuote, Backslash} \cup Brackets

DefaultDirectives == <<[handle |-> "!!", prefix |-> "yaml:"]>>

-----------------------------------------------------------------------------
MCInit == /\ Init /\ Stream!Init /\ given = <<>>
          /\ menu \in Menus /\ (menu = "structures" => ~emitter.unicode)

Hand(e) == /\ TotalCost + Cost(e) <= IF lost THEN MaxCostLost ELSE MaxCost
           /\ given' = Append(given, e)
           /\ UNCHANGED menu
           /\ \E room \in RoomsOfMenu : Emit(e, room)

(* The code has no way to write an empty scalar that is all of a text. *)
FirstRoot == open = <<"root">> /\ Len(given) = 2

MayCome == {e \in ScalarsOfMenu : /\ e.text = <<>> /\ FirstRoot => EmptyRoots \/ ~Last(given).implicit
                                  /\ FoldedBlanks \/ ~FoldsAfterBlank(e)}

Events(types, contents) ==
    {[type |-> type, anchor |-> c.anchor, tag |-> c.tag, implicit |-> c.implicit, flow |-> c.flow] :
        type \in types, c \in contents}

(* The node events that may come, and the others. *)
NodesOffered ==
    [type : {"ALIAS"}, anchor : Anchors] \cup MayCome
        \cup Events({"SEQUENCE-START", "MAPPING-START"}, CollectionsOfMenu)

OthersOffered ==
    [type : {"STREAM-START", "STREAM-END", "SEQUENCE-END", "MAPPING-END"}]
        \cup [type : {"DOCUMENT-END"}, implicit : EndsOfMenu]
        \cup {[type |-> "DOCUMENT-START", implicit |-> d.implicit, version |-> d.version,
               tagDirectives |-> d.tagDirectives] : d \in DocumentsOfMenu}

Offered == OthersOffered \cup IF Stream!AcceptsNode THEN NodesOffered ELSE {}

MCNext == \E e \in Offered : Continues(e) /\ Hand(e)

MCSpec == MCInit /\ [][MCNext]_<<vars, given, menu>>

-----------------------------------------------------------------------------
(***************************************************************************)
(* Properties.                                                             *)
(***************************************************************************)

(* What a reader has to learn from the text about an event.                *)
Meaning(e) ==
    CASE e.type = "SCALAR" -> [type |-> "SCALAR", anchor |-> e.anchor, text |-> e.text,
                               tag |-> IF TagWritten(emitter, e) THEN e.tag ELSE NoTag]
      [] e.type \in {"SEQUENCE-START", "MAPPING-START"} ->
            [type |-> e.type, anchor |-> e.anchor, text |-> <<>>,
             tag |-> IF TagWritten(emitter, e) THEN e.tag ELSE NoTag]
      [] e.type = "ALIAS" -> [type |-> "ALIAS", anchor |-> e.anchor, text |-> <<>>, tag |-> NoTag]
      [] OTHER -> [type |-> e.type]

MeaningOfGiven ==
    LET inner == SelectSeq(given, LAMBDA e : e.type \notin {"STREAM-START", "STREAM-END"})
    IN  [i \in DOMAIN inner |-> Meaning(inner[i])]

(* At the end of the stream the text, whatever columns and styles the   *)
(* emitter chose, reads back as the events it was given; so a caller whose *)
(* calls all succeed has written its documents.                            *)
TextReadsBack ==
    emitter.error = "none" /\ emitter.state = "END"
        => Reading!Read(emitter.text) = MeaningOfGiven
=============================================================================
