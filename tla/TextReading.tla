----------------------------- MODULE TextReading -----------------------------
(***************************************************************************)
(* How a text is read: the node events that a sequence of items, each with *)
(* the column and the line it starts at and the characters up to the next  *)
(* one, stands for.  Block collections have no closing items, and an empty *)
(* scalar has no item at all: both follow from the columns.  The text of a *)
(* scalar, where it ends and even that it is one is found in the           *)
(* characters.  This is the reference the emitter's layout is checked      *)
(* against; it follows the scanner's rules (scanner.c) and knows nothing   *)
(* of how the emitter chooses its columns and its styles.                  *)
(***************************************************************************)
EXTENDS ScalarScanning

CONSTANTS NoAnchor, NoTag,
          Defaults   \* the directives every document has

Block == {"seq", "map"}

(***************************************************************************)
(* A reader: the open collections, the events read, whether the innermost  *)
(* one waits for a node, the properties in front of that node, whether a   *)
(* document is open and the directives of the document.                    *)
(***************************************************************************)
Start == [open |-> <<>>, events |-> <<>>, owed |-> FALSE, anchor |-> NoAnchor,
          tag |-> NoTag, inDocument |-> FALSE, directives |-> <<>>]

Misread(r) == [r EXCEPT !.events = Append(@, [type |-> "MISREAD"])]

Top(r) == IF r.open = <<>> THEN [kind |-> "document", at |-> -1] ELSE Last(r.open)

InFlow(r) == Top(r).kind \in {"[", "{"}

(* A node begins, with the properties read in front of it.                 *)
Node(r, type, text) ==
    [r EXCEPT !.events = Append(@, [type |-> type, anchor |-> r.anchor, tag |-> r.tag,
                                    text |-> text]),
              !.owed = FALSE, !.anchor = NoAnchor, !.tag = NoTag]

(* Where a node was due and none came, it was an empty scalar.             *)
Settle(r) == IF r.owed THEN Node(r, "SCALAR", <<>>) ELSE r

Close(r) ==
    LET d == Settle(r)
    IN  [d EXCEPT !.events = Append(@, [type |-> IF Top(r).kind \in {"seq", "["}
                                                 THEN "SEQUENCE-END" ELSE "MAPPING-END"]),
                  !.open = Front(@)]

(* A sequence whose entries are in the column of the mapping around it.    *)
Indentless(r) ==
    /\ Len(r.open) > 1
    /\ Top(r).kind = "seq"
    /\ r.open[Len(r.open) - 1].kind = "map"
    /\ r.open[Len(r.open) - 1].at = Top(r).at

(* Close the collections that an item in column n, an entry of a sequence  *)
(* or not, is not in.                                                      *)
RECURSIVE Unroll(_, _, _)
Unroll(r, n, entry) ==
    IF Top(r).kind \in Block /\ (Top(r).at > n \/ (Top(r).at = n /\ ~entry /\ Indentless(r)))
    THEN Unroll(Close(r), n, entry)
    ELSE r

Open(r, kind, n) ==
    [Node(r, IF kind \in {"seq", "["} THEN "SEQUENCE-START" ELSE "MAPPING-START", <<>>)
        EXCEPT !.open = Append(@, [kind |-> kind, at |-> n])]

BeginDocument(r) ==
    IF r.inDocument
    THEN r
    ELSE [r EXCEPT !.inDocument = TRUE, !.owed = TRUE,
                   !.events = Append(@, [type |-> "DOCUMENT-START"])]

EndDocument(r) ==
    LET d == Settle(Unroll(r, -1, FALSE))
    IN  IF r.inDocument
        THEN [d EXCEPT !.inDocument = FALSE, !.directives = <<>>,
                       !.events = Append(@, [type |-> "DOCUMENT-END"])]
        ELSE r

Owe(r) == [r EXCEPT !.owed = TRUE]

(* A node where none is due is not one; the items of a flow sequence need  *)
(* nothing in front of them.                                               *)
DueNode(r, type, text) ==
    IF r.owed \/ Top(r).kind = "[" THEN Node(r, type, text) ELSE Misread(r)

Entry(r, n) ==
    LET d == Unroll(r, n, TRUE)
    IN  CASE Top(d).kind = "seq" /\ Top(d).at = n -> Owe(Settle(d))
          [] d.owed /\ (Top(d).at < n \/ (Top(d).at = n /\ Top(d).kind = "map"))
                -> Owe(Open(d, "seq", n))
          [] OTHER -> Misread(d)

Key(r, n) ==
    LET d == Unroll(r, n, FALSE)
    IN  CASE InFlow(r) -> Owe(Settle(r))
          [] ~InFlow(r) /\ Top(d).kind = "map" /\ Top(d).at = n -> Owe(Settle(d))
          [] ~InFlow(r) /\ d.owed /\ Top(d).at < n -> Owe(Open(d, "map", n))
          [] OTHER -> Misread(d)

(* The value of an explicit key is a line of its own in a block mapping.   *)
ExplicitValue(r, n) ==
    LET d == Unroll(r, n, FALSE)
    IN  IF InFlow(r) THEN Owe(Settle(r))
        ELSE IF Top(d).kind = "map" /\ Top(d).at = n THEN Owe(Settle(d)) ELSE Misread(d)

TagOf(r, item) ==
    LET known == r.directives \o Defaults
        found == SelectInSeq(known, LAMBDA d : d.handle = item.arg[1])
    IN  CASE item.what = "!<" -> item.arg[1]
          [] item.what = "tag" /\ item.arg[1] = "!" -> NoTag
          [] item.what = "tag" /\ found > 0 -> known[found].prefix
          [] OTHER -> "undeclared"

Directive(r, item) ==
    LET d == EndDocument(r)
    IN  IF item.what = "%TAG"
        THEN [d EXCEPT !.directives = Append(@, [handle |-> item.arg[1], prefix |-> item.arg[2]])]
        ELSE d

(* parser->indent: flow collections do not change it. *)
IndentOf(r) ==
    LET blocks == {k \in DOMAIN r.open : r.open[k].kind \in Block}
    IN  IF blocks = {} THEN -1 ELSE r.open[Max(blocks)].at

(* A scalar ends where the next item begins, or in the blanks before it.   *)
ScalarNode(r, item, rest) ==
    LET scan == ScanScalar(item.chars \o rest, item.at, IndentOf(r), InFlow(r))
        n == Len(item.chars)
    IN  IF /\ scan.ok /\ scan.next <= n + 1
           /\ \A k \in scan.next..n : IsGap(item.chars[k])
        THEN DueNode(r, "SCALAR", scan.text)
        ELSE Misread(r)

(* Read one item, which the rest follows.  A text that begins with "..."   *)
(* has an empty document in front of it.                                   *)
ReadItem(r, item, rest, simpleValue) ==
    LET d == BeginDocument(r)
    IN  CASE item.what \in {"%YAML", "%TAG"} -> Directive(r, item)
          [] item.what = "---" -> BeginDocument(EndDocument(r))
          [] item.what = "..." -> EndDocument(IF r.events = <<>> THEN d ELSE r)
          [] item.what = "-" -> Entry(d, item.at)
          [] item.what = "?" -> Key(d, item.at)
          [] item.what = ":" -> IF simpleValue THEN Owe(Settle(r)) ELSE ExplicitValue(r, item.at)
          [] item.what = "&" -> [d EXCEPT !.anchor = item.arg[1]]
          [] item.what \in {"tag", "!<"} -> [d EXCEPT !.tag = TagOf(d, item)]
          [] item.what = ">" -> r
          [] item.what = "*" -> DueNode([d EXCEPT !.anchor = item.arg[1]], "ALIAS", <<>>)
          [] item.what = "scalar" -> ScalarNode(d, item, rest)
          [] item.what \in {"[", "{"} ->
                IF d.owed \/ Top(d).kind = "[" THEN Open(d, item.what, item.at) ELSE Misread(d)
          [] item.what \in {"]", "}"} -> Close(r)
          [] item.what = "," -> Settle(r)

-----------------------------------------------------------------------------
(***************************************************************************)
(* Simple keys: a node is one when a ":" follows it on its line.           *)
(***************************************************************************)
Before(text, i, set) == i > 1 /\ text[i - 1].what \in set

FlowDepth(text, i) ==
    Cardinality({k \in 1..i : text[k].what \in {"[", "{"}})
        - Cardinality({k \in 1..i : text[k].what \in {"]", "}"}})

(* The item that opens the collection which item i closes. *)
Opener(text, i) ==
    Max({k \in 1..i : text[k].what \in {"[", "{"} /\ FlowDepth(text, k) = FlowDepth(text, i) + 1})

(* The first item of the node that ends at item i, with its properties.    *)
RECURSIVE NodeStart(_, _)
NodeStart(text, i) ==
    CASE text[i].what \in {"]", "}"} -> NodeStart(text, Opener(text, i))
      [] /\ Before(text, i, {"&", "tag", ">", "!<"})
         /\ text[i - 1].line = text[i].line -> NodeStart(text, i - 1)
      [] OTHER -> i

(* The simple key in front of the ":" at item i starts at NodeStart. *)
EndsSimpleKey(text, i) ==
    /\ text[i].what = ":"
    /\ Before(text, i, {"scalar", "*", "]", "}"})
    /\ text[i - 1].line = text[i].line
    /\ text[NodeStart(text, i - 1)].line = text[i].line
    /\ FlowDepth(text, i) = 0 \/ ~Before(text, NodeStart(text, i - 1), {"?"})

SimpleKeyStarts(text) == {NodeStart(text, i - 1) : i \in {k \in DOMAIN text : EndsSimpleKey(text, k)}}

(* The events of a text. *)
Read(text) ==
    LET starts == SimpleKeyStarts(text)
        rest(i) == FoldLeft(LAMBDA s, item : s \o item.chars, <<>>, SubSeq(text, i + 1, Len(text)))
        step(r, i) == LET d == IF i \in starts THEN Key(BeginDocument(r), text[i].at) ELSE r
                      IN  ReadItem(d, text[i], rest(i), EndsSimpleKey(text, i))
    IN  EndDocument(FoldLeftDomain(step, Start, text)).events
=============================================================================
