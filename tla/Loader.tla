------------------------------- MODULE Loader -------------------------------
(***************************************************************************)
(* libyaml's loader (yaml-0.1.4/src/loader.c): yaml_parser_load composes   *)
(* the next document of a stream from the events of yaml_parser_parse.     *)
(* The activations of yaml_parser_load_sequence and yaml_parser_load_      *)
(* mapping are the stack "frames"; a node is known by its index in         *)
(* document->nodes, counted from one as in the code.                       *)
(***************************************************************************)
EXTENDS Naturals, SequencesExt

CONSTANTS Anchors,   \* names an anchor or an alias can carry
          NoAnchor,  \* the event carries no anchor
          Tags,      \* the tags of events which are not "!"
          NoTag      \* the event carries no tag

ASSUME LoaderAssumption ==
    /\ NoAnchor \notin Anchors
    /\ NoTag \notin Tags \cup {"!"} /\ "!" \notin Tags

VARIABLE loader  \* the document and the rest of what yaml_parser_load keeps

NodeType == {"scalar", "sequence", "mapping"}

(* The items of a mapping are its pairs, key before value.                 *)
NodeAt(n) == [type : NodeType, tag : Tags \cup {"default"}, items : Seq(1 .. n)]

Frame == [kind : {"document", "sequence", "mapping"}, index : Nat, key : Nat]

(***************************************************************************)
(* "ready" for a call, "loading" inside one, "empty" after a call that met *)
(* STREAM-END, "failed" after one that returned 0, and "aborted" when an   *)
(* assertion of the code has failed.                                       *)
(***************************************************************************)
Status == {"ready", "loading", "empty", "failed", "aborted"}

Empty == [status |-> "ready", nodes |-> <<>>, aliases |-> <<>>, frames |-> <<>>,
          startImplicit |-> FALSE, endImplicit |-> FALSE]

-----------------------------------------------------------------------------
(* The label "error": the document and the aliases are deleted. *)
LoadFails(c) == [Empty EXCEPT !.status = "failed"]

AssertionFails(c) == [c EXCEPT !.status = "aborted"]

(* Where the index that yaml_parser_load_node returns goes.                *)
Return(c, index) ==
    LET frame == Last(c.frames)
        top == Len(c.frames)
    IN  CASE frame.kind = "sequence" ->
                [c EXCEPT !.nodes[frame.index].items = Append(@, index)]
          [] frame.kind = "mapping" /\ frame.key # 0 ->
                [c EXCEPT !.nodes[frame.index].items = @ \o <<frame.key, index>>,
                          !.frames[top].key = 0]
          [] frame.kind \in {"mapping", "document"} /\ frame.key = 0 ->
                [c EXCEPT !.frames[top].key = index]

(* yaml_parser_delete_aliases *)
DeleteAliases(c) == [c EXCEPT !.aliases = <<>>]

IndexOf(c, anchor) ==
    LET i == SelectInSeq(c.aliases, LAMBDA data : data.anchor = anchor)
    IN  IF i = 0 THEN 0 ELSE c.aliases[i].index

(* Mutant of Register: every anchor is taken. *)
RegisterAgain(c, index, anchor) ==
    IF anchor = NoAnchor THEN c
    ELSE [c EXCEPT !.aliases = Append(@, [anchor |-> anchor, index |-> index])]

(* yaml_parser_register_anchor *)
Register(c, index, anchor) ==
    CASE anchor = NoAnchor -> c
      [] anchor # NoAnchor /\ IndexOf(c, anchor) # 0 -> LoadFails(c)
      [] OTHER -> [c EXCEPT !.aliases = Append(@, [anchor |-> anchor, index |-> index])]

(* Mutant of Compose: the anchor gets the index of the next node.          *)
ComposeOneAhead(c, type, e) ==
    LET tag == IF e.tag \in {NoTag, "!"} THEN "default" ELSE e.tag
        d == [c EXCEPT !.nodes = Append(@, [type |-> type, tag |-> tag, items |-> <<>>])]
    IN  Register(d, Len(d.nodes) + 1, e.anchor)

(* A node is pushed with its tag, or the default one of its kind.          *)
Compose(c, type, e) ==
    LET tag == IF e.tag \in {NoTag, "!"} THEN "default" ELSE e.tag
        d == [c EXCEPT !.nodes = Append(@, [type |-> type, tag |-> tag, items |-> <<>>])]
    IN  Register(d, Len(d.nodes), e.anchor)

LoadAlias(c, e) ==
    IF IndexOf(c, e.anchor) = 0 THEN LoadFails(c) ELSE Return(c, IndexOf(c, e.anchor))

LoadScalar(c, e) ==
    LET d == Compose(c, "scalar", e)
    IN  IF d.status = "failed" THEN d ELSE Return(d, Len(d.nodes))

(* yaml_parser_load_sequence and yaml_parser_load_mapping, up to their loop. *)
LoadCollection(c, kind, e) ==
    LET d == Compose(c, kind, e)
    IN  IF d.status = "failed" THEN d
        ELSE [d EXCEPT !.frames = Append(@, [kind |-> kind, index |-> Len(d.nodes), key |-> 0])]

(* yaml_parser_load_node *)
LoadNode(c, e) ==
    CASE e.type = "ALIAS" -> LoadAlias(c, e)
      [] e.type = "SCALAR" -> LoadScalar(c, e)
      [] e.type = "SEQUENCE-START" -> LoadCollection(c, "sequence", e)
      [] e.type = "MAPPING-START" -> LoadCollection(c, "mapping", e)
      [] OTHER -> AssertionFails(c)

(* Mutant of EndCollection: the index of the newest node is returned.      *)
EndCollectionNewest(c) ==
    Return([c EXCEPT !.frames = Front(@)], Len(c.nodes))

(* The loop has met the END event: the index taken before it is returned.  *)
EndCollection(c) == Return([c EXCEPT !.frames = Front(@)], Last(c.frames).index)

(* yaml_parser_load_document, behind its node. *)
EndDocument(c, e) ==
    IF e.type = "DOCUMENT-END"
    THEN DeleteAliases([c EXCEPT !.status = "ready", !.frames = <<>>,
                                 !.endImplicit = e.implicit])
    ELSE AssertionFails(c)

(* An event inside a document. *)
Continue(c, e) ==
    LET frame == Last(c.frames)
    IN  CASE frame.kind = "document" ->
                IF frame.key = 0 THEN LoadNode(c, e) ELSE EndDocument(c, e)
          [] frame.kind = "sequence" ->
                IF e.type = "SEQUENCE-END" THEN EndCollection(c) ELSE LoadNode(c, e)
          [] frame.kind = "mapping" ->
                IF e.type = "MAPPING-END" /\ frame.key = 0 THEN EndCollection(c) ELSE LoadNode(c, e)

(* The first event of a call, once the stream has begun.                   *)
Begin(c, e) ==
    CASE e.type = "STREAM-END" -> [Empty EXCEPT !.status = "empty"]
      [] e.type = "DOCUMENT-START" ->
            [Empty EXCEPT !.status = "loading", !.startImplicit = e.implicit,
                          !.frames = <<[kind |-> "document", index |-> 0, key |-> 0]>>]
      [] OTHER -> AssertionFails(c)

(* yaml_parser_load takes an event. *)
LoadEvent(c, e) ==
    CASE c.status = "loading" -> Continue(c, e)
      [] c.status # "loading" /\ e.type = "STREAM-START" -> c
      [] OTHER -> Begin(c, e)

Init == loader = Empty

(* yaml_parser_parse delivers e, or fails. *)
Take(e) == loader' = LoadEvent(loader, e)

ParseFails == loader' = LoadFails(loader)

-----------------------------------------------------------------------------
(***************************************************************************)
(* Whatever is on its way, items, anchors and activations point at nodes   *)
(* of the document.                                                        *)
(***************************************************************************)
TypeOK ==
    LET n == Len(loader.nodes)
    IN  /\ loader.status \in Status
        /\ loader.nodes \in Seq(NodeAt(n))
        /\ loader.aliases \in Seq([anchor : Anchors, index : 1 .. n])
        /\ loader.frames \in Seq(Frame)
        /\ \A i \in DOMAIN loader.frames :
              loader.frames[i].index <= n /\ loader.frames[i].key <= n
=============================================================================
