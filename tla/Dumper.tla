------------------------------- MODULE Dumper -------------------------------
(***************************************************************************)
(* libyaml's dumper (yaml-0.1.4/src/dumper.c) and the document functions   *)
(* of api.c: a document as a sequence of nodes that refer to one another   *)
(* by index, the events it is written as, and who frees the strings of its *)
(* nodes.                                                                  *)
(*                                                                         *)
(* yaml_emitter_emit may fail at any event: "room" is the number of events *)
(* up to the first that fails.                                             *)
(***************************************************************************)
EXTENDS Naturals, FiniteSets, SequencesExt, TLC

CONSTANT NoAnchor  \* the event carries no anchor

VARIABLE dumper    \* opened, closed and last_anchor_id of yaml_emitter_t, with
                   \* the events emitted and what the last document had freed

Idle == [opened |-> FALSE, closed |-> FALSE, ok |-> TRUE, events |-> <<>>, room |-> 0,
         nodes |-> <<>>, references |-> <<>>, anchors |-> <<>>, lastAnchor |-> 0,
         serialized |-> {}, freed |-> <<>>]

-----------------------------------------------------------------------------
(***************************************************************************)
(* The document functions.                                                 *)
(***************************************************************************)
(* yaml_document_add_scalar, _add_sequence and _add_mapping *)
AddNode(nodes, type, tag) == Append(nodes, [type |-> type, tag |-> tag, items |-> <<>>])

(* yaml_document_append_sequence_item; its assertions are its guard. *)
CanAppendItem(nodes, sequence, item) ==
    {sequence, item} \subseteq DOMAIN nodes /\ nodes[sequence].type = "sequence"

AppendItem(nodes, sequence, item) == [nodes EXCEPT ![sequence].items = Append(@, item)]

(* yaml_document_append_mapping_pair *)
CanAppendPair(nodes, mapping, key, value) ==
    {mapping, key, value} \subseteq DOMAIN nodes /\ nodes[mapping].type = "mapping"

AppendPair(nodes, mapping, key, value) ==
    [nodes EXCEPT ![mapping].items = @ \o <<key, value>>]

-----------------------------------------------------------------------------
(***************************************************************************)
(* Events are handed to the emitter, with the strings of node "carried",   *)
(* or 0: it frees them with the event, whether or not the call succeeds.   *)
(***************************************************************************)
Emit(c, e, carried) ==
    LET d == IF carried = 0 THEN c ELSE [c EXCEPT !.freed = Append(@, carried)]
    IN  CASE ~c.ok -> c
          [] c.ok /\ (c.room = 0 \/ c.closed) -> [d EXCEPT !.ok = FALSE]
          [] c.ok /\ c.room > 0 /\ ~c.closed -> [d EXCEPT !.room = @ - 1, !.events = Append(@, e)]

(* yaml_emitter_open and yaml_emitter_close *)
Open(c) ==
    IF c.opened THEN c
    ELSE LET d == Emit(c, [type |-> "STREAM-START"], 0) IN [d EXCEPT !.opened = d.ok]

Close(c) ==
    IF c.closed THEN c
    ELSE LET d == Emit(c, [type |-> "STREAM-END"], 0) IN [d EXCEPT !.closed = d.ok]

(* Mutant of AnchorNode: last_anchor_id is not advanced.                   *)
RECURSIVE AnchorNodeSameName(_, _)
AnchorNodeSameName(c, index) ==
    LET d == [c EXCEPT !.references[index] = @ + 1]
    IN  CASE d.references[index] = 1 ->
                FoldLeft(LAMBDA a, item : AnchorNodeSameName(a, item), d, d.nodes[index].items)
          [] d.references[index] = 2 -> [d EXCEPT !.anchors[index] = d.lastAnchor + 1]
          [] OTHER -> d

(* yaml_emitter_anchor_node *)
RECURSIVE AnchorNode(_, _)
AnchorNode(c, index) ==
    LET d == [c EXCEPT !.references[index] = @ + 1]
    IN  CASE d.references[index] = 1 ->
                FoldLeft(LAMBDA a, item : AnchorNode(a, item), d, d.nodes[index].items)
          [] d.references[index] = 2 ->
                [d EXCEPT !.lastAnchor = @ + 1, !.anchors[index] = d.lastAnchor + 1]
          [] OTHER -> d

NodeEvent(type, c, index) ==
    [type |-> type, tag |-> c.nodes[index].tag,
     anchor |-> IF c.anchors[index] = 0 THEN NoAnchor ELSE ToString(c.anchors[index]),
     implicit |-> c.nodes[index].tag = "default"]

(* Mutant of Serialized: a scalar is written again for each reference.     *)
SerializedCollection(c, index) == index \in c.serialized /\ c.nodes[index].type # "scalar"

Serialized(c, index) == index \in c.serialized

(* yaml_emitter_dump_node, with the function for the type of the node *)
RECURSIVE DumpNode(_, _)
DumpNode(c, index) ==
    LET d == [c EXCEPT !.serialized = @ \cup {index}]
        start(type) == Emit(d, NodeEvent(type, c, index), index)
        inside(type) == FoldLeft(LAMBDA a, item : DumpNode(a, item), start(type), c.nodes[index].items)
    IN  CASE ~c.ok -> c
          [] c.ok /\ Serialized(c, index) ->
                Emit(c, [type |-> "ALIAS", anchor |-> ToString(c.anchors[index])], 0)
          [] c.ok /\ ~Serialized(c, index) /\ c.nodes[index].type = "scalar" -> start("SCALAR")
          [] c.ok /\ ~Serialized(c, index) /\ c.nodes[index].type = "sequence" ->
                Emit(inside("SEQUENCE-START"), [type |-> "SEQUENCE-END"], 0)
          [] c.ok /\ ~Serialized(c, index) /\ c.nodes[index].type = "mapping" ->
                Emit(inside("MAPPING-START"), [type |-> "MAPPING-END"], 0)

(* yaml_emitter_delete_document_and_anchors *)
DeleteDocument(c) ==
    LET left == SetToSeq(DOMAIN c.nodes \ c.serialized)
    IN  [c EXCEPT !.freed = @ \o left, !.lastAnchor = 0,
                  !.references = <<>>, !.anchors = <<>>]

(* yaml_emitter_dump; an empty document closes the stream. *)
DumpDocument(c, document, room) ==
    LET n == Len(document.nodes)
        zero == [i \in 1 .. n |-> 0]
        begun == Open([c EXCEPT !.nodes = document.nodes, !.references = zero, !.anchors = zero,
                                !.serialized = {}, !.freed = <<>>, !.ok = TRUE, !.room = room])
        started == Emit(begun, [type |-> "DOCUMENT-START", implicit |-> document.startImplicit], 0)
        dumped == DumpNode(AnchorNode(started, 1), 1)
        ended == Emit(dumped, [type |-> "DOCUMENT-END", implicit |-> document.endImplicit], 0)
    IN  DeleteDocument(IF n = 0 THEN Close(begun) ELSE IF started.ok THEN ended ELSE started)

Init == dumper = Idle

Dump(document, room) == dumper' = DumpDocument(dumper, document, room)

-----------------------------------------------------------------------------
(* When a call of yaml_emitter_dump is over, whether it succeeded or not,  *)
(* each node of the document has had its strings freed once, by the event  *)
(* that carried them or with the document, even the nodes that nothing     *)
(* refers to.                                                              *)
StringsAreFreedOnce ==
    /\ Len(dumper.freed) = Cardinality(ToSet(dumper.freed))
    /\ ToSet(dumper.freed) = DOMAIN dumper.nodes
=============================================================================
