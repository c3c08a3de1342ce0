---------------------------- MODULE EventStream ----------------------------
(***************************************************************************)
(* The event streams of the system, as yaml.h defines the event types: the *)
(* promise yaml_parser_parse makes to its caller, and the assumption on     *)
(* which the consumers of events (YamlBuilder.cs, loader.c, emitter.c) are  *)
(* written.                                                                *)
(*                                                                         *)
(*   stream   ::= STREAM-START document* STREAM-END                        *)
(*   document ::= DOCUMENT-START node DOCUMENT-END                         *)
(*   node     ::= ALIAS | SCALAR                                           *)
(*              | SEQUENCE-START node* SEQUENCE-END                        *)
(*              | MAPPING-START (node node)* MAPPING-END                   *)
(*                                                                         *)
(* open is the stack of constructs whose END event is still to come.  A    *)
(* construct moves on when a child BEGINS, so an END event only drops the  *)
(* top of the stack.                                                       *)
(***************************************************************************)
EXTENDS Naturals, SequencesExt

CONSTANTS Anchors,       \* names an anchor or an alias can carry
          NoAnchor       \* the event carries no anchor

VARIABLES phase,         \* "before" the stream, in the "stream", "ended" or "aborted"
          open,          \* the open constructs, innermost last
          event          \* the event delivered last

vars == <<phase, open, event>>

Phase == {"before", "stream", "ended", "aborted"}

(***************************************************************************)
(* A document waits for its "root" node and then for its "docEnd"; a       *)
(* mapping waits for a "key" (or its end) or for the "value" of a key.     *)
(***************************************************************************)
Construct == {"root", "docEnd", "seq", "key", "value"}

NodeEventType == {"ALIAS", "SCALAR", "SEQUENCE-START", "MAPPING-START"}

EventType == NodeEventType \cup
    {"NO-EVENT", "STREAM-START", "STREAM-END", "DOCUMENT-START", "DOCUMENT-END",
     "SEQUENCE-END", "MAPPING-END"}

Event == [type : EventType, anchor : Anchors \cup {NoAnchor}]

Deliver(type, anchor) == event' = [type |-> type, anchor |-> anchor]

-----------------------------------------------------------------------------

(***************************************************************************)
(* What a construct waits for once a child node has begun.                 *)
(***************************************************************************)
AfterChild(c) == CASE c = "root"  -> "docEnd"
                   [] c = "seq"   -> "seq"
                   [] c = "key"   -> "value"
                   [] c = "value" -> "key"

AcceptsNode == open # <<>> /\ Last(open) # "docEnd"

Advanced == Append(Front(open), AfterChild(Last(open)))

-----------------------------------------------------------------------------

Init == /\ phase = "before"
        /\ open = <<>>
        /\ event = [type |-> "NO-EVENT", anchor |-> NoAnchor]

StreamStart == /\ phase = "before"
               /\ phase' = "stream"
               /\ Deliver("STREAM-START", NoAnchor)
               /\ UNCHANGED open

StreamEnd == /\ phase = "stream"
             /\ open = <<>>
             /\ phase' = "ended"
             /\ Deliver("STREAM-END", NoAnchor)
             /\ UNCHANGED open

DocumentStart == /\ phase = "stream"
                 /\ open = <<>>
                 /\ open' = <<"root">>
                 /\ Deliver("DOCUMENT-START", NoAnchor)
                 /\ UNCHANGED phase

DocumentEnd == /\ phase = "stream"
               /\ open = <<"docEnd">>
               /\ open' = <<>>
               /\ Deliver("DOCUMENT-END", NoAnchor)
               /\ UNCHANGED phase

Alias(a) == /\ phase = "stream"
            /\ AcceptsNode
            /\ open' = Advanced
            /\ Deliver("ALIAS", a)
            /\ UNCHANGED phase

Scalar(a) == /\ phase = "stream"
             /\ AcceptsNode
             /\ open' = Advanced
             /\ Deliver("SCALAR", a)
             /\ UNCHANGED phase

SequenceStart(a) == /\ phase = "stream"
                    /\ AcceptsNode
                    /\ open' = Append(Advanced, "seq")
                    /\ Deliver("SEQUENCE-START", a)
                    /\ UNCHANGED phase

SequenceEnd == /\ phase = "stream"
               /\ open # <<>> /\ Last(open) = "seq"
               /\ open' = Front(open)
               /\ Deliver("SEQUENCE-END", NoAnchor)
               /\ UNCHANGED phase

MappingStart(a) == /\ phase = "stream"
                   /\ AcceptsNode
                   /\ open' = Append(Advanced, "key")
                   /\ Deliver("MAPPING-START", a)
                   /\ UNCHANGED phase

MappingEnd == /\ phase = "stream"
              /\ open # <<>> /\ Last(open) = "key"
              /\ open' = Front(open)
              /\ Deliver("MAPPING-END", NoAnchor)
              /\ UNCHANGED phase

(***************************************************************************)
(* The producer met an error: no construct will be closed, and the call    *)
(* that failed returns no event.                                           *)
(***************************************************************************)
Abort == /\ phase \in {"before", "stream"}
         /\ phase' = "aborted"
         /\ open' = <<>>
         /\ Deliver("NO-EVENT", NoAnchor)

(***************************************************************************)
(* A call that makes no progress, and a call after the end or an error,    *)
(* returns an empty event.                                                 *)
(***************************************************************************)
NoEvent == /\ Deliver("NO-EVENT", NoAnchor)
           /\ UNCHANGED <<phase, open>>

Node == \/ \E a \in Anchors : Alias(a)
        \/ \E a \in Anchors \cup {NoAnchor} :
              Scalar(a) \/ SequenceStart(a) \/ MappingStart(a)

Next == \/ StreamStart \/ StreamEnd
        \/ DocumentStart \/ DocumentEnd
        \/ Node
        \/ SequenceEnd \/ MappingEnd
        \/ Abort \/ NoEvent

Spec == Init /\ [][Next]_vars

-----------------------------------------------------------------------------

(***************************************************************************)
(* Type correctness of the event stream.                                   *)
(***************************************************************************)
TypeOK == /\ phase \in Phase
          /\ open \in Seq(Construct)
          /\ event \in Event
=============================================================================
