------------------------------ MODULE EmitStream ------------------------------
(***************************************************************************)
(* The emitter under a caller that emits a well-formed stream of events    *)
(* (EventStream) of any content: what yaml_document_start_event_initialize *)
(* and its like make, handed over one by one with yaml_emitter_emit.       *)
(***************************************************************************)
EXTENDS Emitter

VARIABLES phase, open, event \* the stream of events so far (EventStream)

Stream == INSTANCE EventStream

vars == <<emitter, lost, phase, open, event>>

AliasEvent == [type : {"ALIAS"}, anchor : Anchors \cup {BadAnchor}]

(* A scalar says what it is: by a tag, or by letting a tag be left out.    *)
ScalarEvent ==
    {e \in [type : {"SCALAR"}, anchor : Anchors \cup {NoAnchor, BadAnchor},
            tag : TagPrefixes \cup {NoTag, EmptyTag},
            plainImplicit : BOOLEAN, quotedImplicit : BOOLEAN, style : Style, text : Seq(Nat)] :
        e.tag # NoTag \/ e.plainImplicit \/ e.quotedImplicit}

CollectionEvent ==
    [type : {"SEQUENCE-START", "MAPPING-START"}, anchor : Anchors \cup {NoAnchor, BadAnchor},
     tag : TagPrefixes \cup {NoTag, EmptyTag}, implicit : BOOLEAN, flow : BOOLEAN]

DocumentStartEvent ==
    [type : {"DOCUMENT-START"}, implicit : BOOLEAN, version : {"none", "1.1", "other"},
     tagDirectives : Seq([handle : Handles \cup {BadHandle}, prefix : TagPrefixes])]

DocumentEndEvent == [type : {"DOCUMENT-END"}, implicit : BOOLEAN]

OtherEvent == [type : {"STREAM-START", "STREAM-END", "SEQUENCE-END", "MAPPING-END"}]

Event == AliasEvent \cup ScalarEvent \cup CollectionEvent
             \cup DocumentStartEvent \cup DocumentEndEvent \cup OtherEvent

(* The stream stays well-formed. *)
Continues(e) ==
    \/ e.type = "STREAM-START" /\ Stream!StreamStart
    \/ e.type = "DOCUMENT-START" /\ Stream!DocumentStart
    \/ e.type = "ALIAS" /\ Stream!Alias(e.anchor)
    \/ e.type = "SCALAR" /\ Stream!Scalar(e.anchor)
    \/ e.type = "SEQUENCE-START" /\ Stream!SequenceStart(e.anchor)
    \/ e.type = "MAPPING-START" /\ Stream!MappingStart(e.anchor)
    \/ e.type = "SEQUENCE-END" /\ Stream!SequenceEnd
    \/ e.type = "MAPPING-END" /\ Stream!MappingEnd
    \/ e.type = "DOCUMENT-END" /\ Stream!DocumentEnd
    \/ e.type = "STREAM-END" /\ Stream!StreamEnd

(* GenerateEvent does not look at what Emit returns: the caller goes on    *)
(* after every error.                                                      *)
EmitNext == \E e \in Event, room \in Nat \cup {-1} : Continues(e) /\ Emit(e, room)

Spec == Init /\ Stream!Init /\ [][EmitNext]_vars

-----------------------------------------------------------------------------
(* Events are held back only inside a node, and never more than three: no  *)
(* event stays behind when its document ends.                              *)
NothingStaysBehind ==
    emitter.error = "none" =>
        /\ Len(emitter.events) <= 3
        /\ open = <<>> => emitter.events = <<>>

(* Whatever a document has opened is closed when the next one may start:   *)
(* no state, indentation, flow level or directive of it is left to be      *)
(* found by the next.                                                      *)
DocumentsStartClean ==
    emitter.error = "none" /\ emitter.state = "DOCUMENT-START" =>
        /\ emitter.states = <<>> /\ emitter.indents = <<>>
        /\ emitter.indent = -1 /\ emitter.flowLevel = 0
        /\ emitter.tagDirectives = <<>>

(* An event that was refused, before any write has failed, stays at the    *)
(* head of the queue: a caller that goes on, as the managed Dump does,     *)
(* gets the same refusal from every call, and nothing more is written,     *)
(* however well-formed what follows is.                                    *)
RefusedForGood ==
    [][emitter.error = "emitter" /\ ~lost
          => ~emitter'.ok /\ emitter'.error = "emitter" /\ emitter'.text = emitter.text]_vars

(* An event is refused for what it carries, never for where it comes: an   *)
(* anchor or a tag that cannot be written, a version that is not 1.1, or a *)
(* tag directive that cannot be added.  None of the "expected ..." errors  *)
(* of the handlers meets a well-formed stream, unless a write has failed   *)
(* and its handler has run twice.                                          *)
OnlyContentIsRefused ==
    emitter.error = "emitter" /\ ~lost =>
        /\ emitter.events # <<>>
        /\ LET e == Head(emitter.events)
           IN  \/ Refused(emitter, e)
               \/ /\ e.type = "DOCUMENT-START"
                  /\ \/ e.version \notin {"none", "1.1"}
                     \/ e.tagDirectives # <<>>

(* When nothing is open, all that was given is written: the emitter is at  *)
(* its end just when the stream is, and waits for a document before that.  *)
KeepsPace ==
    emitter.error = "none" /\ open = <<>> =>
        /\ phase = "before" <=> emitter.state = "STREAM-START"
        /\ phase = "stream" <=> emitter.state \in {"FIRST-DOCUMENT-START", "DOCUMENT-START"}
        /\ phase = "ended" <=> emitter.state = "END"
=============================================================================
