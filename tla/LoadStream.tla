----------------------------- MODULE LoadStream -----------------------------
(***************************************************************************)
(* The loader fed with any stream of events (EventStream): what            *)
(* yaml_parser_parse delivers to yaml_parser_load, call by call, until a   *)
(* call fails or finds the end of the stream.                              *)
(***************************************************************************)
EXTENDS Loader

VARIABLES phase, open, event  \* the stream of events so far (EventStream)

Stream == INSTANCE EventStream

vars == <<loader, phase, open, event>>

(* Events with what the loader reads of them.                              *)
NodeEvent == [type : {"SCALAR", "SEQUENCE-START", "MAPPING-START"},
              anchor : Anchors \cup {NoAnchor}, tag : Tags \cup {NoTag, "!"}]

AliasEvent == [type : {"ALIAS"}, anchor : Anchors]

DocumentEvent == [type : {"DOCUMENT-START", "DOCUMENT-END"}, implicit : BOOLEAN]

OtherEvent == [type : {"STREAM-START", "STREAM-END", "SEQUENCE-END", "MAPPING-END"}]

Event == NodeEvent \cup AliasEvent \cup DocumentEvent \cup OtherEvent

(* The stream goes on with the event e.                                    *)
Delivered(e) ==
    \/ e.type = "STREAM-START" /\ Stream!StreamStart
    \/ e.type = "STREAM-END" /\ Stream!StreamEnd
    \/ e.type = "DOCUMENT-START" /\ Stream!DocumentStart
    \/ e.type = "DOCUMENT-END" /\ Stream!DocumentEnd
    \/ e.type = "ALIAS" /\ Stream!Alias(e.anchor)
    \/ e.type = "SCALAR" /\ Stream!Scalar(e.anchor)
    \/ e.type = "SEQUENCE-START" /\ Stream!SequenceStart(e.anchor)
    \/ e.type = "MAPPING-START" /\ Stream!MappingStart(e.anchor)
    \/ e.type = "SEQUENCE-END" /\ Stream!SequenceEnd
    \/ e.type = "MAPPING-END" /\ Stream!MappingEnd

(* An application stops calling after the end and after an error.          *)
Calls == loader.status \in {"ready", "loading"}

LoadNext == Calls /\ \E e \in Event : Delivered(e) /\ Take(e)

LoadFailsInParser == Calls /\ Stream!Abort /\ ParseFails

Next == LoadNext \/ LoadFailsInParser

Spec == Init /\ Stream!Init /\ [][Next]_vars

-----------------------------------------------------------------------------
(* How far the loader has come with a construct of the stream: what it     *)
(* waits for, and, if a collection inside of it is open, the index that is *)
(* still to be returned.                                                   *)
LoadedAs(construct, frame, innermost) ==
    CASE construct = "root" -> frame.kind = "document" /\ frame.key = 0 /\ innermost
      [] construct = "docEnd" -> frame.kind = "document" /\ (frame.key # 0 <=> innermost)
      [] construct = "seq" -> frame.kind = "sequence"
      [] construct = "key" -> frame.kind = "mapping" /\ (frame.key = 0 <=> innermost)
      [] construct = "value" -> frame.kind = "mapping" /\ (frame.key # 0 <=> innermost)

(* The activations of the loader are the constructs open in the stream,    *)
(* each as far as its events have come; so the assertions of loader.c      *)
(* about the events never fail.                                            *)
FramesMirrorStream ==
    /\ loader.status # "aborted"
    /\ loader.status = "ready" => open = <<>>
    /\ loader.status = "loading" =>
          /\ open # <<>> /\ Len(loader.frames) = Len(open)
          /\ \A k \in DOMAIN open : LoadedAs(open[k], loader.frames[k], k = Len(open))
=============================================================================
