----------------------------- MODULE ParseLoop -----------------------------
(***************************************************************************)
(* One call of parser_parse (interop.cpp): events of the native parser go, *)
(* one by one, to ParseYamlEvent (NativeParser.cs), which runs a handler   *)
(* of the builder.  The parser is any producer of event streams.           *)
(***************************************************************************)
EXTENDS YamlBuilder

VARIABLES phase, open, event,  \* the stream of events (EventStream)
          result               \* "running", or what parser_parse returns

vars == <<phase, open, event, builder, result>>

Stream == INSTANCE EventStream

(* 0 is success, -1 an error of the parser and 1 one of the handler.       *)
Result == {"running", "0", "-1", "1"}

Init == Stream!Init /\ BuilderInit /\ result = "running"

(* The loop's exit conditions, after the handler has returned.             *)
HandlerReturns ==
    result' = IF thrown' # "none" THEN "1"
              ELSE IF event'.type = "STREAM-END" THEN "0" ELSE "running"

HandleNode ==
    \/ \E a \in Anchors : Stream!Alias(a) /\ Alias(a)
    \/ \E a \in Anchors \cup {NoAnchor} :
          \/ \E text \in Texts : Stream!Scalar(a) /\ Scalar(a, text)
          \/ Stream!SequenceStart(a) /\ CollectionStart("YSequence", a)
          \/ Stream!MappingStart(a) /\ CollectionStart("YMapping", a)

(* ParseYamlEvent *)
HandleEvent ==
    /\ result = "running"
    /\ \/ Stream!StreamStart /\ StreamStart
       \/ Stream!StreamEnd /\ StreamEnd
       \/ Stream!DocumentStart /\ DocumentStart
       \/ Stream!DocumentEnd /\ DocumentEnd
       \/ HandleNode
       \/ Stream!SequenceEnd /\ CollectionEnd
       \/ Stream!MappingEnd /\ CollectionEnd
    /\ HandlerReturns

(* yaml_parser_parse returns 0: the handler is not called.                 *)
ParserFails == /\ result = "running"
               /\ Stream!Abort
               /\ result' = "-1"
               /\ UNCHANGED builder

Next == HandleEvent \/ ParserFails

Spec == Init /\ [][Next]_vars

-----------------------------------------------------------------------------
(***************************************************************************)
(* Properties.                                                             *)
(***************************************************************************)

(* Type correctness of the builder and the loop.                           *)
TypeOK ==
    /\ Stream!TypeOK
    /\ result \in Result /\ thrown \in Exception
    /\ \A i \in DOMAIN nodes :
          /\ nodes[i].kind \in Kind
          /\ nodes[i].text \in Texts \cup {NoText}
          /\ nodes[i].nextKey \in DOMAIN nodes \cup {NoKey}
          /\ \A k \in DOMAIN nodes[i].children : nodes[i].children[k] \in DOMAIN nodes
    /\ \A k \in DOMAIN documents : nodes[documents[k]].kind = "YDocument"
    /\ \A k \in DOMAIN nodeStack : nodeStack[k] \in DOMAIN nodes
    /\ DOMAIN anchors \subseteq Anchors
    /\ \A a \in DOMAIN anchors : anchors[a] \in DOMAIN nodes

(* The collection a construct of the stream is built as, and how far.      *)
BuiltAs(construct, node) ==
    CASE construct = "root"   -> node.kind = "YDocument" /\ node.children = <<>>
      [] construct = "docEnd" -> node.kind = "YDocument" /\ Len(node.children) = 1
      [] construct = "seq"    -> node.kind = "YSequence"
      [] construct = "key"    -> node.kind = "YMapping" /\ node.nextKey = NoKey
      [] construct = "value"  -> node.kind = "YMapping" /\ node.nextKey # NoKey

(* nodeStack holds the constructs open in the stream, each as far as its   *)
(* events have come: a mapping has a nextKey exactly while the stream owes *)
(* the value, so no key is lost when the mapping ends.                     *)
StackMirrorsStream ==
    result = "running" =>
        /\ Len(nodeStack) = Len(open)
        /\ \A k \in DOMAIN open : BuiltAs(open[k], nodes[nodeStack[k]])

(* A handler throws only for what a document says: the checks of           *)
(* DocumentEnd and StreamEnd never fire, CurrentNode is never null when a  *)
(* node is added and the stack is never empty when a collection ends.      *)
OnlyDocumentsThrow ==
    thrown \in {"none", "KeyNotFound", "Mapping keys must be scalars", "DuplicateKey"}
=============================================================================
