---------------------------- MODULE YamlBuilder ----------------------------
(***************************************************************************)
(* NetYaml's YamlBuilder.cs with the Add methods of YNode.cs: one operation *)
(* per handler, which builds the documents of a stream from its events.    *)
(*                                                                         *)
(* The nodes are numbered in the order of their creation.  Tags are left   *)
(* out: the builder stores them and looks at none.                         *)
(***************************************************************************)
EXTENDS Naturals, SequencesExt

CONSTANTS Anchors,    \* names of anchors and aliases
          NoAnchor,   \* an event without an anchor
          Texts       \* the values of scalars

ASSUME AnchorAssumption == NoAnchor \notin Anchors

VARIABLES nodes,      \* the nodes created, by number
          documents,  \* Documents: the numbers of the YDocuments
          nodeStack,  \* the collections being built, innermost last
          anchors,    \* anchors: name -> node
          thrown      \* the exception a handler threw, or "none"

builder == <<nodes, documents, nodeStack, anchors, thrown>>

(***************************************************************************)
(* children of a YDocument is its Root or nothing, of a YSequence its      *)
(* items, of a YMapping its SubNodes: keys and values in turn.             *)
(***************************************************************************)
Kind == {"YDocument", "YScalar", "YSequence", "YMapping"}

NoKey == 0
NoText == ""

NewNode(kind, text) ==
    [kind |-> kind, text |-> text, children |-> <<>>, nextKey |-> NoKey]

Exception == {"none",
              "NullReference",        \* CurrentNode or anchors is null
              "StackEmpty",           \* Pop of an empty Stack
              "KeyNotFound",          \* anchors[alias] of an unknown alias
              "Mapping keys must be scalars",
              "DuplicateKey",         \* Mapping.Add of a key it has
              "Document ended unexpectedly",
              "Stream ended before document ended"}

NoAnchors == [a \in {} |-> NoKey]

-----------------------------------------------------------------------------
BuilderInit == /\ nodes = <<>>
               /\ documents = <<>>
               /\ nodeStack = <<>>
               /\ anchors = NoAnchors
               /\ thrown = "none"

Throw(exception) == /\ thrown' = exception
                    /\ UNCHANGED <<nodes, documents, nodeStack, anchors>>

CurrentIs(kind) == nodeStack # <<>> /\ nodes[Last(nodeStack)].kind = kind

(* YScalar.Equals: keys are compared by their text.                        *)
HasKey(mapping, key) ==
    \E i \in 1..Len(mapping.children) :
        i % 2 = 1 /\ nodes[mapping.children[i]].text = nodes[key].text

(* Mutant of Adopt: nextKey is not reset once its value is there.          *)
AdoptKeepsKey(parent, child) ==
    CASE parent.kind = "YDocument" ->
            [parent EXCEPT !.children = <<child>>]
      [] parent.kind = "YSequence" ->
            [parent EXCEPT !.children = Append(@, child)]
      [] parent.kind = "YMapping" /\ parent.nextKey = NoKey ->
            [parent EXCEPT !.nextKey = child]
      [] parent.kind = "YMapping" /\ parent.nextKey # NoKey ->
            [parent EXCEPT !.children = @ \o <<parent.nextKey, child>>]

(* YNode.Add, by the class of the parent.                                  *)
Adopt(parent, child) ==
    CASE parent.kind = "YDocument" ->
            [parent EXCEPT !.children = <<child>>]
      [] parent.kind = "YSequence" ->
            [parent EXCEPT !.children = Append(@, child)]
      [] parent.kind = "YMapping" /\ parent.nextKey = NoKey ->
            [parent EXCEPT !.nextKey = child]
      [] parent.kind = "YMapping" /\ parent.nextKey # NoKey ->
            [parent EXCEPT !.children = @ \o <<parent.nextKey, child>>,
                           !.nextKey = NoKey]

(* Why CurrentNode.Add(child) throws; the child is a member of known, the  *)
(* nodes with the one being added.                                         *)
Refusal(child, known) ==
    IF nodeStack = <<>> THEN "NullReference"
    ELSE LET parent == nodes[Last(nodeStack)]
         IN  CASE parent.kind # "YMapping" -> "none"
               [] parent.kind = "YMapping" /\ parent.nextKey = NoKey ->
                     IF known[child].kind = "YScalar"
                     THEN "none" ELSE "Mapping keys must be scalars"
               [] parent.kind = "YMapping" /\ parent.nextKey # NoKey ->
                     IF HasKey(parent, parent.nextKey) THEN "DuplicateKey" ELSE "none"

Refused(child, known) == /\ Refusal(child, known) # "none"
                         /\ Throw(Refusal(child, known))

Added(child, known) ==
    /\ Refusal(child, known) = "none"
    /\ nodes' = [known EXCEPT ![Last(nodeStack)] = Adopt(@, child)]
    /\ UNCHANGED <<documents, thrown>>

(* Mutant of SetAnchor: a node without an anchor is registered, too.       *)
SetAnyAnchor(anchor, node) ==
    anchors' = [a \in DOMAIN anchors \cup {anchor} |->
                   IF a = anchor THEN node ELSE anchors[a]]

(* Mutant of SetAnchor: an anchor keeps the first node it was given.       *)
SetFirstAnchor(anchor, node) ==
    anchors' = IF anchor = NoAnchor \/ anchor \in DOMAIN anchors THEN anchors
               ELSE [a \in DOMAIN anchors \cup {anchor} |->
                        IF a = anchor THEN node ELSE anchors[a]]

SetAnchor(anchor, node) ==
    anchors' = IF anchor = NoAnchor THEN anchors
               ELSE [a \in DOMAIN anchors \cup {anchor} |->
                        IF a = anchor THEN node ELSE anchors[a]]

-----------------------------------------------------------------------------
(***************************************************************************)
(* The handlers.                                                           *)
(***************************************************************************)
StreamStart == UNCHANGED builder

StreamEnd ==
    IF nodeStack # <<>> /\ ~CurrentIs("YDocument")
    THEN Throw("Stream ended before document ended")
    ELSE UNCHANGED builder

(* Mutant of DocumentStart: the anchors of the last document stay.         *)
DocumentStartKeepsAnchors ==
    LET doc == Len(nodes) + 1
    IN  /\ nodes' = Append(nodes, NewNode("YDocument", NoText))
        /\ documents' = Append(documents, doc)
        /\ nodeStack' = Append(nodeStack, doc)
        /\ UNCHANGED <<anchors, thrown>>

DocumentStart ==
    LET doc == Len(nodes) + 1
    IN  /\ nodes' = Append(nodes, NewNode("YDocument", NoText))
        /\ documents' = Append(documents, doc)
        /\ nodeStack' = Append(nodeStack, doc)
        /\ anchors' = NoAnchors
        /\ UNCHANGED thrown

DocumentEnd ==
    IF ~CurrentIs("YDocument")
    THEN Throw("Document ended unexpectedly")
    ELSE /\ nodeStack' = Front(nodeStack)
         /\ UNCHANGED <<nodes, documents, anchors, thrown>>

Alias(alias) ==
    IF alias \notin DOMAIN anchors
    THEN Throw("KeyNotFound")
    ELSE \/ Refused(anchors[alias], nodes)
         \/ Added(anchors[alias], nodes) /\ UNCHANGED <<nodeStack, anchors>>

Scalar(anchor, text) ==
    LET node == Len(nodes) + 1
        known == Append(nodes, NewNode("YScalar", text))
    IN  \/ Refused(node, known)
        \/ Added(node, known) /\ SetAnchor(anchor, node) /\ UNCHANGED nodeStack

(* Mutant of CollectionStart: a collection takes the place of its parent.  *)
CollectionReplacesParent(kind, anchor) ==
    LET node == Len(nodes) + 1
        known == Append(nodes, NewNode(kind, NoText))
    IN  \/ Refused(node, known)
        \/ /\ Added(node, known)
           /\ nodeStack' = Append(Front(nodeStack), node)
           /\ SetAnchor(anchor, node)

(* SequenceStart and MappingStart *)
CollectionStart(kind, anchor) ==
    LET node == Len(nodes) + 1
        known == Append(nodes, NewNode(kind, NoText))
    IN  \/ Refused(node, known)
        \/ /\ Added(node, known)
           /\ nodeStack' = Append(nodeStack, node)
           /\ SetAnchor(anchor, node)

(* SequenceEnd and MappingEnd *)
CollectionEnd ==
    IF nodeStack = <<>>
    THEN Throw("StackEmpty")
    ELSE /\ nodeStack' = Front(nodeStack)
         /\ UNCHANGED <<nodes, documents, anchors, thrown>>
=============================================================================
