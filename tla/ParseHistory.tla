---------------------------- MODULE ParseHistory ----------------------------
(***************************************************************************)
(* ParseLoop with the events delivered so far as a history, and what a     *)
(* history means: the documents can be told from it without a stack.       *)
(***************************************************************************)
EXTENDS ParseLoop, FiniteSetsExt

VARIABLE history     \* the events delivered

historyVars == <<vars, history>>

HistoryInit == Init /\ history = <<>>

HistoryNext ==
    /\ Next
    /\ history' = IF phase' = "aborted" THEN history ELSE Append(history, event')

HistorySpec == HistoryInit /\ [][HistoryNext]_historyVars

-----------------------------------------------------------------------------
(***************************************************************************)
(* What a history h means.  An event is named by its position.             *)
(***************************************************************************)
StartType == {"DOCUMENT-START", "SEQUENCE-START", "MAPPING-START"}
EndType == {"DOCUMENT-END", "SEQUENCE-END", "MAPPING-END"}
ItemType == {"ALIAS", "SCALAR", "SEQUENCE-START", "MAPPING-START"}
CreatingType == StartType \cup {"SCALAR"}

Creating(h) == {e \in DOMAIN h : h[e].type \in CreatingType}

(* The number of the node an event created.                                *)
Number(h, e) == Cardinality({x \in Creating(h) : x <= e})

(* The collections open before e: each has as many ends as starts behind   *)
(* it, or fewer.                                                           *)
Between(h, x, e, types) == Cardinality({y \in x + 1 .. e - 1 : h[y].type \in types})

OpenBefore(h, e) ==
    {x \in 1 .. e - 1 : /\ h[x].type \in StartType
                        /\ \A y \in x + 1 .. e :
                              Between(h, x, y, EndType) <= Between(h, x, y, StartType)}

(* The events of the items of the collection that x opens, and the place   *)
(* of one among them.                                                      *)
Items(h, x) == {e \in DOMAIN h : /\ h[e].type \in ItemType
                                 /\ OpenBefore(h, e) # {}
                                 /\ Max(OpenBefore(h, e)) = x}

Place(e, items) == Cardinality({y \in items : y <= e})

(* The events that give the anchor of e a node in the document of e.       *)
Definitions(h, e) ==
    {x \in Creating(h) : /\ x < e
                         /\ h[x].anchor = h[e].anchor
                         /\ \A y \in x .. e : h[y].type # "DOCUMENT-START"}

Meaning(h, e) == IF h[e].type = "ALIAS" THEN Number(h, Max(Definitions(h, e))) ELSE Number(h, e)

KindOf(type) == CASE type = "DOCUMENT-START" -> "YDocument"
                  [] type = "SCALAR"         -> "YScalar"
                  [] type = "SEQUENCE-START" -> "YSequence"
                  [] type = "MAPPING-START"  -> "YMapping"

SubNodes(node) == IF node.nextKey = NoKey THEN node.children
                  ELSE Append(node.children, node.nextKey)

(* The node has the kind that its event says, and the items that the       *)
(* events behind it say, in their order.                                   *)
BuiltFrom(h, x, node) ==
    LET items == Items(h, x)
    IN  /\ node.kind = KindOf(h[x].type)
        /\ Len(SubNodes(node)) = Cardinality(items)
        /\ \A e \in items : SubNodes(node)[Place(e, items)] = Meaning(h, e)

(* The documents are those of the events: a node for every event that      *)
(* begins one, with the items its events say, in their order, and aliases  *)
(* standing for the node last given their anchor.                          *)
DocumentsMirrorEvents ==
    thrown = "none" =>
        /\ Len(nodes) = Cardinality(Creating(history))
        /\ \A x \in Creating(history) : BuiltFrom(history, x, nodes[Number(history, x)])

(* An alias is unknown exactly if no node before it in its own document    *)
(* has the anchor: anchors do not reach into the next document.            *)
AliasesResolveInTheirDocument ==
    history # <<>> /\ Last(history).type = "ALIAS" =>
        (thrown = "KeyNotFound" <=> Definitions(history, Len(history)) = {})
=============================================================================
