-------------------------- MODULE ParseLoopProofs --------------------------
(***************************************************************************)
(* Proofs about ParseLoop, for streams of any length and depth, whatever   *)
(* the anchors and texts: the builder's stack is the stream's, no check of *)
(* YamlBuilder.cs for a broken stream ever fires, and the documents built  *)
(* are those that the events delivered say.                                *)
(***************************************************************************)
EXTENDS ParseHistory, SequenceFacts

(***************************************************************************)
(* The inductive invariant.                                                *)
(***************************************************************************)

(* A node whose children and key are among the first n nodes.              *)
NodeIn(n) == [kind : Kind, text : Texts \cup {NoText},
              children : Seq(1 .. n), nextKey : 0 .. n]

BuilderTyped ==
    /\ nodes \in Seq(NodeIn(Len(nodes)))
    /\ documents \in Seq(1 .. Len(nodes))
    /\ nodeStack \in Seq(1 .. Len(nodes))
    /\ DOMAIN anchors \subseteq Anchors
    /\ \A a \in DOMAIN anchors : anchors[a] \in 1 .. Len(nodes)

DocumentsAreDocuments ==
    \A k \in 1 .. Len(documents) : nodes[documents[k]].kind = "YDocument"

(* A node is being built once: adding to the innermost leaves the others.  *)
StackedOnce ==
    \A i, j \in 1 .. Len(nodeStack) : i # j => nodeStack[i] # nodeStack[j]

Inv == /\ Stream!TypeOK
       /\ BuilderTyped
       /\ DocumentsAreDocuments
       /\ StackedOnce
       /\ result \in Result
       /\ result = "running" => thrown = "none"
       /\ OnlyDocumentsThrow
       /\ StackMirrorsStream


-----------------------------------------------------------------------------
(***************************************************************************)
(* Nodes.                                                                  *)
(***************************************************************************)

(* What refers to the first n nodes refers to the first m.                 *)
LEMMA NodeInGrows ==
    ASSUME NEW n \in Nat, NEW m \in Nat, n <= m
    PROVE  /\ NodeIn(n) \subseteq NodeIn(m)
           /\ Seq(NodeIn(n)) \subseteq Seq(NodeIn(m))
           /\ Seq(1 .. n) \subseteq Seq(1 .. m)
<1>1. 1 .. n \subseteq 1 .. m /\ 0 .. n \subseteq 0 .. m
  OBVIOUS
<1>2. Seq(1 .. n) \subseteq Seq(1 .. m)
  BY <1>1, SeqMonotonic
<1>3. NodeIn(n) \subseteq NodeIn(m)
  BY <1>1, <1>2 DEF NodeIn
<1> QED BY <1>2, <1>3, SeqMonotonic

(* A new node refers to no other.                                          *)
LEMMA NewNodeTyped ==
    ASSUME NEW n \in Nat, NEW kind \in Kind, NEW text \in Texts \cup {NoText}
    PROVE  NewNode(kind, text) \in NodeIn(n)
<1>1. <<>> \in Seq(1 .. n)
  BY EmptySeq
<1>2. NoKey \in 0 .. n
  BY DEF NoKey
<1> QED BY <1>1, <1>2 DEF NewNode, NodeIn

(* YNode.Add of a parent that is not a scalar, by its class.               *)
LEMMA AdoptShape ==
    ASSUME NEW n \in Nat, NEW parent \in NodeIn(n), NEW child \in 1 .. n,
           parent.kind # "YScalar"
    PROVE  /\ Adopt(parent, child) \in NodeIn(n)
           /\ Adopt(parent, child).kind = parent.kind
           /\ parent.kind = "YDocument" => Adopt(parent, child).children = <<child>>
           /\ parent.kind = "YMapping" =>
                 Adopt(parent, child).nextKey = IF parent.nextKey = NoKey THEN child ELSE NoKey
<1>1. /\ parent = [kind |-> parent.kind, text |-> parent.text,
                   children |-> parent.children, nextKey |-> parent.nextKey]
      /\ parent.kind \in Kind /\ parent.text \in Texts \cup {NoText}
      /\ parent.children \in Seq(1 .. n) /\ parent.nextKey \in 0 .. n
      /\ child \in 0 .. n /\ 0 \in 0 .. n
  BY DEF NodeIn
<1>2. CASE parent.kind = "YDocument"
  <2>1. Adopt(parent, child) = [parent EXCEPT !.children = <<child>>]
    BY <1>2 DEF Adopt
  <2>2. <<child>> \in Seq(1 .. n)
    OBVIOUS
  <2> QED BY <1>1, <1>2, <2>1, <2>2 DEF NodeIn
<1>3. CASE parent.kind = "YSequence"
  <2>1. Adopt(parent, child) = [parent EXCEPT !.children = Append(parent.children, child)]
    BY <1>3 DEF Adopt
  <2>2. Append(parent.children, child) \in Seq(1 .. n)
    BY <1>1, AppendProperties
  <2> QED BY <1>1, <1>3, <2>1, <2>2 DEF NodeIn
<1>4. CASE parent.kind = "YMapping" /\ parent.nextKey = NoKey
  <2>1. Adopt(parent, child) = [parent EXCEPT !.nextKey = child]
    BY <1>4 DEF Adopt
  <2> QED BY <1>1, <1>4, <2>1 DEF NodeIn
<1>5. CASE parent.kind = "YMapping" /\ parent.nextKey # NoKey
  <2>1. Adopt(parent, child) = [parent EXCEPT !.children = parent.children \o <<parent.nextKey, child>>,
                                              !.nextKey = NoKey]
    BY <1>5 DEF Adopt
  <2>2. parent.nextKey \in 1 .. n
    BY <1>1, <1>5 DEF NoKey
  <2>3. parent.children \o <<parent.nextKey, child>> \in Seq(1 .. n)
    BY <1>1, <2>2, ConcatProperties
  <2> QED BY <1>1, <1>5, <2>1, <2>3 DEF NodeIn, NoKey
<1> QED BY <1>1, <1>2, <1>3, <1>4, <1>5 DEF Kind

(* A construct that has got a child is built as far as the stream says.    *)
LEMMA AdoptAdvances ==
    ASSUME NEW n \in Nat, NEW parent \in NodeIn(n), NEW child \in 1 .. n,
           NEW construct \in Stream!Construct \ {"docEnd"}, BuiltAs(construct, parent)
    PROVE  /\ Adopt(parent, child) \in NodeIn(n)
           /\ Adopt(parent, child).kind = parent.kind
           /\ Stream!AfterChild(construct) \in Stream!Construct
           /\ BuiltAs(Stream!AfterChild(construct), Adopt(parent, child))
<1>1. parent.kind # "YScalar"
  BY DEF BuiltAs, Stream!Construct
<1>2. /\ Adopt(parent, child) \in NodeIn(n)
      /\ Adopt(parent, child).kind = parent.kind
      /\ parent.kind = "YDocument" => Adopt(parent, child).children = <<child>>
      /\ parent.kind = "YMapping" =>
            Adopt(parent, child).nextKey = IF parent.nextKey = NoKey THEN child ELSE NoKey
  BY <1>1, AdoptShape
<1>3. child # NoKey /\ Len(<<child>>) = 1
  BY DEF NoKey
<1>4. Stream!AfterChild(construct) \in Stream!Construct
  BY DEF Stream!AfterChild, Stream!Construct
<1>5. BuiltAs(Stream!AfterChild(construct), Adopt(parent, child))
  <2>1. CASE construct = "root"
    BY <1>2, <1>3, <2>1 DEF BuiltAs, Stream!AfterChild
  <2>2. CASE construct = "seq"
    BY <1>2, <2>2 DEF BuiltAs, Stream!AfterChild
  <2>3. CASE construct = "key"
    BY <1>2, <1>3, <2>3 DEF BuiltAs, Stream!AfterChild
  <2>4. CASE construct = "value"
    BY <1>2, <1>3, <2>4 DEF BuiltAs, Stream!AfterChild
  <2> QED BY <2>1, <2>2, <2>3, <2>4 DEF Stream!Construct
<1> QED BY <1>2, <1>4, <1>5


-----------------------------------------------------------------------------
(***************************************************************************)
(* The streams' steps.                                                     *)
(***************************************************************************)

(* The stream's stack operators are those of the builder's.                *)
LEMMA SameOperators ==
    /\ \A s : Stream!Last(s) = Last(s)
    /\ \A s : Stream!Front(s) = Front(s)
BY DEF Stream!Last, Stream!Front, Last, Front

(* A node moves the construct it begins in on.                             *)
LEMMA AdvancedTyped ==
    ASSUME Stream!TypeOK, Stream!AcceptsNode
    PROVE  /\ open \in Seq(Stream!Construct) /\ Len(open) \in Nat \ {0}
           /\ Last(open) = open[Len(open)]
           /\ Last(open) \in Stream!Construct \ {"docEnd"}
           /\ Stream!Advanced \in Seq(Stream!Construct)
           /\ Len(Stream!Advanced) = Len(open)
           /\ \A k \in 1 .. Len(open) - 1 : Stream!Advanced[k] = open[k]
           /\ Stream!Advanced[Len(open)] = Stream!AfterChild(Last(open))
<1>1. open \in Seq(Stream!Construct) /\ open # <<>> /\ Last(open) # "docEnd"
  BY SameOperators DEF Stream!TypeOK, Stream!AcceptsNode
<1>2. /\ Len(open) \in Nat /\ Len(open) >= 1
      /\ Front(open) \in Seq(Stream!Construct)
      /\ Len(Front(open)) = Len(open) - 1
      /\ \A k \in 1 .. Len(open) - 1 : Front(open)[k] = open[k]
      /\ Last(open) \in Stream!Construct
  BY <1>1, FrontProperties
<1>3. Stream!AfterChild(Last(open)) \in Stream!Construct
  BY <1>1, <1>2 DEF Stream!AfterChild, Stream!Construct
<1>4. /\ Stream!Advanced \in Seq(Stream!Construct)
      /\ Len(Stream!Advanced) = Len(Front(open)) + 1
      /\ \A k \in 1 .. Len(Front(open)) : Stream!Advanced[k] = Front(open)[k]
      /\ Stream!Advanced[Len(Front(open)) + 1] = Stream!AfterChild(Last(open))
  BY <1>2, <1>3, SameOperators, AppendProperties DEF Stream!Advanced
<1>5. Len(open) - 1 + 1 = Len(open)
  BY <1>2
<1> QED BY <1>1, <1>2, <1>4, <1>5 DEF Last

(* Every event of the stream keeps the stream typed.                       *)
StreamStep ==
    \/ Stream!StreamStart \/ Stream!StreamEnd \/ Stream!DocumentStart \/ Stream!DocumentEnd
    \/ Stream!Node \/ Stream!SequenceEnd \/ Stream!MappingEnd \/ Stream!Abort

LEMMA StreamTyped ==
    ASSUME Stream!TypeOK, StreamStep
    PROVE  Stream!TypeOK'
<1>1. /\ phase \in Stream!Phase
      /\ open \in Seq(Stream!Construct)
      /\ Front(open) \in Seq(Stream!Construct)
  <2>1. phase \in Stream!Phase /\ open \in Seq(Stream!Construct)
    BY DEF Stream!TypeOK
  <2> QED BY <2>1, FrontProperties
<1>2. event' \in Stream!Event
  <2>1. PICK type \in Stream!EventType, anchor \in Anchors \cup {NoAnchor} :
           event' = [type |-> type, anchor |-> anchor]
    BY DEF StreamStep, Stream!StreamStart, Stream!StreamEnd, Stream!DocumentStart,
           Stream!DocumentEnd, Stream!Node, Stream!Alias, Stream!Scalar, Stream!SequenceStart,
           Stream!MappingStart, Stream!SequenceEnd, Stream!MappingEnd, Stream!Abort,
           Stream!Deliver, Stream!EventType, Stream!NodeEventType
  <2> QED BY <2>1 DEF Stream!Event
<1>3. phase' \in Stream!Phase
  BY <1>1 DEF StreamStep, Stream!StreamStart, Stream!StreamEnd, Stream!DocumentStart,
         Stream!DocumentEnd, Stream!Node, Stream!Alias, Stream!Scalar, Stream!SequenceStart,
         Stream!MappingStart, Stream!SequenceEnd, Stream!MappingEnd, Stream!Abort, Stream!Phase
<1>4. open' \in Seq(Stream!Construct)
  <2>1. CASE open' = open \/ open' = Front(open)
    BY <1>1, <2>1
  <2>2. CASE open' = <<>>
    BY <2>2, EmptySeq
  <2>3. CASE open' = <<"root">>
    BY <2>3 DEF Stream!Construct
  <2>4. CASE Stream!AcceptsNode /\ open' = Stream!Advanced
    BY <2>4, AdvancedTyped
  <2>5. ASSUME Stream!AcceptsNode, NEW construct \in {"seq", "key"},
               open' = Append(Stream!Advanced, construct)
        PROVE  open' \in Seq(Stream!Construct)
    <3>1. construct \in Stream!Construct
      BY DEF Stream!Construct
    <3>2. Stream!Advanced \in Seq(Stream!Construct)
      BY <2>5, AdvancedTyped
    <3> QED BY <2>5, <3>1, <3>2, AppendProperties
  <2>6. CASE Stream!Node
    BY <2>4, <2>5, <2>6 DEF Stream!Node, Stream!Alias, Stream!Scalar, Stream!SequenceStart,
           Stream!MappingStart
  <2> QED BY <2>1, <2>2, <2>3, <2>6, SameOperators
         DEF StreamStep, Stream!StreamStart, Stream!StreamEnd,
             Stream!DocumentStart, Stream!DocumentEnd, Stream!SequenceEnd, Stream!MappingEnd,
             Stream!Abort
<1> QED BY <1>2, <1>3, <1>4 DEF Stream!TypeOK

-----------------------------------------------------------------------------
(***************************************************************************)
(* The builder's steps.                                                    *)
(***************************************************************************)

(* The constructs of o are being built in the nodes of s, each so far.     *)
Mirrors(o, s) ==
    /\ Len(s) = Len(o)
    /\ \A k \in 1 .. Len(o) : BuiltAs(o[k], nodes[s[k]])

LEMMA MirrorsRunning ==
    ASSUME Stream!TypeOK
    PROVE  StackMirrorsStream <=> (result = "running" => Mirrors(open, nodeStack))
<1>1. DOMAIN open = 1 .. Len(open)
  BY LenProperties DEF Stream!TypeOK
<1> QED BY <1>1 DEF StackMirrorsStream, Mirrors

(* What a handler that does not throw has to keep.                         *)
BuilderKept ==
    /\ BuilderTyped'
    /\ DocumentsAreDocuments'
    /\ StackedOnce'
    /\ Mirrors(open, nodeStack)'
    /\ thrown' = thrown

LEMMA HandlerKeeps ==
    ASSUME Inv, result = "running", StreamStep, HandlerReturns, BuilderKept
    PROVE  Inv'
<1>1. Stream!TypeOK'
  BY StreamTyped DEF Inv
<1>2. thrown' = "none"
  BY DEF Inv, BuilderKept
<1>3. result' \in Result
  BY DEF HandlerReturns, Result
<1>4. StackMirrorsStream'
  <2>1. DOMAIN open' = 1 .. Len(open')
    BY <1>1, LenProperties DEF Stream!TypeOK
  <2> QED BY <2>1 DEF StackMirrorsStream, BuilderKept, Mirrors
<1>5. OnlyDocumentsThrow'
  BY <1>2 DEF OnlyDocumentsThrow
<1> QED BY <1>1, <1>2, <1>3, <1>4, <1>5 DEF Inv, BuilderKept

LEMMA HandlerThrows ==
    ASSUME Inv, result = "running", StreamStep, HandlerReturns,
           NEW exception \in {"KeyNotFound", "Mapping keys must be scalars", "DuplicateKey"},
           Throw(exception)
    PROVE  Inv'
<1>1. Stream!TypeOK'
  BY StreamTyped DEF Inv
<1>2. thrown' = exception /\ exception # "none" /\ result' = "1"
  BY DEF Throw, HandlerReturns
<1>3. /\ BuilderTyped'
      /\ DocumentsAreDocuments'
      /\ StackedOnce'
  BY DEF Inv, Throw, BuilderTyped, DocumentsAreDocuments, StackedOnce
<1>4. OnlyDocumentsThrow'
  BY <1>2 DEF OnlyDocumentsThrow
<1>5. result' \in Result /\ StackMirrorsStream'
  BY <1>2 DEF StackMirrorsStream, Result
<1> QED BY <1>1, <1>2, <1>3, <1>4, <1>5 DEF Inv


(* CurrentNode.Add(child) that does not throw: known are the nodes with    *)
(* the one being added.                                                    *)
LEMMA NodeAdded ==
    ASSUME Inv, result = "running", Stream!AcceptsNode,
           NEW n \in Nat, NEW known \in Seq(NodeIn(n)), NEW child \in 1 .. n,
           Len(known) = n, Len(nodes) <= n,
           \A i \in 1 .. Len(nodes) : known[i] = nodes[i],
           nodes' = [known EXCEPT ![Last(nodeStack)] = Adopt(known[Last(nodeStack)], child)]
    PROVE  /\ nodes' \in Seq(NodeIn(n)) /\ Len(nodes') = n
           /\ \A i \in 1 .. n : nodes'[i].kind = known[i].kind
           /\ \A i \in 1 .. n : i # Last(nodeStack) => nodes'[i] = known[i]
           /\ Len(nodeStack) = Len(Stream!Advanced)
           /\ \A k \in 1 .. Len(nodeStack) : BuiltAs(Stream!Advanced[k], nodes'[nodeStack[k]])
<1> DEFINE p == Last(nodeStack)
           parent == known[p]
<1>1. /\ Len(open) \in Nat \ {0}
      /\ Last(open) = open[Len(open)]
      /\ Last(open) \in Stream!Construct \ {"docEnd"}
      /\ Len(Stream!Advanced) = Len(open)
      /\ \A k \in 1 .. Len(open) - 1 : Stream!Advanced[k] = open[k]
      /\ Stream!Advanced[Len(open)] = Stream!AfterChild(Last(open))
  BY AdvancedTyped DEF Inv
<1>2. Mirrors(open, nodeStack)
  BY MirrorsRunning DEF Inv
<1>3. /\ Len(nodes) \in Nat
      /\ \A k \in 1 .. Len(nodeStack) : nodeStack[k] \in 1 .. Len(nodes)
      /\ p = nodeStack[Len(open)]
  <2>1. nodeStack \in Seq(1 .. Len(nodes)) /\ nodes \in Seq(NodeIn(Len(nodes)))
    BY DEF Inv, BuilderTyped
  <2>2. p = nodeStack[Len(open)]
    BY <1>2 DEF Mirrors, Last
  <2> QED BY <2>1, <2>2, LenProperties, ElementOfSeq
<1>4. Len(nodeStack) = Len(open) /\ Len(open) \in 1 .. Len(open)
  BY <1>1, <1>2 DEF Mirrors
<1>5. p \in 1 .. Len(nodes) /\ p \in 1 .. n /\ parent = nodes[p]
  BY <1>3, <1>4
<1>6. parent \in NodeIn(n) /\ BuiltAs(Last(open), parent)
  BY <1>1, <1>2, <1>3, <1>4, <1>5, ElementOfSeq DEF Mirrors
<1> HIDE DEF parent
<1>7. /\ Adopt(parent, child) \in NodeIn(n)
      /\ Adopt(parent, child).kind = parent.kind
      /\ BuiltAs(Stream!AfterChild(Last(open)), Adopt(parent, child))
  BY <1>1, <1>6, AdoptAdvances
<1>8. /\ nodes' \in Seq(NodeIn(n)) /\ Len(nodes') = n
      /\ \A i \in 1 .. n : nodes'[i] = IF i = p THEN Adopt(parent, child) ELSE known[i]
  <2>1. nodes' = [known EXCEPT ![p] = Adopt(parent, child)]
    BY DEF parent
  <2> QED BY <1>5, <1>7, <2>1, ExceptSeq
<1>9. \A i \in 1 .. n : nodes'[i].kind = known[i].kind
  BY <1>7, <1>8 DEF parent
<1>10. ASSUME NEW k \in 1 .. Len(nodeStack)
       PROVE  BuiltAs(Stream!Advanced[k], nodes'[nodeStack[k]])
  <2>1. CASE k = Len(open)
    <3>1. nodes'[nodeStack[k]] = Adopt(parent, child)
      BY <1>3, <1>5, <1>8, <2>1
    <3> QED BY <1>1, <1>7, <2>1, <3>1
  <2>2. CASE k # Len(open)
    <3>1. k \in 1 .. Len(open) - 1 /\ k \in 1 .. Len(open)
      BY <1>1, <1>4, <2>2
    <3>2. nodeStack[k] # p
      BY <1>3, <1>4, <2>2 DEF Inv, StackedOnce
    <3>3. nodeStack[k] \in 1 .. n /\ nodeStack[k] \in 1 .. Len(nodes)
      BY <1>3
    <3>4. nodes'[nodeStack[k]] = nodes[nodeStack[k]]
      BY <1>8, <3>2, <3>3
    <3>5. BuiltAs(open[k], nodes[nodeStack[k]])
      BY <1>2, <3>1 DEF Mirrors
    <3> QED BY <1>1, <3>1, <3>4, <3>5
  <2> QED BY <2>1, <2>2
<1> QED BY <1>1, <1>4, <1>8, <1>9, <1>10

(* Why CurrentNode.Add throws, if it does: there is a current node.        *)
LEMMA RefusalKinds ==
    ASSUME Inv, result = "running", Stream!AcceptsNode, NEW child, NEW known
    PROVE  Refusal(child, known) \in {"none", "Mapping keys must be scalars", "DuplicateKey"}
<1>1. Len(open) \in Nat \ {0}
  BY AdvancedTyped DEF Inv
<1>2. Mirrors(open, nodeStack)
  BY MirrorsRunning DEF Inv
<1>3. nodeStack # <<>>
  <2>1. Len(nodeStack) # 0
    BY <1>1, <1>2 DEF Mirrors
  <2> QED BY <2>1, EmptySeq
<1> QED BY <1>3 DEF Refusal

(* A document's and a node's first numbers stay in range as nodes come.    *)
LEMMA Grown ==
    ASSUME Inv, NEW n \in Nat, Len(nodes) <= n, nodes' \in Seq(NodeIn(n)), Len(nodes') = n,
           documents' = documents,
           \A i \in 1 .. Len(nodes) : nodes'[i].kind = nodes[i].kind
    PROVE  /\ Len(nodes) \in Nat
           /\ nodes' \in Seq(NodeIn(Len(nodes')))
           /\ documents' \in Seq(1 .. Len(nodes'))
           /\ nodeStack \in Seq(1 .. Len(nodes'))
           /\ \A a \in DOMAIN anchors : anchors[a] \in 1 .. Len(nodes')
           /\ DocumentsAreDocuments'
<1>1. /\ nodes \in Seq(NodeIn(Len(nodes)))
      /\ documents \in Seq(1 .. Len(nodes))
      /\ nodeStack \in Seq(1 .. Len(nodes))
      /\ \A a \in DOMAIN anchors : anchors[a] \in 1 .. Len(nodes)
  BY DEF Inv, BuilderTyped
<1>2. Len(nodes) \in Nat
  BY <1>1, LenProperties
<1>3. Seq(1 .. Len(nodes)) \subseteq Seq(1 .. n) /\ 1 .. Len(nodes) \subseteq 1 .. n
  BY <1>2, NodeInGrows
<1>4. DocumentsAreDocuments'
  <2>1. \A k \in 1 .. Len(documents) : documents[k] \in 1 .. Len(nodes)
    BY <1>1, ElementOfSeq
  <2>2. \A k \in 1 .. Len(documents) : nodes[documents[k]].kind = "YDocument"
    BY DEF Inv, DocumentsAreDocuments
  <2> QED BY <2>1, <2>2 DEF DocumentsAreDocuments
<1> QED BY <1>1, <1>2, <1>3, <1>4


(* SetAnchor of an anchor the event may carry.                             *)
LEMMA AnchorSet ==
    ASSUME NEW n \in Nat, NEW anchor \in Anchors \cup {NoAnchor}, NEW node \in 1 .. n,
           SetAnchor(anchor, node),
           DOMAIN anchors \subseteq Anchors,
           \A a \in DOMAIN anchors : anchors[a] \in 1 .. n
    PROVE  /\ DOMAIN anchors' \subseteq Anchors
           /\ \A a \in DOMAIN anchors' : anchors'[a] \in 1 .. n
<1>1. CASE anchor = NoAnchor
  BY <1>1 DEF SetAnchor
<1>2. CASE anchor # NoAnchor
  <2>1. anchors' = [a \in DOMAIN anchors \cup {anchor} |->
                       IF a = anchor THEN node ELSE anchors[a]]
    BY <1>2 DEF SetAnchor
  <2> QED BY <1>2, <2>1
<1> QED BY <1>1, <1>2

(* A new number is on no stack of the numbers before it.                   *)
LEMMA Pushed ==
    ASSUME NEW n \in Nat, NEW s \in Seq(1 .. n),
           \A i, j \in 1 .. Len(s) : i # j => s[i] # s[j]
    PROVE  /\ Append(s, n + 1) \in Seq(1 .. n + 1)
           /\ Len(Append(s, n + 1)) = Len(s) + 1
           /\ \A k \in 1 .. Len(s) : Append(s, n + 1)[k] = s[k]
           /\ Append(s, n + 1)[Len(s) + 1] = n + 1
           /\ \A i, j \in 1 .. Len(s) + 1 :
                 i # j => Append(s, n + 1)[i] # Append(s, n + 1)[j]
<1>1. s \in Seq(1 .. n + 1) /\ Len(s) \in Nat
  BY NodeInGrows, LenProperties
<1>2. /\ Append(s, n + 1) \in Seq(1 .. n + 1)
      /\ Len(Append(s, n + 1)) = Len(s) + 1
      /\ \A k \in 1 .. Len(s) : Append(s, n + 1)[k] = s[k]
      /\ Append(s, n + 1)[Len(s) + 1] = n + 1
  BY <1>1, AppendProperties
<1>3. \A k \in 1 .. Len(s) : s[k] \in 1 .. n
  BY ElementOfSeq
<1>4. \A k \in 1 .. Len(s) : s[k] # n + 1
  BY <1>3
<1>5. \A i \in 1 .. Len(s) + 1 : i \in 1 .. Len(s) \/ i = Len(s) + 1
  BY <1>1
<1> QED BY <1>2, <1>4, <1>5

(* The aliased node becomes a child of the current one.                    *)
LEMMA AliasStep ==
    ASSUME Inv, result = "running", HandlerReturns, NEW a \in Anchors, Stream!Alias(a), Alias(a)
    PROVE  Inv'
<1>1. StreamStep /\ Stream!AcceptsNode /\ open' = Stream!Advanced
  BY DEF StreamStep, Stream!Node, Stream!Alias
<1>2. CASE a \notin DOMAIN anchors
  BY <1>1, <1>2, HandlerThrows DEF Alias
<1>3. CASE a \in DOMAIN anchors /\ Refused(anchors[a], nodes)
  <2>1. Refusal(anchors[a], nodes) \in {"Mapping keys must be scalars", "DuplicateKey"}
    BY <1>1, <1>3, RefusalKinds DEF Refused
  <2> QED BY <1>1, <1>3, <2>1, HandlerThrows DEF Refused
<1>4. CASE a \in DOMAIN anchors /\ Added(anchors[a], nodes) /\ UNCHANGED <<nodeStack, anchors>>
  <2>1. SUFFICES ASSUME NEW n, n = Len(nodes), NEW known, known = nodes,
                        NEW child, child = anchors[a]
                 PROVE  Inv'
    OBVIOUS
  <2>2. /\ n \in Nat /\ known \in Seq(NodeIn(n)) /\ child \in 1 .. n /\ Len(known) = n
        /\ Len(nodes) <= n /\ \A i \in 1 .. Len(nodes) : known[i] = nodes[i]
    <3>1. nodes \in Seq(NodeIn(Len(nodes))) /\ anchors[a] \in 1 .. Len(nodes)
      BY <1>4 DEF Inv, BuilderTyped
    <3> QED BY <2>1, <3>1, LenProperties
  <2>3. /\ nodes' = [known EXCEPT ![Last(nodeStack)] = Adopt(known[Last(nodeStack)], child)]
        /\ documents' = documents /\ thrown' = thrown
    BY <1>4, <2>1 DEF Added
  <2>4. /\ nodes' \in Seq(NodeIn(n)) /\ Len(nodes') = n
        /\ \A i \in 1 .. n : nodes'[i].kind = known[i].kind
        /\ Len(nodeStack) = Len(Stream!Advanced)
        /\ \A k \in 1 .. Len(nodeStack) : BuiltAs(Stream!Advanced[k], nodes'[nodeStack[k]])
    BY <1>1, <2>2, <2>3, NodeAdded
  <2>5. /\ BuilderTyped' /\ DocumentsAreDocuments'
    BY <1>4, <2>1, <2>2, <2>3, <2>4, Grown DEF BuilderTyped, Inv
  <2>6. StackedOnce' /\ Mirrors(open, nodeStack)'
    BY <1>1, <1>4, <2>4 DEF Inv, StackedOnce, Mirrors
  <2> QED BY <1>1, <2>3, <2>5, <2>6, HandlerKeeps DEF BuilderKept
<1> QED BY <1>2, <1>3, <1>4 DEF Alias

(* A new node, of a scalar or a collection, before it may be pushed.       *)
LEMMA NewNodeStep ==
    ASSUME Inv, result = "running", Stream!AcceptsNode,
           NEW kind \in Kind, NEW text \in Texts \cup {NoText},
           NEW anchor \in Anchors \cup {NoAnchor},
           NEW n, n = Len(nodes),
           NEW known, known = Append(nodes, NewNode(kind, text)),
           Added(n + 1, known),
           SetAnchor(anchor, n + 1)
    PROVE  /\ n \in Nat /\ nodes' \in Seq(NodeIn(n + 1)) /\ Len(nodes') = n + 1
           /\ documents' \in Seq(1 .. n + 1) /\ thrown' = thrown
           /\ nodeStack \in Seq(1 .. n) /\ nodeStack \in Seq(1 .. n + 1)
           /\ DOMAIN anchors' \subseteq Anchors
           /\ \A a \in DOMAIN anchors' : anchors'[a] \in 1 .. n + 1
           /\ DocumentsAreDocuments'
           /\ Len(nodeStack) = Len(Stream!Advanced)
           /\ \A k \in 1 .. Len(nodeStack) : BuiltAs(Stream!Advanced[k], nodes'[nodeStack[k]])
           /\ nodes'[n + 1] = NewNode(kind, text)
<1>1. /\ nodes \in Seq(NodeIn(n)) /\ n \in Nat /\ nodeStack \in Seq(1 .. n)
      /\ \A k \in 1 .. Len(nodeStack) : nodeStack[k] \in 1 .. n
  <2>1. nodes \in Seq(NodeIn(Len(nodes))) /\ nodeStack \in Seq(1 .. Len(nodes))
    BY DEF Inv, BuilderTyped
  <2> QED BY <2>1, LenProperties, ElementOfSeq
<1>2. /\ nodes \in Seq(NodeIn(n + 1)) /\ NewNode(kind, text) \in NodeIn(n + 1)
      /\ n + 1 \in Nat /\ n <= n + 1 /\ n + 1 \in 1 .. n + 1
  <2>1. n + 1 \in Nat /\ n <= n + 1 /\ n + 1 \in 1 .. n + 1
    BY <1>1
  <2> QED BY <1>1, <2>1, NodeInGrows, NewNodeTyped
<1>3. /\ known \in Seq(NodeIn(n + 1)) /\ Len(known) = n + 1
      /\ \A i \in 1 .. Len(nodes) : known[i] = nodes[i]
      /\ known[n + 1] = NewNode(kind, text)
  BY <1>1, <1>2, AppendProperties
<1>4. /\ nodes' = [known EXCEPT ![Last(nodeStack)] = Adopt(known[Last(nodeStack)], n + 1)]
      /\ documents' = documents /\ thrown' = thrown
  BY DEF Added
<1>5. /\ nodes' \in Seq(NodeIn(n + 1)) /\ Len(nodes') = n + 1
      /\ \A i \in 1 .. n + 1 : nodes'[i].kind = known[i].kind
      /\ \A i \in 1 .. n + 1 : i # Last(nodeStack) => nodes'[i] = known[i]
      /\ Len(nodeStack) = Len(Stream!Advanced)
      /\ \A k \in 1 .. Len(nodeStack) : BuiltAs(Stream!Advanced[k], nodes'[nodeStack[k]])
  BY <1>2, <1>3, <1>4, NodeAdded
<1>6. \A i \in 1 .. Len(nodes) : nodes'[i].kind = nodes[i].kind
  <2>1. \A i \in 1 .. Len(nodes) : i \in 1 .. n + 1
    BY <1>1
  <2> QED BY <1>3, <1>5, <2>1
<1>7. /\ documents' \in Seq(1 .. n + 1) /\ DocumentsAreDocuments'
      /\ nodeStack \in Seq(1 .. n + 1)
      /\ \A a \in DOMAIN anchors : anchors[a] \in 1 .. n + 1
  BY <1>2, <1>4, <1>5, <1>6, Grown
<1>8. /\ DOMAIN anchors' \subseteq Anchors
      /\ \A a \in DOMAIN anchors' : anchors'[a] \in 1 .. n + 1
  <2>1. DOMAIN anchors \subseteq Anchors
    BY DEF Inv, BuilderTyped
  <2> QED BY <1>2, <1>7, <2>1, AnchorSet
<1>9. nodes'[n + 1] = NewNode(kind, text)
  <2>1. Len(nodeStack) \in 1 .. Len(nodeStack)
    <3>1. Len(Stream!Advanced) = Len(open) /\ Len(open) \in Nat \ {0}
      BY AdvancedTyped DEF Inv
    <3> QED BY <1>5, <3>1
  <2>2. Last(nodeStack) # n + 1
    BY <1>1, <2>1 DEF Last
  <2> QED BY <1>2, <1>3, <1>5, <2>2
<1> QED BY <1>1, <1>4, <1>5, <1>7, <1>8, <1>9


LEMMA ScalarStep ==
    ASSUME Inv, result = "running", HandlerReturns, NEW anchor \in Anchors \cup {NoAnchor},
           NEW text \in Texts, Stream!Scalar(anchor), Scalar(anchor, text)
    PROVE  Inv'
<1>1. StreamStep /\ Stream!AcceptsNode /\ open' = Stream!Advanced
  BY DEF StreamStep, Stream!Node, Stream!Scalar
<1>2. SUFFICES ASSUME NEW n, n = Len(nodes),
                      NEW known, known = Append(nodes, NewNode("YScalar", text))
               PROVE  Inv'
  OBVIOUS
<1>3. CASE Refused(n + 1, known)
  <2>1. Refusal(n + 1, known) \in {"Mapping keys must be scalars", "DuplicateKey"}
    BY <1>1, <1>3, RefusalKinds DEF Refused
  <2> QED BY <1>1, <1>3, <2>1, HandlerThrows DEF Refused
<1>4. CASE Added(n + 1, known) /\ SetAnchor(anchor, n + 1) /\ UNCHANGED nodeStack
  <2>1. "YScalar" \in Kind /\ text \in Texts \cup {NoText}
    BY DEF Kind
  <2>2. /\ n \in Nat /\ nodes' \in Seq(NodeIn(n + 1)) /\ Len(nodes') = n + 1
        /\ documents' \in Seq(1 .. n + 1) /\ thrown' = thrown
        /\ nodeStack \in Seq(1 .. n + 1)
        /\ DOMAIN anchors' \subseteq Anchors
        /\ \A a \in DOMAIN anchors' : anchors'[a] \in 1 .. n + 1
        /\ DocumentsAreDocuments'
        /\ Len(nodeStack) = Len(Stream!Advanced)
        /\ \A k \in 1 .. Len(nodeStack) : BuiltAs(Stream!Advanced[k], nodes'[nodeStack[k]])
    BY <1>1, <1>2, <1>4, <2>1, NewNodeStep
  <2>3. BuilderTyped' /\ StackedOnce' /\ Mirrors(open, nodeStack)'
    BY <1>1, <1>4, <2>2 DEF BuilderTyped, Inv, StackedOnce, Mirrors
  <2> QED BY <1>1, <2>2, <2>3, HandlerKeeps DEF BuilderKept
<1> QED BY <1>2, <1>3, <1>4 DEF Scalar

(* A collection is pushed beside the construct its events open.            *)
LEMMA CollectionStartStep ==
    ASSUME Inv, result = "running", HandlerReturns, StreamStep, Stream!AcceptsNode,
           NEW anchor \in Anchors \cup {NoAnchor},
           NEW kind, NEW construct,
           \/ kind = "YSequence" /\ construct = "seq"
           \/ kind = "YMapping" /\ construct = "key",
           open' = Append(Stream!Advanced, construct),
           CollectionStart(kind, anchor)
    PROVE  Inv'
<1>1. kind \in Kind /\ NoText \in Texts \cup {NoText} /\ construct \in Stream!Construct
  BY DEF Kind, Stream!Construct
<1>2. SUFFICES ASSUME NEW n, n = Len(nodes),
                      NEW known, known = Append(nodes, NewNode(kind, NoText))
               PROVE  Inv'
  OBVIOUS
<1>3. CASE Refused(n + 1, known)
  <2>1. Refusal(n + 1, known) \in {"Mapping keys must be scalars", "DuplicateKey"}
    BY <1>3, RefusalKinds DEF Refused
  <2> QED BY <1>3, <2>1, HandlerThrows DEF Refused
<1>4. CASE /\ Added(n + 1, known)
           /\ nodeStack' = Append(nodeStack, n + 1)
           /\ SetAnchor(anchor, n + 1)
  <2>1. /\ n \in Nat /\ nodes' \in Seq(NodeIn(n + 1)) /\ Len(nodes') = n + 1
        /\ documents' \in Seq(1 .. n + 1) /\ thrown' = thrown
        /\ nodeStack \in Seq(1 .. n)
        /\ DOMAIN anchors' \subseteq Anchors
        /\ \A a \in DOMAIN anchors' : anchors'[a] \in 1 .. n + 1
        /\ DocumentsAreDocuments'
        /\ Len(nodeStack) = Len(Stream!Advanced)
        /\ \A k \in 1 .. Len(nodeStack) : BuiltAs(Stream!Advanced[k], nodes'[nodeStack[k]])
        /\ nodes'[n + 1] = NewNode(kind, NoText)
    BY <1>1, <1>2, <1>4, NewNodeStep
  <2>2. /\ nodeStack' \in Seq(1 .. n + 1)
        /\ Len(nodeStack') = Len(nodeStack) + 1
        /\ \A k \in 1 .. Len(nodeStack) : nodeStack'[k] = nodeStack[k]
        /\ nodeStack'[Len(nodeStack) + 1] = n + 1
        /\ \A i, j \in 1 .. Len(nodeStack) + 1 : i # j => nodeStack'[i] # nodeStack'[j]
    BY <1>4, <2>1, Pushed, SMTT(30) DEF Inv, StackedOnce
  <2>3. /\ Len(open') = Len(nodeStack) + 1
        /\ \A k \in 1 .. Len(nodeStack) : open'[k] = Stream!Advanced[k]
        /\ open'[Len(nodeStack) + 1] = construct
    <3>1. Stream!Advanced \in Seq(Stream!Construct)
      BY AdvancedTyped DEF Inv
    <3> QED BY <1>1, <2>1, <3>1, AppendProperties
  <2>4. BuiltAs(construct, NewNode(kind, NoText))
    BY DEF BuiltAs, NewNode
  <2>5. Mirrors(open, nodeStack)'
    <3>1. \A k \in 1 .. Len(nodeStack) + 1 : k \in 1 .. Len(nodeStack) \/ k = Len(nodeStack) + 1
      BY <2>1, LenProperties
    <3>2. \A k \in 1 .. Len(nodeStack) : BuiltAs(open'[k], nodes'[nodeStack'[k]])
      BY <2>1, <2>2, <2>3, Zenon
    <3>3. BuiltAs(open'[Len(nodeStack) + 1], nodes'[nodeStack'[Len(nodeStack) + 1]])
      BY <2>1, <2>2, <2>3, <2>4, Zenon
    <3> QED BY <2>2, <2>3, <3>1, <3>2, <3>3, Zenon DEF Mirrors
  <2>6. BuilderTyped' /\ StackedOnce'
    BY <2>1, <2>2 DEF BuilderTyped, StackedOnce
  <2> QED BY <2>1, <2>5, <2>6, HandlerKeeps DEF BuilderKept
<1> QED BY <1>2, <1>3, <1>4 DEF CollectionStart

(* The innermost collection or document is finished.                       *)
LEMMA Popped ==
    ASSUME Inv, result = "running", HandlerReturns, StreamStep,
           open # <<>>, open' = Front(open), nodeStack' = Front(nodeStack),
           UNCHANGED <<nodes, documents, anchors, thrown>>
    PROVE  Inv'
<1>1. /\ open \in Seq(Stream!Construct) /\ nodeStack \in Seq(1 .. Len(nodes))
      /\ Mirrors(open, nodeStack)
  BY MirrorsRunning DEF Inv, BuilderTyped, Stream!TypeOK
<1>2. /\ Len(open) \in Nat /\ Len(open) >= 1 /\ Len(Front(open)) = Len(open) - 1
      /\ \A i \in 1 .. Len(open) - 1 : Front(open)[i] = open[i]
  BY <1>1, FrontProperties
<1>3. /\ Len(nodeStack) = Len(open) /\ nodeStack # <<>>
  <2>1. Len(nodeStack) # 0
    BY <1>1, <1>2 DEF Mirrors
  <2> QED BY <1>1, <2>1, EmptySeq DEF Mirrors
<1>4. /\ Front(nodeStack) \in Seq(1 .. Len(nodes)) /\ Len(Front(nodeStack)) = Len(open) - 1
      /\ \A i \in 1 .. Len(open) - 1 : Front(nodeStack)[i] = nodeStack[i]
  BY <1>1, <1>3, FrontProperties
<1>5. \A i \in 1 .. Len(open) - 1 : i \in 1 .. Len(open)
  BY <1>2
<1>6. Mirrors(open, nodeStack)'
  BY <1>1, <1>2, <1>4, <1>5 DEF Mirrors
<1>7. BuilderTyped' /\ DocumentsAreDocuments'
  BY <1>4 DEF Inv, BuilderTyped, DocumentsAreDocuments
<1>8. StackedOnce'
  BY <1>3, <1>4, <1>5 DEF Inv, StackedOnce
<1> QED BY <1>6, <1>7, <1>8, HandlerKeeps DEF BuilderKept

(* The stack is empty exactly when the stream's is.                        *)
LEMMA NothingOpen ==
    ASSUME Inv, result = "running"
    PROVE  /\ open = <<>> <=> nodeStack = <<>>
           /\ open # <<>> => /\ Last(nodeStack) = nodeStack[Len(open)]
                             /\ BuiltAs(Last(open), nodes[Last(nodeStack)])
<1>1. /\ open \in Seq(Stream!Construct) /\ nodeStack \in Seq(1 .. Len(nodes))
      /\ Mirrors(open, nodeStack)
  BY MirrorsRunning DEF Inv, BuilderTyped, Stream!TypeOK
<1>2. open = <<>> <=> nodeStack = <<>>
  BY <1>1, EmptySeq DEF Mirrors
<1>3. ASSUME open # <<>> PROVE Len(open) \in 1 .. Len(open)
  BY <1>1, <1>3, EmptySeq
<1> QED BY <1>1, <1>2, <1>3 DEF Mirrors, Last


LEMMA StreamStartStep ==
    ASSUME Inv, result = "running", HandlerReturns, Stream!StreamStart, StreamStart
    PROVE  Inv'
<1>1. StreamStep /\ open' = open /\ UNCHANGED builder
  BY DEF StreamStep, Stream!StreamStart, StreamStart
<1>2. Mirrors(open, nodeStack)
  BY MirrorsRunning DEF Inv
<1>3. BuilderKept
  BY <1>1, <1>2 DEF Inv, builder, BuilderKept, BuilderTyped, DocumentsAreDocuments, StackedOnce, Mirrors
<1> QED BY <1>1, <1>3, HandlerKeeps

(* No collection is being built when the stream ends.                      *)
LEMMA StreamEndStep ==
    ASSUME Inv, result = "running", HandlerReturns, Stream!StreamEnd, StreamEnd
    PROVE  Inv'
<1>1. StreamStep /\ open = <<>> /\ open' = open
  BY DEF StreamStep, Stream!StreamEnd
<1>2. nodeStack = <<>> /\ Mirrors(open, nodeStack)
  BY <1>1, NothingOpen, MirrorsRunning DEF Inv
<1>3. UNCHANGED builder
  BY <1>2 DEF StreamEnd
<1>4. BuilderKept
  BY <1>1, <1>2, <1>3
     DEF Inv, builder, BuilderKept, BuilderTyped, DocumentsAreDocuments, StackedOnce, Mirrors
<1> QED BY <1>1, <1>4, HandlerKeeps

LEMMA DocumentStartStep ==
    ASSUME Inv, result = "running", HandlerReturns, Stream!DocumentStart, DocumentStart
    PROVE  Inv'
<1>1. StreamStep /\ open = <<>> /\ open' = <<"root">>
  BY DEF StreamStep, Stream!DocumentStart
<1>2. nodeStack = <<>>
  BY <1>1, NothingOpen
<1>3. SUFFICES ASSUME NEW n, n = Len(nodes), NEW new, new = NewNode("YDocument", NoText)
               PROVE  Inv'
  OBVIOUS
<1>4. /\ n \in Nat /\ nodes \in Seq(NodeIn(n)) /\ documents \in Seq(1 .. n)
      /\ n + 1 \in Nat /\ n <= n + 1 /\ n + 1 \in 1 .. n + 1
  <2>1. nodes \in Seq(NodeIn(n)) /\ documents \in Seq(1 .. n) /\ n \in Nat
    BY <1>3, LenProperties DEF Inv, BuilderTyped
  <2> QED BY <2>1
<1>5. nodes \in Seq(NodeIn(n + 1)) /\ new \in NodeIn(n + 1) /\ documents \in Seq(1 .. n + 1)
  <2>1. "YDocument" \in Kind /\ NoText \in Texts \cup {NoText}
    BY DEF Kind
  <2> QED BY <1>3, <1>4, <2>1, NodeInGrows, NewNodeTyped
<1>6. /\ nodes' = Append(nodes, new) /\ documents' = Append(documents, n + 1)
      /\ nodeStack' = <<n + 1>> /\ anchors' = NoAnchors /\ thrown' = thrown
  <2>1. Append(nodeStack, n + 1) = <<n + 1>>
    BY <1>2
  <2> QED BY <1>3, <2>1 DEF DocumentStart
<1>7. /\ nodes' \in Seq(NodeIn(n + 1)) /\ Len(nodes') = n + 1
      /\ \A i \in 1 .. n : nodes'[i] = nodes[i]
      /\ nodes'[n + 1] = new
  BY <1>3, <1>5, <1>6, AppendProperties
<1>8. /\ documents' \in Seq(1 .. n + 1) /\ Len(documents') = Len(documents) + 1
      /\ \A k \in 1 .. Len(documents) : documents'[k] = documents[k]
      /\ documents'[Len(documents) + 1] = n + 1
      /\ Len(documents) \in Nat
  BY <1>4, <1>5, <1>6, AppendProperties, LenProperties
<1>9. new.kind = "YDocument" /\ new.children = <<>>
  BY <1>3 DEF NewNode
<1>10. BuilderTyped'
  <2>1. nodeStack' \in Seq(1 .. n + 1)
    BY <1>4, <1>6
  <2>2. DOMAIN anchors' = {}
    BY <1>6 DEF NoAnchors
  <2> QED BY <1>7, <1>8, <2>1, <2>2 DEF BuilderTyped
<1>11. DocumentsAreDocuments'
  <2> SUFFICES ASSUME NEW k \in 1 .. Len(documents) + 1
               PROVE  nodes'[documents'[k]].kind = "YDocument"
    BY <1>8 DEF DocumentsAreDocuments
  <2>1. CASE k = Len(documents) + 1
    BY <1>7, <1>8, <1>9, <2>1
  <2>2. CASE k # Len(documents) + 1
    <3>1. k \in 1 .. Len(documents)
      BY <1>8, <2>2
    <3>2. documents[k] \in 1 .. n
      BY <1>4, <3>1, ElementOfSeq
    <3> QED BY <1>7, <1>8, <3>1, <3>2 DEF Inv, DocumentsAreDocuments
  <2> QED BY <2>1, <2>2
<1>12. StackedOnce' /\ Mirrors(open, nodeStack)'
  <2>1. BuiltAs("root", new)
    BY <1>9 DEF BuiltAs
  <2>2. /\ Len(open') = 1 /\ Len(nodeStack') = 1 /\ open'[1] = "root" /\ nodeStack'[1] = n + 1
        /\ \A k \in 1 .. 1 : k = 1
    BY <1>1, <1>6
  <2> QED BY <1>7, <2>1, <2>2 DEF StackedOnce, Mirrors
<1> QED BY <1>1, <1>6, <1>10, <1>11, <1>12, HandlerKeeps DEF BuilderKept

(* The document that ends is the innermost node, and the only one.         *)
LEMMA DocumentEndStep ==
    ASSUME Inv, result = "running", HandlerReturns, Stream!DocumentEnd, DocumentEnd
    PROVE  Inv'
<1>1. /\ StreamStep /\ open = <<"docEnd">> /\ open' = <<>>
  BY DEF StreamStep, Stream!DocumentEnd
<1>2. open # <<>> /\ Last(open) = "docEnd"
  BY <1>1 DEF Last
<1>3. CurrentIs("YDocument")
  BY <1>2, NothingOpen DEF CurrentIs, BuiltAs
<1>4. open' = Front(open)
  <2>1. open \in Seq(Stream!Construct) /\ Len(open) = 1
    BY <1>1 DEF Inv, Stream!TypeOK
  <2>2. Front(open) \in Seq(Stream!Construct) /\ Len(Front(open)) = 0
    BY <1>2, <2>1, FrontProperties
  <2> QED BY <1>1, <2>2, EmptySeq
<1>5. nodeStack' = Front(nodeStack) /\ UNCHANGED <<nodes, documents, anchors, thrown>>
  BY <1>3 DEF DocumentEnd
<1> QED BY <1>1, <1>2, <1>4, <1>5, Popped

LEMMA CollectionEndStep ==
    ASSUME Inv, result = "running", HandlerReturns,
           Stream!SequenceEnd \/ Stream!MappingEnd, CollectionEnd
    PROVE  Inv'
<1>1. StreamStep /\ open # <<>> /\ open' = Front(open)
  BY SameOperators DEF StreamStep, Stream!SequenceEnd, Stream!MappingEnd
<1>2. nodeStack # <<>>
  BY <1>1, NothingOpen
<1>3. nodeStack' = Front(nodeStack) /\ UNCHANGED <<nodes, documents, anchors, thrown>>
  BY <1>2 DEF CollectionEnd
<1> QED BY <1>1, <1>3, Popped

LEMMA ParserFailsStep ==
    ASSUME Inv, ParserFails
    PROVE  Inv'
<1>1. StreamStep /\ result' = "-1" /\ UNCHANGED builder
  BY DEF ParserFails, StreamStep
<1>2. Stream!TypeOK'
  BY <1>1, StreamTyped DEF Inv
<1>3. result' \in Result /\ StackMirrorsStream'
  BY <1>1 DEF Result, StackMirrorsStream
<1>4. /\ BuilderTyped' /\ DocumentsAreDocuments' /\ StackedOnce' /\ OnlyDocumentsThrow'
  BY <1>1 DEF Inv, builder, BuilderTyped, DocumentsAreDocuments, StackedOnce, OnlyDocumentsThrow
<1> QED BY <1>1, <1>2, <1>3, <1>4 DEF Inv

-----------------------------------------------------------------------------
(***************************************************************************)
(* The invariant is inductive.                                             *)
(***************************************************************************)
LEMMA InitInv == Init => Inv
<1> SUFFICES ASSUME Init PROVE Inv
  OBVIOUS
<1> USE DEF Init, Stream!Init, BuilderInit
<1>1. Stream!TypeOK
  <2>1. open \in Seq(Stream!Construct)
    BY EmptySeq
  <2>2. event \in Stream!Event /\ phase \in Stream!Phase
    BY DEF Stream!Event, Stream!EventType, Stream!Phase
  <2> QED BY <2>1, <2>2 DEF Stream!TypeOK
<1>2. nodes = <<>> /\ documents = <<>> /\ nodeStack = <<>> /\ open = <<>> /\ Len(<<>>) = 0
  BY EmptySeq
<1>3. BuilderTyped
  <2>1. DOMAIN anchors = {}
    BY DEF NoAnchors
  <2> QED BY <1>2, <2>1, EmptySeq DEF BuilderTyped
<1>4. DocumentsAreDocuments /\ StackedOnce
  BY <1>2 DEF DocumentsAreDocuments, StackedOnce
<1>5. StackMirrorsStream
  BY <1>1, <1>2, MirrorsRunning DEF Mirrors
<1>6. OnlyDocumentsThrow /\ result \in Result /\ thrown = "none"
  BY DEF OnlyDocumentsThrow, Result
<1> QED BY <1>1, <1>3, <1>4, <1>5, <1>6 DEF Inv

LEMMA NextInv == Inv /\ [Next]_vars => Inv'
<1> SUFFICES ASSUME Inv, [Next]_vars PROVE Inv'
  OBVIOUS
<1>1. CASE HandleEvent
  <2>1. result = "running" /\ HandlerReturns
    BY <1>1 DEF HandleEvent
  <2>2. CASE HandleNode
    <3>1. ASSUME NEW a \in Anchors, Stream!Alias(a), Alias(a) PROVE Inv'
      BY <2>1, <3>1, AliasStep
    <3>2. ASSUME NEW a \in Anchors \cup {NoAnchor}, NEW text \in Texts,
                 Stream!Scalar(a), Scalar(a, text)
          PROVE  Inv'
      BY <2>1, <3>2, ScalarStep
    <3>3. ASSUME NEW a \in Anchors \cup {NoAnchor},
                 Stream!SequenceStart(a), CollectionStart("YSequence", a)
          PROVE  Inv'
      <4>1. StreamStep /\ Stream!AcceptsNode /\ open' = Append(Stream!Advanced, "seq")
        BY <3>3 DEF StreamStep, Stream!Node, Stream!SequenceStart
      <4> QED BY <2>1, <3>3, <4>1, CollectionStartStep
    <3>4. ASSUME NEW a \in Anchors \cup {NoAnchor},
                 Stream!MappingStart(a), CollectionStart("YMapping", a)
          PROVE  Inv'
      <4>1. StreamStep /\ Stream!AcceptsNode /\ open' = Append(Stream!Advanced, "key")
        BY <3>4 DEF StreamStep, Stream!Node, Stream!MappingStart
      <4> QED BY <2>1, <3>4, <4>1, CollectionStartStep
    <3> QED BY <2>2, <3>1, <3>2, <3>3, <3>4 DEF HandleNode
  <2> QED BY <1>1, <2>1, <2>2, StreamStartStep, StreamEndStep, DocumentStartStep,
             DocumentEndStep, CollectionEndStep DEF HandleEvent
<1>2. CASE ParserFails
  BY <1>2, ParserFailsStep
<1>3. CASE UNCHANGED vars
  BY <1>3 DEF vars, builder, Inv, Stream!TypeOK, BuilderTyped, DocumentsAreDocuments, StackedOnce,
              OnlyDocumentsThrow, StackMirrorsStream
<1> QED BY <1>1, <1>2, <1>3 DEF Next

LEMMA InvTypeOK == Inv => TypeOK
<1> SUFFICES ASSUME Inv PROVE TypeOK
  OBVIOUS
<1>1. /\ DOMAIN nodes = 1 .. Len(nodes) /\ Len(nodes) \in Nat
      /\ DOMAIN documents = 1 .. Len(documents)
      /\ DOMAIN nodeStack = 1 .. Len(nodeStack)
      /\ \A k \in 1 .. Len(nodeStack) : nodeStack[k] \in 1 .. Len(nodes)
  BY LenProperties, ElementOfSeq DEF Inv, BuilderTyped
<1>2. thrown \in Exception
  BY DEF Inv, OnlyDocumentsThrow, Exception
<1>3. ASSUME NEW i \in 1 .. Len(nodes)
      PROVE  /\ nodes[i].kind \in Kind
             /\ nodes[i].text \in Texts \cup {NoText}
             /\ nodes[i].nextKey \in 1 .. Len(nodes) \cup {NoKey}
             /\ \A k \in DOMAIN nodes[i].children : nodes[i].children[k] \in 1 .. Len(nodes)
  <2>1. nodes[i] \in NodeIn(Len(nodes))
    BY ElementOfSeq DEF Inv, BuilderTyped
  <2>2. /\ nodes[i].kind \in Kind /\ nodes[i].text \in Texts \cup {NoText}
        /\ nodes[i].nextKey \in 0 .. Len(nodes)
        /\ nodes[i].children \in Seq(1 .. Len(nodes))
    BY <2>1 DEF NodeIn
  <2>3. nodes[i].nextKey \in 1 .. Len(nodes) \cup {NoKey}
    BY <1>1, <2>2 DEF NoKey
  <2> QED BY <2>2, <2>3, LenProperties, ElementOfSeq
<1> QED BY <1>1, <1>2, <1>3 DEF TypeOK, Inv, BuilderTyped, DocumentsAreDocuments

-----------------------------------------------------------------------------
(***************************************************************************)
(* The theorems.                                                           *)
(***************************************************************************)

(* The invariant, with the typing of the builder's pointers and the        *)
(* distinctness of the nodes being built, holds in every parse.            *)
THEOREM ParseLoopInvariantHolds == Spec => []Inv
<1>1. Init => Inv
  BY InitInv
<1>2. Inv /\ [Next]_vars => Inv'
  BY NextInv
<1> QED BY <1>1, <1>2, PTL DEF Spec

(* Every pointer of the builder, of NativeParser.cs and of the stacks      *)
(* refers to a node that exists, and Documents holds documents.            *)
THEOREM BuilderTypeCorrect == Spec => []TypeOK
<1>1. Inv => TypeOK
  BY InvTypeOK
<1> QED BY <1>1, ParseLoopInvariantHolds, PTL

(* The stack of YamlBuilder is the stream's stack of open constructs, so   *)
(* that a mapping that ends owes no value.                                 *)
THEOREM BuilderFollowsStream == Spec => []StackMirrorsStream
<1>1. Inv => StackMirrorsStream
  BY DEF Inv
<1> QED BY <1>1, ParseLoopInvariantHolds, PTL

(* No exception of the builder but those a document's text can cause: its  *)
(* checks of the order of events never fire, whatever the stream.          *)
THEOREM OnlyContentThrows == Spec => []OnlyDocumentsThrow
<1>1. Inv => OnlyDocumentsThrow
  BY DEF Inv
<1> QED BY <1>1, ParseLoopInvariantHolds, PTL

-----------------------------------------------------------------------------
(***************************************************************************)
(* Histories: how deep they are, and what is open.                         *)
(***************************************************************************)
History == Seq(Stream!Event)

(* How many more collections have begun up to i than have ended. *)
Depth(h, i) == Count(h, StartType, i) - Count(h, EndType, i)

LEMMA DepthGrows ==
    ASSUME NEW h, NEW i \in Nat
    PROVE  /\ Depth(h, 0) = 0 /\ Depth(h, i) \in Int
           /\ h[i + 1].type \in StartType => Depth(h, i + 1) = Depth(h, i) + 1
           /\ h[i + 1].type \in EndType => Depth(h, i + 1) = Depth(h, i) - 1
           /\ h[i + 1].type \notin StartType \cup EndType => Depth(h, i + 1) = Depth(h, i)
<1>1. \A S : /\ Count(h, S, 0) = 0 /\ Count(h, S, i) \in Nat
             /\ Count(h, S, i + 1) = Count(h, S, i) + IF h[i + 1].type \in S THEN 1 ELSE 0
  BY CountGrows
<1>2. StartType \cap EndType = {}
  BY DEF StartType, EndType
<1>3. /\ Count(h, StartType, 0) = 0 /\ Count(h, EndType, 0) = 0
      /\ Count(h, StartType, i) \in Nat /\ Count(h, EndType, i) \in Nat
      /\ Count(h, StartType, i + 1)
            = Count(h, StartType, i) + IF h[i + 1].type \in StartType THEN 1 ELSE 0
      /\ Count(h, EndType, i + 1)
            = Count(h, EndType, i) + IF h[i + 1].type \in EndType THEN 1 ELSE 0
  BY <1>1
<1> QED BY <1>2, <1>3 DEF Depth

(* Behind x there are at least as many starts as ends. *)
LEMMA DepthBetween ==
    ASSUME NEW h, NEW x \in Nat, NEW y \in Nat, x < y
    PROVE  Between(h, x, y, EndType) <= Between(h, x, y, StartType)
               <=> Depth(h, y - 1) >= Depth(h, x)
<1> DEFINE m == y - 1
<1>1. m \in Nat /\ x <= m
  OBVIOUS
<1> HIDE DEF m
<1>2. \A S : /\ Count(h, S, x) \in Nat
             /\ Cardinality({i \in x + 1 .. m : h[i].type \in S}) \in Nat
             /\ Count(h, S, m) = Count(h, S, x) + Cardinality({i \in x + 1 .. m : h[i].type \in S})
  BY <1>1, CountSplits, CountGrows
<1>3. \A S : Between(h, x, y, S) = Cardinality({i \in x + 1 .. m : h[i].type \in S})
  BY DEF Between, m
<1>4. \A S : /\ Count(h, S, x) \in Nat /\ Between(h, x, y, S) \in Nat
             /\ Count(h, S, m) = Count(h, S, x) + Between(h, x, y, S)
  BY <1>2, <1>3
<1>5. /\ Count(h, StartType, x) \in Nat /\ Between(h, x, y, StartType) \in Nat
      /\ Count(h, StartType, m) = Count(h, StartType, x) + Between(h, x, y, StartType)
      /\ Count(h, EndType, x) \in Nat /\ Between(h, x, y, EndType) \in Nat
      /\ Count(h, EndType, m) = Count(h, EndType, x) + Between(h, x, y, EndType)
  BY <1>4
<1>6. Between(h, x, y, EndType) <= Between(h, x, y, StartType) <=> Depth(h, m) >= Depth(h, x)
  BY <1>5 DEF Depth
<1> QED BY <1>6 DEF m

(* What is open before e: the history has never been less deep since.      *)
LEMMA OpenByDepth ==
    ASSUME NEW h, NEW e \in Nat
    PROVE  OpenBefore(h, e) = {x \in 1 .. e - 1 : /\ h[x].type \in StartType
                                                  /\ \A y \in x .. e - 1 : Depth(h, y) >= Depth(h, x)}
<1> SUFFICES ASSUME NEW x \in 1 .. e - 1
             PROVE  (\A y \in x + 1 .. e : Between(h, x, y, EndType) <= Between(h, x, y, StartType))
                        <=> (\A y \in x .. e - 1 : Depth(h, y) >= Depth(h, x))
  BY DEF OpenBefore
<1>1. \A y \in x + 1 .. e : Between(h, x, y, EndType) <= Between(h, x, y, StartType)
                                <=> Depth(h, y - 1) >= Depth(h, x)
  <2>1. \A y \in x + 1 .. e : x \in Nat /\ y \in Nat /\ x < y
    OBVIOUS
  <2> QED BY <2>1, DepthBetween
<1>2. ASSUME NEW y \in x .. e - 1 PROVE y + 1 \in x + 1 .. e /\ (y + 1) - 1 = y
  OBVIOUS
<1>3. ASSUME NEW y \in x + 1 .. e PROVE y - 1 \in x .. e - 1
  OBVIOUS
<1>4. ASSUME \A y \in x .. e - 1 : Depth(h, y) >= Depth(h, x),
             NEW y \in x + 1 .. e
      PROVE  Between(h, x, y, EndType) <= Between(h, x, y, StartType)
  BY <1>1, <1>3, <1>4
<1>5. ASSUME \A y \in x + 1 .. e : Between(h, x, y, EndType) <= Between(h, x, y, StartType),
             NEW y \in x .. e - 1
      PROVE  Depth(h, y) >= Depth(h, x)
  <2>1. Depth(h, (y + 1) - 1) >= Depth(h, x)
    BY <1>1, <1>2, <1>5
  <2> QED BY <1>2, <2>1
<1> QED BY <1>4, <1>5

(* The greatest of a set of numbers. *)
LEMMA MaxIs ==
    ASSUME NEW S, S \subseteq Nat, NEW x \in S, \A y \in S : y <= x
    PROVE  Max(S) = x
<1>1. Max(S) \in S /\ \A y \in S : Max(S) >= y
  <2>1. \E z \in S : \A y \in S : z >= y
    OBVIOUS
  <2> QED BY <2>1 DEF Max
<1>2. Max(S) >= x /\ Max(S) <= x /\ Max(S) \in Nat /\ x \in Nat
  BY <1>1
<1> QED BY <1>2

LEMMA MaxIn ==
    ASSUME NEW n \in Nat, NEW S, S \subseteq 0 .. n, S # {}
    PROVE  Max(S) \in S
<1>1. PICK x \in S : \A y \in S : y <= x
  BY GreatestBelow
<1>2. S \subseteq Nat
  OBVIOUS
<1> QED BY <1>1, <1>2, MaxIs

(* s has the events that have begun what is open at the end of h: the      *)
(* last event up to each depth that h has not come back from.              *)
Tracks(h, s) ==
    /\ s \in Seq(1 .. Len(h))
    /\ Len(s) = Depth(h, Len(h))
    /\ \A i \in 0 .. Len(h) : Depth(h, i) >= 0
    /\ \A k \in 1 .. Len(s) : /\ h[s[k]].type \in StartType
                              /\ Depth(h, s[k]) = k
                              /\ \A y \in s[k] .. Len(h) : Depth(h, y) >= k

LEMMA InnermostOpen ==
    ASSUME NEW h \in History, NEW s, Tracks(h, s)
    PROVE  /\ s = <<>> => OpenBefore(h, Len(h) + 1) = {}
           /\ s # <<>> => /\ OpenBefore(h, Len(h) + 1) # {}
                          /\ Max(OpenBefore(h, Len(h) + 1)) = Last(s)
<1> DEFINE n == Len(h)
           O == OpenBefore(h, n + 1)
<1>1. n \in Nat /\ n + 1 \in Nat /\ Len(s) \in Nat /\ \A k \in 1 .. Len(s) : s[k] \in 1 .. n
  <2>1. h \in Seq(Stream!Event) /\ s \in Seq(1 .. n)
    BY DEF History, Tracks
  <2> QED BY <2>1, LenProperties, ElementOfSeq
<1>2. O = {x \in 1 .. n : /\ h[x].type \in StartType
                          /\ \A y \in x .. n : Depth(h, y) >= Depth(h, x)}
  <2>1. n + 1 - 1 = n
    BY <1>1
  <2> HIDE DEF n
  <2> QED BY <1>1, <2>1, OpenByDepth
<1>3. \A i \in 1 .. n : /\ i - 1 \in 0 .. n /\ Depth(h, i - 1) \in Nat
                        /\ h[i].type \in StartType => Depth(h, i - 1) = Depth(h, i) - 1
  <2> SUFFICES ASSUME NEW i \in 1 .. n
               PROVE  /\ i - 1 \in 0 .. n /\ Depth(h, i - 1) \in Nat
                      /\ h[i].type \in StartType => Depth(h, i - 1) = Depth(h, i) - 1
    OBVIOUS
  <2> DEFINE j == i - 1
  <2>1. j \in Nat /\ j + 1 = i /\ j \in 0 .. n
    BY <1>1
  <2> HIDE DEF j
  <2>2. Depth(h, j) \in Int /\ (h[j + 1].type \in StartType => Depth(h, j + 1) = Depth(h, j) + 1)
    BY <2>1, DepthGrows
  <2>3. Depth(h, j) >= 0
    BY <2>1 DEF Tracks
  <2>4. Depth(h, j) \in Nat /\ (h[i].type \in StartType => Depth(h, j) = Depth(h, i) - 1)
    BY <2>1, <2>2, <2>3
  <2> QED BY <2>1, <2>4 DEF j
<1>4. \A k \in 1 .. Len(s) : /\ s[k] \in O /\ Depth(h, s[k]) = k
                             /\ \A y \in s[k] .. n : Depth(h, y) >= k
  BY <1>1, <1>2 DEF Tracks
<1> HIDE DEF n, O
<1>5. ASSUME NEW x \in O
      PROVE  \E k \in 1 .. Len(s) : x = s[k]
  <2>1. /\ x \in 1 .. n /\ h[x].type \in StartType
        /\ \A y \in x .. n : Depth(h, y) >= Depth(h, x)
    BY <1>2
  <2> DEFINE k == Depth(h, x)
  <2>2. k \in Nat /\ k >= 1
    <3>1. Depth(h, x - 1) \in Nat /\ Depth(h, x - 1) = Depth(h, x) - 1
      BY <1>3, <2>1
    <3>2. Depth(h, x) \in Int
      <4>1. x \in Nat
        BY <2>1
      <4> QED BY <4>1, DepthGrows
    <3> QED BY <3>1, <3>2
  <2>3. k <= Len(s)
    <3>1. n \in x .. n
      BY <1>1, <2>1
    <3>2. Len(s) = Depth(h, n)
      BY DEF Tracks, n
    <3> QED BY <2>1, <3>1, <3>2
  <2>4. k \in 1 .. Len(s)
    BY <1>1, <2>2, <2>3
  <2>5. /\ s[k] \in 1 .. n /\ Depth(h, s[k]) = k /\ h[s[k]].type \in StartType
        /\ \A y \in s[k] .. n : Depth(h, y) >= k
        /\ \A y \in x .. n : Depth(h, y) >= k
    BY <1>1, <1>4, <2>1, <2>4 DEF Tracks
  <2>6. /\ Depth(h, x - 1) = k - 1
        /\ Depth(h, s[k] - 1) = k - 1
    BY <1>3, <2>1, <2>5
  <2> HIDE DEF k
  <2>7. CASE x < s[k]
    <3>1. s[k] - 1 \in x .. n
      BY <1>1, <2>1, <2>5, <2>7
    <3> QED BY <2>2, <2>5, <2>6, <3>1
  <2>8. CASE x > s[k]
    <3>1. x - 1 \in s[k] .. n
      BY <1>1, <2>1, <2>5, <2>8
    <3> QED BY <2>2, <2>5, <2>6, <3>1
  <2>9. x \in Nat /\ s[k] \in Nat
    BY <2>1, <2>5
  <2> QED BY <2>4, <2>7, <2>8, <2>9
<1>6. CASE s = <<>>
  <2>1. Len(s) = 0
    BY <1>6
  <2>2. O = {}
    BY <1>5, <2>1
  <2> QED BY <1>6, <2>2 DEF O, n
<1>7. CASE s # <<>>
  <2> DEFINE m == Len(s)
  <2>1. m \in 1 .. m
    <3>1. m # 0
      BY <1>7, EmptySeq DEF Tracks
    <3> QED BY <1>1, <3>1
  <2>2. Last(s) = s[m] /\ s[m] \in O /\ s[m] \in 1 .. n
    BY <1>1, <1>4, <2>1 DEF Last
  <2>3. ASSUME NEW x \in O PROVE x <= s[m]
    <3>1. PICK k \in 1 .. m : x = s[k]
      BY <1>5
    <3>2. CASE x > s[m]
      <4>1. k # m /\ k < m /\ k \in Nat /\ m \in Nat /\ x \in 1 .. n
        BY <1>1, <3>1, <3>2, <2>2
      <4>2. x - 1 \in s[m] .. n
        BY <1>1, <2>2, <3>2, <4>1
      <4>3. Depth(h, x - 1) >= m
        BY <1>4, <2>1, <4>2
      <4>4. Depth(h, x - 1) = k - 1
        BY <1>3, <1>4, <3>1, <4>1 DEF Tracks
      <4> QED BY <4>1, <4>3, <4>4
    <3>3. x \in Nat /\ s[m] \in Nat
      BY <1>1, <2>2, <3>1
    <3> QED BY <3>2, <3>3
  <2>4. O \subseteq Nat
    BY <1>2
  <2> HIDE DEF m
  <2>5. Max(O) = s[m]
    BY <2>2, <2>3, <2>4, MaxIs
  <2> QED BY <1>7, <2>2, <2>5 DEF O, n
<1> QED BY <1>6, <1>7

-----------------------------------------------------------------------------
(***************************************************************************)
(* A history and one event more: what is known of the events before it     *)
(* does not change.                                                        *)
(***************************************************************************)
Extends(g, h) ==
    /\ h \in History /\ g \in History
    /\ Len(g) = Len(h) + 1
    /\ \A i \in 1 .. Len(h) : g[i] = h[i]

LEMMA Appended ==
    ASSUME NEW h \in History, NEW e \in Stream!Event
    PROVE  Extends(Append(h, e), h) /\ Append(h, e)[Len(h) + 1] = e
<1>1. h \in Seq(Stream!Event)
  BY DEF History
<1>2. /\ Append(h, e) \in Seq(Stream!Event) /\ Len(Append(h, e)) = Len(h) + 1
      /\ \A i \in 1 .. Len(h) : Append(h, e)[i] = h[i]
      /\ Append(h, e)[Len(h) + 1] = e
  BY <1>1, AppendProperties
<1> QED BY <1>2 DEF Extends, History

LEMMA Lengths ==
    ASSUME NEW h \in History
    PROVE  Len(h) \in Nat /\ DOMAIN h = 1 .. Len(h) /\ \A i \in 1 .. Len(h) : h[i] \in Stream!Event
<1>1. h \in Seq(Stream!Event)
  BY DEF History
<1> QED BY <1>1, LenProperties, ElementOfSeq

LEMMA DepthSame ==
    ASSUME NEW g, NEW h, Extends(g, h), NEW i \in 0 .. Len(h)
    PROVE  Depth(g, i) = Depth(h, i)
<1>1. Len(h) \in Nat
  BY Lengths DEF Extends
<1>2. i \in Nat /\ \A j \in 1 .. i : g[j] = h[j]
  BY <1>1 DEF Extends
<1>3. Count(g, StartType, i) = Count(h, StartType, i) /\ Count(g, EndType, i) = Count(h, EndType, i)
  BY <1>2, CountSame
<1> QED BY <1>3 DEF Depth

LEMMA OpenSame ==
    ASSUME NEW g, NEW h, Extends(g, h), NEW e \in 1 .. Len(h) + 1
    PROVE  OpenBefore(g, e) = OpenBefore(h, e)
<1>1. Len(h) \in Nat
  BY Lengths DEF Extends
<1>2. \A x \in 1 .. e - 1 : g[x] = h[x] /\ \A y \in x .. e - 1 : Depth(g, y) = Depth(h, y)
  <2> SUFFICES ASSUME NEW x \in 1 .. e - 1
               PROVE  g[x] = h[x] /\ \A y \in x .. e - 1 : Depth(g, y) = Depth(h, y)
    OBVIOUS
  <2>1. x \in 1 .. Len(h) /\ \A y \in x .. e - 1 : y \in 0 .. Len(h)
    BY <1>1
  <2> QED BY <2>1, DepthSame DEF Extends
<1>3. \A x \in 1 .. e - 1 : x \in x .. e - 1
  OBVIOUS
<1>4. e \in Nat
  BY <1>1
<1>5. OpenBefore(g, e) = {x \in 1 .. e - 1 : /\ g[x].type \in StartType
                                             /\ \A y \in x .. e - 1 : Depth(g, y) >= Depth(g, x)}
  BY <1>4, OpenByDepth
<1>6. OpenBefore(h, e) = {x \in 1 .. e - 1 : /\ h[x].type \in StartType
                                             /\ \A y \in x .. e - 1 : Depth(h, y) >= Depth(h, x)}
  BY <1>4, OpenByDepth
<1> QED BY <1>2, <1>3, <1>5, <1>6

(* Events have finite sets, and numbers that grow with them. *)
LEMMA PartIsFinite ==
    ASSUME NEW h \in History, NEW S, S \subseteq 1 .. Len(h)
    PROVE  IsFiniteSet(S) /\ Cardinality(S) \in Nat
<1>1. IsFiniteSet(1 .. Len(h))
  BY Lengths, FS_Interval
<1> QED BY <1>1, FS_Subset, FS_CardinalityType

LEMMA Numbers ==
    ASSUME NEW h \in History
    PROVE  /\ Creating(h) \subseteq 1 .. Len(h) /\ Cardinality(Creating(h)) \in Nat
           /\ \A x \in Creating(h) : Number(h, x) \in 1 .. Cardinality(Creating(h))
           /\ \A x, y \in Creating(h) : Number(h, x) = Number(h, y) => x = y
<1> DEFINE C == Creating(h)
           below(x) == {z \in C : z <= x}
<1>1. C \subseteq 1 .. Len(h) /\ Len(h) \in Nat
  BY Lengths DEF Creating
<1> HIDE DEF C
<1>2. IsFiniteSet(C) /\ Cardinality(C) \in Nat
  BY <1>1, PartIsFinite
<1>3. \A x \in C : IsFiniteSet(below(x)) /\ Cardinality(below(x)) \in Nat
  <2> SUFFICES ASSUME NEW x \in C PROVE IsFiniteSet(below(x)) /\ Cardinality(below(x)) \in Nat
    OBVIOUS
  <2>1. below(x) \subseteq 1 .. Len(h)
    BY <1>1
  <2> HIDE DEF below
  <2> QED BY <2>1, PartIsFinite
<1>4. ASSUME NEW x \in C PROVE Cardinality(below(x)) \in 1 .. Cardinality(C)
  <2>1. below(x) \subseteq C /\ x \in below(x)
    BY <1>1
  <2> HIDE DEF below
  <2>2. Cardinality(below(x)) <= Cardinality(C)
    BY <1>2, <2>1, FS_Subset
  <2>3. Cardinality(below(x)) # 0
    BY <1>3, <2>1, FS_EmptySet
  <2> QED BY <1>2, <1>3, <2>2, <2>3
<1>5. ASSUME NEW x \in C, NEW y \in C, x < y PROVE Cardinality(below(x)) # Cardinality(below(y))
  <2>1. \A z \in C : z \in Nat
    BY <1>1
  <2>2. \A z \in C : z <= x => z <= y
    BY <1>5, <2>1
  <2>3. y <= y /\ ~(y <= x)
    BY <1>5, <2>1
  <2>4. below(x) \subseteq below(y) /\ y \in below(y) /\ y \notin below(x)
    BY <2>2, <2>3
  <2> HIDE DEF below
  <2> QED BY <1>3, <2>4, FS_Subset
<1>6. ASSUME NEW x \in C, NEW y \in C, Cardinality(below(x)) = Cardinality(below(y)) PROVE x = y
  <2>1. x \in Nat /\ y \in Nat
    BY <1>1
  <2>2. ~(x < y) /\ ~(y < x)
    BY <1>5, <1>6
  <2> QED BY <2>1, <2>2
<1>7. \A x : Number(h, x) = Cardinality(below(x))
  BY DEF Number, C
<1> HIDE DEF below
<1> QED BY <1>1, <1>2, <1>4, <1>6, <1>7 DEF C

LEMMA CreatingGrows ==
    ASSUME NEW g, NEW h, Extends(g, h)
    PROVE  LET n == Len(h)
           IN  /\ \A i \in 1 .. n : Number(g, i) = Number(h, i)
               /\ g[n + 1].type \notin CreatingType => Creating(g) = Creating(h)
               /\ g[n + 1].type \in CreatingType =>
                     /\ Creating(g) = Creating(h) \cup {n + 1}
                     /\ Cardinality(Creating(g)) = Cardinality(Creating(h)) + 1
                     /\ Number(g, n + 1) = Cardinality(Creating(h)) + 1
<1> DEFINE n == Len(h)
<1>1. n \in Nat /\ DOMAIN h = 1 .. n /\ DOMAIN g = 1 .. n + 1 /\ n + 1 \notin 1 .. n
      /\ \A i \in 1 .. n : g[i] = h[i]
  BY Lengths DEF Extends
<1> HIDE DEF n
<1>2. /\ Creating(h) \subseteq 1 .. n /\ IsFiniteSet(Creating(h)) /\ Cardinality(Creating(h)) \in Nat
  BY Numbers, PartIsFinite DEF Extends, n
<1>3. ASSUME NEW i \in 1 .. n PROVE {x \in Creating(g) : x <= i} = {x \in Creating(h) : x <= i}
  BY <1>1 DEF Creating
<1>4. ASSUME g[n + 1].type \notin CreatingType PROVE Creating(g) = Creating(h)
  BY <1>1, <1>4 DEF Creating
<1>5. ASSUME g[n + 1].type \in CreatingType
      PROVE  /\ Creating(g) = Creating(h) \cup {n + 1} /\ n + 1 \notin Creating(h)
             /\ {x \in Creating(g) : x <= n + 1} = Creating(h) \cup {n + 1}
  <2>1. Creating(g) = Creating(h) \cup {n + 1}
    BY <1>1, <1>5 DEF Creating
  <2> QED BY <1>1, <1>2, <2>1
<1>6. ASSUME g[n + 1].type \in CreatingType
      PROVE  Cardinality(Creating(h) \cup {n + 1}) = Cardinality(Creating(h)) + 1
  BY <1>2, <1>5, <1>6, FS_AddElement
<1>7. /\ \A i \in 1 .. n : Number(g, i) = Number(h, i)
      /\ g[n + 1].type \in CreatingType => Number(g, n + 1) = Cardinality(Creating(h)) + 1
  BY <1>3, <1>5, <1>6 DEF Number
<1> QED BY <1>4, <1>5, <1>6, <1>7 DEF n

(* An alias keeps its definitions, and what they mean. *)
AliasesDefined(h) ==
    \A e \in 1 .. Len(h) : h[e].type = "ALIAS" => Definitions(h, e) # {}

LEMMA DefinitionsSame ==
    ASSUME NEW g, NEW h, Extends(g, h), NEW e \in 1 .. Len(h)
    PROVE  Definitions(g, e) = Definitions(h, e)
<1> DEFINE n == Len(h)
<1>1. n \in Nat /\ DOMAIN h = 1 .. n /\ DOMAIN g = 1 .. n + 1
      /\ \A i \in 1 .. n : g[i] = h[i]
  BY Lengths DEF Extends
<1> HIDE DEF n
<1>2. e \in 1 .. n
  BY DEF n
<1>3. \A x \in 1 .. n + 1 : x < e => /\ x \in 1 .. n /\ g[x] = h[x] /\ g[e] = h[e]
                                     /\ \A y \in x .. e : y \in 1 .. n /\ g[y] = h[y]
  BY <1>1, <1>2
<1> QED BY <1>1, <1>3 DEF Definitions, Creating

LEMMA MeaningSame ==
    ASSUME NEW g, NEW h, Extends(g, h), AliasesDefined(h), NEW e \in 1 .. Len(h)
    PROVE  Meaning(g, e) = Meaning(h, e)
<1>1. Definitions(g, e) = Definitions(h, e) /\ g[e] = h[e]
  BY DefinitionsSame DEF Extends
<1>2. Number(g, e) = Number(h, e)
  BY CreatingGrows
<1>3. ASSUME h[e].type = "ALIAS"
      PROVE  Number(g, Max(Definitions(h, e))) = Number(h, Max(Definitions(h, e)))
  <2>1. Definitions(h, e) # {} /\ Definitions(h, e) \subseteq 1 .. Len(h) /\ Len(h) \in Nat
    BY <1>3, Lengths DEF AliasesDefined, Definitions, Creating, Extends
  <2>2. Definitions(h, e) \subseteq 0 .. Len(h)
    BY <2>1
  <2>3. Max(Definitions(h, e)) \in 1 .. Len(h)
    BY <2>1, <2>2, MaxIn
  <2> QED BY <2>3, CreatingGrows
<1> QED BY <1>1, <1>2, <1>3 DEF Meaning

(* Only the collection open last has an item more. *)
LEMMA ItemsGrow ==
    ASSUME NEW g, NEW h, Extends(g, h), NEW x
    PROVE  LET n == Len(h)
               O == OpenBefore(h, n + 1)
           IN  /\ g[n + 1].type \in ItemType /\ O # {} /\ Max(O) = x
                     => Items(g, x) = Items(h, x) \cup {n + 1}
               /\ ~(g[n + 1].type \in ItemType /\ O # {} /\ Max(O) = x) => Items(g, x) = Items(h, x)
               /\ Items(h, x) \subseteq 1 .. n
<1> DEFINE n == Len(h)
           Item(f, e) == /\ f[e].type \in ItemType /\ OpenBefore(f, e) # {}
                         /\ Max(OpenBefore(f, e)) = x
<1>1. n \in Nat /\ DOMAIN h = 1 .. n /\ DOMAIN g = 1 .. n + 1
      /\ \A i \in 1 .. n : g[i] = h[i]
  BY Lengths DEF Extends
<1>2. \A e \in 1 .. n + 1 : OpenBefore(g, e) = OpenBefore(h, e)
  BY OpenSame
<1> HIDE DEF n
<1>3. \A e \in 1 .. n : e \in 1 .. n + 1 /\ (Item(g, e) <=> Item(h, e))
  <2>1. \A e \in 1 .. n : e \in 1 .. n + 1
    BY <1>1
  <2> QED BY <1>1, <1>2, <2>1
<1>4. Item(g, n + 1) <=> /\ g[n + 1].type \in ItemType /\ OpenBefore(h, n + 1) # {}
                         /\ Max(OpenBefore(h, n + 1)) = x
  <2>1. n + 1 \in 1 .. n + 1
    BY <1>1
  <2> QED BY <1>2, <2>1
<1>5. Items(g, x) = {e \in 1 .. n + 1 : Item(g, e)} /\ Items(h, x) = {e \in 1 .. n : Item(h, e)}
  BY <1>1 DEF Items
<1> HIDE DEF Item
<1>6. \A e \in 1 .. n + 1 : e \in 1 .. n \/ e = n + 1
  BY <1>1
<1>7. n + 1 \in 1 .. n + 1
  BY <1>1
<1>8. CASE Item(g, n + 1)
  <2>1. Items(g, x) = Items(h, x) \cup {n + 1}
    BY <1>3, <1>5, <1>6, <1>7, <1>8
  <2> QED BY <1>4, <1>5, <1>8, <2>1 DEF n
<1>9. CASE ~Item(g, n + 1)
  <2>1. Items(g, x) = Items(h, x)
    BY <1>3, <1>5, <1>6, <1>9
  <2> QED BY <1>4, <1>5, <1>9, <2>1 DEF n
<1> QED BY <1>8, <1>9

(* What an event begins has no items yet. *)
LEMMA NoItems ==
    ASSUME NEW g \in History, NEW x, x = Len(g)
    PROVE  Items(g, x) = {}
<1>1. Len(g) \in Nat /\ DOMAIN g = 1 .. Len(g)
  BY Lengths
<1>2. ASSUME NEW e \in 1 .. Len(g), OpenBefore(g, e) # {}
      PROVE  Max(OpenBefore(g, e)) # x
  <2>1. OpenBefore(g, e) \subseteq 1 .. e - 1
    BY DEF OpenBefore
  <2>2. OpenBefore(g, e) \subseteq 0 .. e /\ e \in Nat
    BY <1>1, <2>1
  <2>3. Max(OpenBefore(g, e)) \in 1 .. e - 1
    BY <1>2, <2>1, <2>2, MaxIn
  <2> QED BY <1>1, <2>3
<1> QED BY <1>1, <1>2 DEF Items

-----------------------------------------------------------------------------
(***************************************************************************)
(* Nodes and what the events say of them.                                  *)
(***************************************************************************)
(* What is built of x is still what the events say, if x got no item.      *)
LEMMA BuiltStays ==
    ASSUME NEW g, NEW h, Extends(g, h), AliasesDefined(h), NEW x \in 1 .. Len(h),
           Items(g, x) = Items(h, x), NEW node, BuiltFrom(h, x, node)
    PROVE  BuiltFrom(g, x, node)
<1>1. Items(h, x) \subseteq 1 .. Len(h) /\ g[x] = h[x]
  BY ItemsGrow DEF Extends
<1>2. \A e \in Items(h, x) : Meaning(g, e) = Meaning(h, e)
  BY <1>1, MeaningSame
<1> QED BY <1>1, <1>2, Zenon DEF BuiltFrom

(* An item more is a node more among those of the collection.              *)
LEMMA BuiltGrows ==
    ASSUME NEW g, NEW h, Extends(g, h), AliasesDefined(h), NEW x \in 1 .. Len(h),
           Items(g, x) = Items(h, x) \cup {Len(h) + 1},
           NEW S, NEW node, NEW d, SubNodes(node) \in Seq(S), Meaning(g, Len(h) + 1) \in S,
           SubNodes(d) = Append(SubNodes(node), Meaning(g, Len(h) + 1)),
           d.kind = node.kind, BuiltFrom(h, x, node)
    PROVE  BuiltFrom(g, x, d)
<1> DEFINE n == Len(h)
           I == Items(h, x)
           J == Items(g, x)
           s == SubNodes(node)
           t == SubNodes(d)
           last == Meaning(g, n + 1)
<1>1. I \subseteq 1 .. n /\ g[x] = h[x] /\ n \in Nat /\ h \in History /\ g \in History
      /\ Len(g) = n + 1 /\ J = I \cup {n + 1}
  BY ItemsGrow, Lengths DEF Extends
<1>2. \A e \in I : Meaning(g, e) = Meaning(h, e)
  BY <1>1, MeaningSame
<1>3. /\ node.kind = KindOf(h[x].type)
      /\ Len(s) = Cardinality(I)
      /\ \A e \in I : s[Place(e, I)] = Meaning(h, e)
  BY DEF BuiltFrom
<1>4. /\ Len(s) \in Nat /\ Len(t) = Len(s) + 1 /\ t[Len(s) + 1] = last
      /\ \A i \in 1 .. Len(s) : t[i] = s[i]
  BY AppendProperties, LenProperties
<1>5. SUFFICES /\ d.kind = KindOf(g[x].type)
               /\ Len(t) = Cardinality(J)
               /\ \A e \in J : t[Place(e, J)] = Meaning(g, e)
  BY Zenon DEF BuiltFrom
<1> HIDE DEF n, I, J, s, t, last
<1>6. IsFiniteSet(I) /\ Cardinality(I) \in Nat
  <2>1. I \subseteq 1 .. Len(h)
    BY <1>1 DEF n
  <2> QED BY <1>1, <2>1, PartIsFinite
<1>7. Cardinality(J) = Cardinality(I) + 1
  <2>1. n + 1 \notin I
    BY <1>1
  <2> QED BY <1>1, <1>6, <2>1, FS_AddElement
<1>8. ASSUME NEW e \in I
      PROVE  Place(e, J) = Place(e, I) /\ Place(e, I) \in 1 .. Cardinality(I)
  <2> DEFINE B == {y \in I : y <= e}
  <2>1. {y \in J : y <= e} = B /\ e \in B /\ B \subseteq I
    BY <1>1
  <2>2. Place(e, J) = Cardinality(B) /\ Place(e, I) = Cardinality(B)
    BY <2>1 DEF Place
  <2> HIDE DEF B
  <2>3. IsFiniteSet(B) /\ Cardinality(B) <= Cardinality(I)
    BY <1>6, <2>1, FS_Subset
  <2>4. Cardinality(B) \in Nat /\ Cardinality(B) # 0
    BY <2>1, <2>3, FS_CardinalityType, FS_EmptySet
  <2> QED BY <1>6, <2>2, <2>3, <2>4
<1>9. Place(n + 1, J) = Cardinality(I) + 1
  <2>1. \A y \in I \cup {n + 1} : y <= n + 1
    BY <1>1
  <2>2. {y \in J : y <= n + 1} = J
    BY <1>1, <2>1
  <2> QED BY <1>7, <2>2 DEF Place
<1>10. \A e \in I : t[Place(e, J)] = Meaning(g, e)
  BY <1>2, <1>3, <1>4, <1>8
<1>11. t[Place(n + 1, J)] = Meaning(g, n + 1)
  BY <1>3, <1>4, <1>9 DEF last
<1>12. Len(t) = Cardinality(J)
  BY <1>3, <1>4, <1>7
<1> QED BY <1>1, <1>3, <1>10, <1>11, <1>12

(* A new node is all of what its event says. *)
LEMMA BuiltNew ==
    ASSUME NEW g \in History, NEW x, x = Len(g), NEW node, node.kind = KindOf(g[x].type),
           node.children = <<>>, node.nextKey = NoKey
    PROVE  BuiltFrom(g, x, node)
<1>1. Items(g, x) = {}
  BY NoItems
<1>2. SubNodes(node) = <<>>
  BY DEF SubNodes
<1>3. Len(<<>>) = 0 /\ Cardinality({}) = 0
  BY EmptySeq, FS_EmptySet
<1> QED BY <1>1, <1>2, <1>3, Zenon DEF BuiltFrom

(* Only mappings wait for a value. *)
Keyless(node) == node.kind # "YMapping" => node.nextKey = NoKey

(* YNode.Add appends to the nodes of the parent, whatever its class. *)
LEMMA AdoptAppends ==
    ASSUME NEW n \in Nat, NEW parent \in NodeIn(n), NEW child \in 1 .. n, Keyless(parent),
           NEW construct \in Stream!Construct \ {"docEnd"}, BuiltAs(construct, parent)
    PROVE  /\ SubNodes(parent) \in Seq(1 .. n)
           /\ SubNodes(Adopt(parent, child)) = Append(SubNodes(parent), child)
           /\ Keyless(Adopt(parent, child))
<1>1. /\ parent = [kind |-> parent.kind, text |-> parent.text,
                   children |-> parent.children, nextKey |-> parent.nextKey]
      /\ parent.children \in Seq(1 .. n) /\ parent.nextKey \in 0 .. n
      /\ child # NoKey
  BY DEF NodeIn, NoKey
<1>2. CASE parent.kind = "YDocument"
  <2>1. parent.children = <<>> /\ parent.nextKey = NoKey
    BY <1>2 DEF BuiltAs, Stream!Construct, Keyless
  <2>2. Adopt(parent, child) = [parent EXCEPT !.children = <<child>>]
    BY <1>2 DEF Adopt
  <2>3. /\ Adopt(parent, child).children = <<child>> /\ Adopt(parent, child).nextKey = NoKey
    BY <1>1, <2>1, <2>2
  <2>4. <<child>> = Append(<<>>, child)
    OBVIOUS
  <2> QED BY <1>1, <2>1, <2>3, <2>4 DEF SubNodes, Keyless
<1>3. CASE parent.kind = "YSequence"
  <2>1. parent.nextKey = NoKey
    BY <1>3 DEF Keyless
  <2>2. Adopt(parent, child) = [parent EXCEPT !.children = Append(parent.children, child)]
    BY <1>3 DEF Adopt
  <2>3. /\ Adopt(parent, child).children = Append(parent.children, child)
        /\ Adopt(parent, child).nextKey = NoKey
    BY <1>1, <2>1, <2>2
  <2> QED BY <1>1, <2>1, <2>3 DEF SubNodes, Keyless
<1>4. CASE parent.kind = "YMapping" /\ parent.nextKey = NoKey
  <2>1. Adopt(parent, child) = [parent EXCEPT !.nextKey = child]
    BY <1>4 DEF Adopt
  <2>2. /\ Adopt(parent, child).children = parent.children
        /\ Adopt(parent, child).nextKey = child
        /\ Adopt(parent, child).kind = "YMapping"
    BY <1>1, <1>4, <2>1
  <2> QED BY <1>1, <1>4, <2>2 DEF SubNodes, Keyless
<1>5. CASE parent.kind = "YMapping" /\ parent.nextKey # NoKey
  <2> DEFINE s == parent.children
             key == parent.nextKey
  <2>1. Adopt(parent, child) = [parent EXCEPT !.children = s \o <<key, child>>, !.nextKey = NoKey]
    BY <1>5 DEF Adopt
  <2>2. /\ Adopt(parent, child).children = s \o <<key, child>>
        /\ Adopt(parent, child).nextKey = NoKey
        /\ Adopt(parent, child).kind = "YMapping"
    BY <1>1, <1>5, <2>1
  <2>3. s \in Seq(1 .. n) /\ key \in 1 .. n
    BY <1>1, <1>5 DEF NoKey
  <2> HIDE DEF s, key
  <2>4. s \o <<key, child>> = Append(Append(s, key), child) /\ Append(s, key) \in Seq(1 .. n)
    BY <2>3
  <2> QED BY <1>5, <2>2, <2>4 DEF SubNodes, Keyless, s, key
<1>6. parent.kind \in {"YDocument", "YSequence", "YMapping"}
  BY DEF BuiltAs, Stream!Construct
<1>7. SubNodes(parent) \in Seq(1 .. n)
  <2>1. CASE parent.nextKey = NoKey
    BY <1>1, <2>1 DEF SubNodes
  <2>2. CASE parent.nextKey # NoKey
    <3>1. parent.nextKey \in 1 .. n
      BY <1>1, <2>2 DEF NoKey
    <3> QED BY <1>1, <2>2, <3>1, AppendProperties DEF SubNodes
  <2> QED BY <2>1, <2>2
<1> QED BY <1>2, <1>3, <1>4, <1>5, <1>6, <1>7

-----------------------------------------------------------------------------
(***************************************************************************)
(* What is open, and what anchors stand for, as the history grows.         *)
(***************************************************************************)
LEMMA DepthAfter ==
    ASSUME NEW g, NEW h, Extends(g, h)
    PROVE  LET n == Len(h)
           IN  /\ \A i \in 0 .. n : Depth(g, i) = Depth(h, i) /\ Depth(h, i) \in Int
               /\ \A i \in 0 .. n + 1 : i \in 0 .. n \/ i = n + 1
               /\ g[n + 1].type \in StartType => Depth(g, n + 1) = Depth(h, n) + 1
               /\ g[n + 1].type \in EndType => Depth(g, n + 1) = Depth(h, n) - 1
               /\ g[n + 1].type \notin StartType \cup EndType => Depth(g, n + 1) = Depth(h, n)
<1>1. Len(h) \in Nat
  BY Lengths DEF Extends
<1>2. \A i \in 0 .. Len(h) : Depth(g, i) = Depth(h, i) /\ Depth(h, i) \in Int
  <2>1. \A i \in 0 .. Len(h) : i \in Nat
    BY <1>1
  <2> QED BY <2>1, DepthSame, DepthGrows
<1>3. \A i \in 0 .. Len(h) + 1 : i \in 0 .. Len(h) \/ i = Len(h) + 1
  BY <1>1
<1>4. Len(h) \in 0 .. Len(h)
  BY <1>1
<1> QED BY <1>1, <1>2, <1>3, <1>4, DepthGrows

LEMMA TracksTyped ==
    ASSUME NEW h \in History, NEW s, Tracks(h, s)
    PROVE  /\ s \in Seq(1 .. Len(h)) /\ Len(s) \in Nat /\ Len(h) \in Nat
           /\ \A k \in 1 .. Len(s) : s[k] \in 1 .. Len(h)
           /\ \A m \in Nat : Len(h) <= m => s \in Seq(1 .. m)
<1>1. s \in Seq(1 .. Len(h)) /\ Len(h) \in Nat
  BY Lengths DEF Tracks
<1>2. \A k \in 1 .. Len(s) : s[k] \in 1 .. Len(h)
  BY <1>1, ElementOfSeq
<1> QED BY <1>1, <1>2, LenProperties, NodeInGrows

LEMMA TracksStays ==
    ASSUME NEW g, NEW h, Extends(g, h), NEW s, Tracks(h, s),
           g[Len(h) + 1].type \notin StartType \cup EndType
    PROVE  Tracks(g, s)
<1> DEFINE n == Len(h)
<1>1. /\ Len(g) = n + 1 /\ n \in Nat /\ s \in Seq(1 .. n + 1) /\ Len(s) \in Nat
      /\ \A k \in 1 .. Len(s) : s[k] \in 1 .. n
      /\ \A i \in 1 .. n : g[i] = h[i]
  <2>1. Len(h) \in Nat /\ Len(h) + 1 \in Nat /\ Len(h) <= Len(h) + 1
    BY Lengths DEF Extends
  <2> QED BY <2>1, TracksTyped DEF Extends
<1>2. /\ Len(s) = Depth(h, n)
      /\ \A i \in 0 .. n : Depth(h, i) >= 0
      /\ \A k \in 1 .. Len(s) : /\ h[s[k]].type \in StartType /\ Depth(h, s[k]) = k
                                /\ \A y \in s[k] .. n : Depth(h, y) >= k
  BY DEF Tracks
<1>3. /\ \A i \in 0 .. n : Depth(g, i) = Depth(h, i) /\ Depth(h, i) \in Int
      /\ \A i \in 0 .. n + 1 : i \in 0 .. n \/ i = n + 1
      /\ Depth(g, n + 1) = Depth(h, n)
  BY DepthAfter
<1> HIDE DEF n
<1>4. n \in 0 .. n
  BY <1>1
<1>5. \A i \in 0 .. n + 1 : Depth(g, i) >= 0
  BY <1>2, <1>3, <1>4
<1>6. ASSUME NEW k \in 1 .. Len(s)
      PROVE  /\ g[s[k]].type \in StartType /\ Depth(g, s[k]) = k
             /\ \A y \in s[k] .. n + 1 : Depth(g, y) >= k
  <2>1. s[k] \in 1 .. n /\ s[k] \in 0 .. n /\ n \in s[k] .. n
    BY <1>1
  <2>2. g[s[k]].type \in StartType /\ Depth(g, s[k]) = k
    BY <1>1, <1>2, <1>3, <2>1
  <2>3. \A y \in s[k] .. n + 1 : y = n + 1 \/ (y \in s[k] .. n /\ y \in 0 .. n)
    BY <1>1, <2>1
  <2>4. \A y \in s[k] .. n + 1 : Depth(g, y) >= k
    BY <1>2, <1>3, <2>1, <2>3
  <2> QED BY <2>2, <2>4
<1> QED BY <1>1, <1>2, <1>3, <1>5, <1>6 DEF Tracks

LEMMA TracksPush ==
    ASSUME NEW g, NEW h, Extends(g, h), NEW s, Tracks(h, s), g[Len(h) + 1].type \in StartType
    PROVE  Tracks(g, Append(s, Len(h) + 1))
<1> DEFINE n == Len(h)
           m == Len(s)
           t == Append(s, n + 1)
<1>1. /\ Len(g) = n + 1 /\ n \in Nat /\ s \in Seq(1 .. n + 1) /\ m \in Nat
      /\ \A k \in 1 .. m : s[k] \in 1 .. n
      /\ \A i \in 1 .. n : g[i] = h[i]
  <2>1. Len(h) \in Nat /\ Len(h) + 1 \in Nat /\ Len(h) <= Len(h) + 1
    BY Lengths DEF Extends
  <2> QED BY <2>1, TracksTyped DEF Extends
<1>2. /\ m = Depth(h, n)
      /\ \A i \in 0 .. n : Depth(h, i) >= 0
      /\ \A k \in 1 .. m : /\ h[s[k]].type \in StartType /\ Depth(h, s[k]) = k
                           /\ \A y \in s[k] .. n : Depth(h, y) >= k
  BY DEF Tracks
<1>3. /\ \A i \in 0 .. n : Depth(g, i) = Depth(h, i) /\ Depth(h, i) \in Int
      /\ \A i \in 0 .. n + 1 : i \in 0 .. n \/ i = n + 1
      /\ Depth(g, n + 1) = Depth(h, n) + 1
  BY DepthAfter
<1>4. n \in 0 .. n /\ n + 1 \in 1 .. n + 1
  BY <1>1
<1>5. /\ t \in Seq(1 .. n + 1) /\ Len(t) = m + 1 /\ t[m + 1] = n + 1
      /\ \A k \in 1 .. m : t[k] = s[k]
  BY <1>1, <1>4, AppendProperties
<1>6. g[n + 1].type \in StartType
  OBVIOUS
<1> HIDE DEF n, m, t
<1>7. Depth(g, n + 1) = m + 1
  BY <1>2, <1>3
<1>8. \A i \in 0 .. n + 1 : Depth(g, i) >= 0
  BY <1>1, <1>2, <1>3, <1>4, <1>7
<1>9. ASSUME NEW k \in 1 .. m
      PROVE  /\ g[s[k]].type \in StartType /\ Depth(g, s[k]) = k
             /\ \A y \in s[k] .. n + 1 : Depth(g, y) >= k
  <2>1. s[k] \in 1 .. n /\ s[k] \in 0 .. n /\ m + 1 >= k
    BY <1>1
  <2>2. g[s[k]].type \in StartType /\ Depth(g, s[k]) = k
    BY <1>1, <1>2, <1>3, <2>1
  <2>3. \A y \in s[k] .. n + 1 : y = n + 1 \/ (y \in s[k] .. n /\ y \in 0 .. n)
    BY <1>1, <2>1
  <2>4. \A y \in s[k] .. n + 1 : Depth(g, y) >= k
    BY <1>2, <1>3, <1>7, <2>1, <2>3
  <2> QED BY <2>2, <2>4
<1>10. \A y \in n + 1 .. n + 1 : y = n + 1 /\ Depth(g, y) >= m + 1
  BY <1>1, <1>7
<1>11. \A k \in 1 .. m + 1 : k \in 1 .. m \/ k = m + 1
  BY <1>1
<1>12. \A k \in 1 .. Len(t) : /\ g[t[k]].type \in StartType /\ Depth(g, t[k]) = k
                              /\ \A y \in t[k] .. Len(g) : Depth(g, y) >= k
  <2> SUFFICES ASSUME NEW k \in 1 .. m + 1
               PROVE  /\ g[t[k]].type \in StartType /\ Depth(g, t[k]) = k
                      /\ \A y \in t[k] .. n + 1 : Depth(g, y) >= k
    BY <1>1, <1>5
  <2>1. CASE k \in 1 .. m
    BY <1>5, <1>9, <2>1
  <2>2. CASE k = m + 1
    BY <1>5, <1>6, <1>7, <1>10, <2>2
  <2> QED BY <1>11, <2>1, <2>2
<1>13. Tracks(g, t)
  BY <1>1, <1>5, <1>7, <1>8, <1>12 DEF Tracks
<1> QED BY <1>13 DEF t, n

LEMMA TracksPop ==
    ASSUME NEW g, NEW h, Extends(g, h), NEW s, Tracks(h, s), s # <<>>,
           g[Len(h) + 1].type \in EndType
    PROVE  /\ Tracks(g, Front(s)) /\ Len(Front(s)) = Len(s) - 1
           /\ \A k \in 1 .. Len(s) - 1 : Front(s)[k] = s[k]
<1> DEFINE n == Len(h)
           m == Len(s)
           t == Front(s)
<1>1. /\ Len(g) = n + 1 /\ n \in Nat /\ s \in Seq(1 .. n + 1) /\ m \in Nat
      /\ \A k \in 1 .. m : s[k] \in 1 .. n
      /\ \A i \in 1 .. n : g[i] = h[i]
  <2>1. Len(h) \in Nat /\ Len(h) + 1 \in Nat /\ Len(h) <= Len(h) + 1
    BY Lengths DEF Extends
  <2> QED BY <2>1, TracksTyped DEF Extends
<1>2. /\ m = Depth(h, n)
      /\ \A i \in 0 .. n : Depth(h, i) >= 0
      /\ \A k \in 1 .. m : /\ h[s[k]].type \in StartType /\ Depth(h, s[k]) = k
                           /\ \A y \in s[k] .. n : Depth(h, y) >= k
  BY DEF Tracks
<1>3. /\ \A i \in 0 .. n : Depth(g, i) = Depth(h, i) /\ Depth(h, i) \in Int
      /\ \A i \in 0 .. n + 1 : i \in 0 .. n \/ i = n + 1
      /\ Depth(g, n + 1) = Depth(h, n) - 1
  BY DepthAfter
<1>4. n \in 0 .. n
  BY <1>1
<1>5. /\ t \in Seq(1 .. n + 1) /\ Len(t) = m - 1 /\ m >= 1
      /\ \A k \in 1 .. m - 1 : t[k] = s[k]
  BY <1>1, FrontProperties
<1> HIDE DEF n, m, t
<1>6. Depth(g, n + 1) = m - 1 /\ Depth(g, n + 1) >= 0
  BY <1>2, <1>3, <1>5
<1>7. \A i \in 0 .. n + 1 : Depth(g, i) >= 0
  BY <1>2, <1>3, <1>6
<1>8. ASSUME NEW k \in 1 .. m - 1
      PROVE  /\ g[t[k]].type \in StartType /\ Depth(g, t[k]) = k
             /\ \A y \in t[k] .. n + 1 : Depth(g, y) >= k
  <2>1. k \in 1 .. m /\ m - 1 >= k
    BY <1>1
  <2>2. s[k] \in 1 .. n /\ s[k] \in 0 .. n
    BY <1>1, <2>1
  <2>3. g[s[k]].type \in StartType /\ Depth(g, s[k]) = k
    BY <1>1, <1>2, <1>3, <2>1, <2>2
  <2>4. \A y \in s[k] .. n + 1 : y = n + 1 \/ (y \in s[k] .. n /\ y \in 0 .. n)
    BY <1>1, <2>2
  <2>5. \A y \in s[k] .. n + 1 : Depth(g, y) >= k
    BY <1>2, <1>3, <1>6, <2>1, <2>4
  <2>6. t[k] = s[k]
    BY <1>5
  <2> QED BY <2>3, <2>5, <2>6
<1>9. Tracks(g, t)
  BY <1>1, <1>5, <1>6, <1>7, <1>8 DEF Tracks
<1> QED BY <1>5, <1>9 DEF t, m

(* The events that gave a the node it stands for, or one before it.        *)
Known(h, a) ==
    {x \in Creating(h) : /\ h[x].anchor = a
                         /\ \A y \in x .. Len(h) : h[y].type # "DOCUMENT-START"}

LEMMA KnownGrows ==
    ASSUME NEW g, NEW h, Extends(g, h), NEW a
    PROVE  LET n == Len(h)
               e == g[n + 1]
           IN  /\ Known(h, a) \subseteq 1 .. n
               /\ e.type = "DOCUMENT-START" => Known(g, a) = {}
               /\ e.type \notin CreatingType => Known(g, a) = Known(h, a)
               /\ e.type \in CreatingType \ {"DOCUMENT-START"} /\ e.anchor # a
                     => Known(g, a) = Known(h, a)
               /\ e.type \in CreatingType \ {"DOCUMENT-START"} /\ e.anchor = a
                     => Known(g, a) # {} /\ Max(Known(g, a)) = n + 1
               /\ e.type = "ALIAS" /\ e.anchor = a => Definitions(g, n + 1) = Known(h, a)
<1> DEFINE n == Len(h)
           e == g[n + 1]
<1>1. n \in Nat /\ DOMAIN h = 1 .. n /\ DOMAIN g = 1 .. n + 1 /\ Len(g) = n + 1
      /\ \A i \in 1 .. n : g[i] = h[i]
  BY Lengths DEF Extends
<1> HIDE DEF n
<1>2. /\ \A x \in 1 .. n : /\ x \in 1 .. n + 1 /\ x < n + 1 /\ n + 1 \in x .. n + 1
                           /\ \A y \in x .. n : y \in x .. n + 1 /\ g[y] = h[y]
                           /\ \A y \in x .. n + 1 : y = n + 1 \/ y \in x .. n
      /\ \A x \in 1 .. n + 1 : n + 1 \in x .. n + 1 /\ (x \in 1 .. n \/ x = n + 1)
      /\ \A y \in n + 1 .. n + 1 : y = n + 1
      /\ n + 1 \in 1 .. n + 1 /\ ~(n + 1 < n + 1)
  BY <1>1
<1>3. /\ Known(g, a) = {x \in 1 .. n + 1 : /\ g[x].type \in CreatingType /\ g[x].anchor = a
                                           /\ \A y \in x .. n + 1 : g[y].type # "DOCUMENT-START"}
      /\ Known(h, a) = {x \in 1 .. n : /\ h[x].type \in CreatingType /\ h[x].anchor = a
                                       /\ \A y \in x .. n : h[y].type # "DOCUMENT-START"}
  <2>1. Len(h) = n
    BY DEF n
  <2> QED BY <1>1, <2>1 DEF Known, Creating
<1>4. ASSUME e.type = "DOCUMENT-START" PROVE Known(g, a) = {}
  BY <1>2, <1>3, <1>4
<1>5. ASSUME e.type # "DOCUMENT-START",
             ~(e.type \in CreatingType /\ e.anchor = a)
      PROVE  Known(g, a) = Known(h, a)
  BY <1>1, <1>2, <1>3, <1>5
<1>6. ASSUME e.type \in CreatingType \ {"DOCUMENT-START"}, e.anchor = a
      PROVE  Known(g, a) # {} /\ Max(Known(g, a)) = n + 1
  <2>1. n + 1 \in Known(g, a)
    BY <1>2, <1>3, <1>6
  <2>2. \A x \in 1 .. n + 1 : x \in Nat /\ x <= n + 1
    BY <1>1
  <2>3. Known(g, a) \subseteq Nat /\ \A x \in Known(g, a) : x <= n + 1
    BY <1>3, <2>2
  <2>4. Max(Known(g, a)) = n + 1
    BY <2>1, <2>3, MaxIs
  <2> QED BY <2>1, <2>4
<1>7. ASSUME e.type = "ALIAS", e.anchor = a
      PROVE  Definitions(g, n + 1) = Known(h, a)
  <2>1. Definitions(g, n + 1)
          = {x \in 1 .. n + 1 : /\ g[x].type \in CreatingType /\ x < n + 1
                                /\ g[x].anchor = a
                                /\ \A y \in x .. n + 1 : g[y].type # "DOCUMENT-START"}
    BY <1>1, <1>7 DEF Definitions, Creating
  <2> QED BY <1>1, <1>2, <1>3, <1>7, <2>1
<1>8. "DOCUMENT-START" \in CreatingType
  BY DEF CreatingType, StartType
<1>9. Known(h, a) \subseteq 1 .. n
  BY <1>3
<1> QED BY <1>4, <1>5, <1>6, <1>7, <1>8, <1>9 DEF n

-----------------------------------------------------------------------------
(***************************************************************************)
(* What the builder holds is what the history h says.                      *)
(***************************************************************************)
(* The nodes ns. *)
ToldBy(h, ns) ==
    /\ Len(ns) = Cardinality(Creating(h))
    /\ \A x \in Creating(h) : BuiltFrom(h, x, ns[Number(h, x)])
    /\ \A i \in 1 .. Len(ns) : Keyless(ns[i])

(* The anchors as. *)
NamedBy(h, as) ==
    \A a \in Anchors : /\ a \in DOMAIN as <=> Known(h, a) # {}
                       /\ a \in DOMAIN as => as[a] = Number(h, Max(Known(h, a)))

(* The stack st. *)
StackedBy(h, st) ==
    \E s : /\ Tracks(h, s)
           /\ Len(st) = Len(s)
           /\ \A k \in 1 .. Len(s) : st[k] = Number(h, s[k])

LEMMA AliasesDefinedGrows ==
    ASSUME NEW g, NEW h, Extends(g, h), AliasesDefined(h),
           g[Len(h) + 1].type = "ALIAS" => Definitions(g, Len(h) + 1) # {}
    PROVE  AliasesDefined(g)
<1>1. Len(h) \in Nat /\ Len(g) = Len(h) + 1 /\ \A i \in 1 .. Len(h) : g[i] = h[i]
  BY Lengths DEF Extends
<1>2. \A e \in 1 .. Len(g) : e \in 1 .. Len(h) \/ e = Len(h) + 1
  BY <1>1
<1>3. \A e \in 1 .. Len(h) : Definitions(g, e) = Definitions(h, e)
  BY DefinitionsSame
<1> QED BY <1>1, <1>2, <1>3 DEF AliasesDefined

(* An event that begins no node and is no item changes no node.            *)
LEMMA ToldStays ==
    ASSUME NEW g, NEW h, Extends(g, h), AliasesDefined(h), NEW ns, ToldBy(h, ns),
           g[Len(h) + 1].type \notin ItemType \cup CreatingType
    PROVE  ToldBy(g, ns) /\ AliasesDefined(g)
<1>1. /\ Creating(g) = Creating(h)
      /\ \A i \in 1 .. Len(h) : Number(g, i) = Number(h, i)
  BY CreatingGrows
<1>2. Creating(h) \subseteq 1 .. Len(h)
  BY Numbers DEF Extends
<1>3. ASSUME NEW x \in Creating(h) PROVE BuiltFrom(g, x, ns[Number(g, x)])
  <2>1. Items(g, x) = Items(h, x)
    BY ItemsGrow
  <2>2. BuiltFrom(h, x, ns[Number(h, x)])
    BY DEF ToldBy
  <2> QED BY <1>1, <1>2, <2>1, <2>2, BuiltStays
<1>4. AliasesDefined(g)
  BY AliasesDefinedGrows DEF ItemType
<1> QED BY <1>1, <1>3, <1>4 DEF ToldBy

LEMMA NumberKnown ==
    ASSUME NEW g, NEW h, Extends(g, h), NEW a, Known(h, a) # {}
    PROVE  Number(g, Max(Known(h, a))) = Number(h, Max(Known(h, a)))
<1>1. Known(h, a) \subseteq 1 .. Len(h) /\ Len(h) \in Nat
  BY KnownGrows, Lengths DEF Extends
<1>2. Known(h, a) \subseteq 0 .. Len(h)
  BY <1>1
<1>3. Max(Known(h, a)) \in 1 .. Len(h)
  BY <1>1, <1>2, MaxIn
<1> QED BY <1>3, CreatingGrows

(* An event that begins no node names none.                                *)
LEMMA NamedStays ==
    ASSUME NEW g, NEW h, Extends(g, h), NEW as, NamedBy(h, as),
           g[Len(h) + 1].type \notin CreatingType
    PROVE  NamedBy(g, as)
<1>1. \A a \in Anchors : Known(g, a) = Known(h, a)
  BY KnownGrows
<1>2. \A a \in Anchors : Known(h, a) # {} =>
         Number(g, Max(Known(h, a))) = Number(h, Max(Known(h, a)))
  BY NumberKnown
<1> QED BY <1>1, <1>2 DEF NamedBy

(* SetAnchor names the node of the event that carries the anchor.          *)
LEMMA NamedSet ==
    ASSUME NEW g, NEW h, Extends(g, h), NEW as, NamedBy(h, as),
           g[Len(h) + 1].type \in CreatingType \ {"DOCUMENT-START"},
           NEW anchor, g[Len(h) + 1].anchor = anchor,
           NEW node, node = Number(g, Len(h) + 1),
           NEW bs,
           \A a \in Anchors : /\ a \in DOMAIN bs <=> a = anchor \/ a \in DOMAIN as
                              /\ a \in DOMAIN bs => bs[a] = IF a = anchor THEN node ELSE as[a]
    PROVE  NamedBy(g, bs)
<1> SUFFICES ASSUME NEW a \in Anchors
             PROVE  /\ a \in DOMAIN bs <=> Known(g, a) # {}
                    /\ a \in DOMAIN bs => bs[a] = Number(g, Max(Known(g, a)))
  BY DEF NamedBy
<1>1. CASE a = anchor
  <2>1. Known(g, a) # {} /\ Max(Known(g, a)) = Len(h) + 1
    BY <1>1, KnownGrows
  <2>2. a \in DOMAIN bs /\ bs[a] = node
    BY <1>1
  <2> QED BY <2>1, <2>2
<1>2. CASE a # anchor
  <2>1. Known(g, a) = Known(h, a)
    BY <1>2, KnownGrows
  <2>2. Known(h, a) # {} => Number(g, Max(Known(h, a))) = Number(h, Max(Known(h, a)))
    BY NumberKnown
  <2>3. (a \in DOMAIN bs <=> a \in DOMAIN as) /\ (a \in DOMAIN as => bs[a] = as[a])
    BY <1>2
  <2> QED BY <2>1, <2>2, <2>3 DEF NamedBy
<1> QED BY <1>1, <1>2

(* A document begins with no anchor.                                       *)
LEMMA NamedAfresh ==
    ASSUME NEW g, NEW h, Extends(g, h), g[Len(h) + 1].type = "DOCUMENT-START"
    PROVE  NamedBy(g, NoAnchors)
<1>1. \A a \in Anchors : Known(g, a) = {}
  BY KnownGrows
<1> QED BY <1>1 DEF NamedBy, NoAnchors

LEMMA NumbersStacked ==
    ASSUME NEW g, NEW h, Extends(g, h), NEW s, Tracks(h, s)
    PROVE  /\ Len(s) \in Nat /\ s \in Seq(1 .. Len(h))
           /\ \A k \in 1 .. Len(s) : Number(g, s[k]) = Number(h, s[k])
<1>1. \A k \in 1 .. Len(s) : s[k] \in 1 .. Len(h)
  BY TracksTyped DEF Extends
<1> QED BY <1>1, TracksTyped, CreatingGrows DEF Extends

LEMMA StackedStays ==
    ASSUME NEW g, NEW h, Extends(g, h), NEW st, StackedBy(h, st),
           g[Len(h) + 1].type \notin StartType \cup EndType
    PROVE  StackedBy(g, st)
<1>1. PICK s : /\ Tracks(h, s) /\ Len(st) = Len(s)
               /\ \A k \in 1 .. Len(s) : st[k] = Number(h, s[k])
  BY DEF StackedBy
<1>2. Tracks(g, s)
  BY <1>1, TracksStays
<1>3. \A k \in 1 .. Len(s) : Number(g, s[k]) = Number(h, s[k])
  BY <1>1, NumbersStacked
<1>4. \A k \in 1 .. Len(s) : st[k] = Number(g, s[k])
  BY <1>1, <1>3
<1> QED BY <1>1, <1>2, <1>4, Zenon DEF StackedBy

LEMMA StackedPush ==
    ASSUME NEW g, NEW h, Extends(g, h), NEW S, NEW st \in Seq(S), StackedBy(h, st),
           g[Len(h) + 1].type \in StartType, NEW node \in S, node = Number(g, Len(h) + 1)
    PROVE  StackedBy(g, Append(st, node))
<1>1. PICK s : /\ Tracks(h, s) /\ Len(st) = Len(s)
               /\ \A k \in 1 .. Len(s) : st[k] = Number(h, s[k])
  BY DEF StackedBy
<1> DEFINE n == Len(h)
           m == Len(s)
           t == Append(s, n + 1)
           u == Append(st, node)
<1>2. Tracks(g, t)
  BY <1>1, TracksPush
<1>3. m \in Nat /\ s \in Seq(1 .. n + 1) /\ n + 1 \in 1 .. n + 1
  <2>1. n \in Nat /\ n + 1 \in Nat /\ n <= n + 1 /\ n + 1 \in 1 .. n + 1
    BY Lengths DEF Extends
  <2> QED BY <1>1, <2>1, TracksTyped DEF Extends
<1>4. /\ Len(t) = m + 1 /\ t[m + 1] = n + 1 /\ \A k \in 1 .. m : t[k] = s[k]
      /\ Len(u) = m + 1 /\ u[m + 1] = node /\ \A k \in 1 .. m : u[k] = st[k]
  BY <1>1, <1>3, AppendProperties
<1>5. \A k \in 1 .. m : Number(g, s[k]) = Number(h, s[k])
  BY <1>1, NumbersStacked
<1>6. node = Number(g, n + 1) /\ \A k \in 1 .. m : st[k] = Number(h, s[k])
  BY <1>1
<1> HIDE DEF n, m, t, u
<1>7. \A k \in 1 .. Len(t) : k \in 1 .. m \/ k = m + 1
  BY <1>3, <1>4
<1>8. \A k \in 1 .. Len(t) : u[k] = Number(g, t[k])
  BY <1>4, <1>5, <1>6, <1>7
<1>9. StackedBy(g, u)
  BY <1>2, <1>4, <1>8 DEF StackedBy
<1> QED BY <1>9 DEF u

LEMMA StackedPop ==
    ASSUME NEW g, NEW h, Extends(g, h), NEW S, NEW st \in Seq(S), StackedBy(h, st), st # <<>>,
           g[Len(h) + 1].type \in EndType
    PROVE  StackedBy(g, Front(st))
<1>1. PICK s : /\ Tracks(h, s) /\ Len(st) = Len(s)
               /\ \A k \in 1 .. Len(s) : st[k] = Number(h, s[k])
  BY DEF StackedBy
<1>2. /\ Len(st) >= 1 /\ Len(Front(st)) = Len(st) - 1
      /\ \A k \in 1 .. Len(st) - 1 : Front(st)[k] = st[k]
  BY FrontProperties
<1>3. s # <<>> /\ Len(s) \in Nat
  <2>1. Len(s) # 0 /\ Len(s) \in Nat /\ s \in Seq(1 .. Len(h))
    BY <1>1, <1>2, NumbersStacked
  <2> QED BY <2>1, EmptySeq
<1>4. /\ Tracks(g, Front(s)) /\ Len(Front(s)) = Len(s) - 1
      /\ \A k \in 1 .. Len(s) - 1 : Front(s)[k] = s[k]
  BY <1>1, <1>3, TracksPop
<1>5. \A k \in 1 .. Len(s) - 1 : k \in 1 .. Len(s)
  BY <1>3
<1>6. \A k \in 1 .. Len(s) : Number(g, s[k]) = Number(h, s[k])
  BY <1>1, NumbersStacked
<1>7. Len(Front(st)) = Len(Front(s)) /\ Len(Front(s)) = Len(s) - 1
  BY <1>1, <1>2, <1>4
<1>8. \A k \in 1 .. Len(Front(s)) : Front(st)[k] = Number(g, Front(s)[k])
  BY <1>1, <1>2, <1>4, <1>5, <1>6
<1> QED BY <1>4, <1>7, <1>8, Zenon DEF StackedBy

-----------------------------------------------------------------------------
(***************************************************************************)
(* A node more.                                                            *)
(***************************************************************************)
(* ms are the nodes ns after the collection open last has taken child in.  *)
TakesIn(h, s, ns, ms, m, child) ==
    LET p == Number(h, Last(s))
    IN  /\ Tracks(h, s) /\ s # <<>>
        /\ ns[p] \in NodeIn(m)
        /\ \E construct \in Stream!Construct \ {"docEnd"} : BuiltAs(construct, ns[p])
        /\ ms[p] = Adopt(ns[p], child)
        /\ \A i \in 1 .. Len(ns) : i # p => ms[i] = ns[i]

(* It is the collection whose item the event is.                           *)
LEMMA TakenIn ==
    ASSUME NEW g, NEW h, Extends(g, h), AliasesDefined(h), NEW ns, ToldBy(h, ns),
           g[Len(h) + 1].type \in ItemType,
           NEW s, NEW ms, NEW m \in Nat, NEW child \in 1 .. m, TakesIn(h, s, ns, ms, m, child),
           child = Meaning(g, Len(h) + 1)
    PROVE  /\ \A x \in Creating(h) : BuiltFrom(g, x, ms[Number(g, x)])
           /\ \A i \in 1 .. Len(ns) : Keyless(ms[i])
<1> SUFFICES ASSUME NEW p, p = Number(h, Last(s)),
                    Tracks(h, s), s # <<>>, ns[p] \in NodeIn(m),
                    NEW construct \in Stream!Construct \ {"docEnd"}, BuiltAs(construct, ns[p]),
                    ms[p] = Adopt(ns[p], child),
                    \A i \in 1 .. Len(ns) : i # p => ms[i] = ns[i]
             PROVE  /\ \A x \in Creating(h) : BuiltFrom(g, x, ms[Number(g, x)])
                    /\ \A i \in 1 .. Len(ns) : Keyless(ms[i])
  BY Zenon DEF TakesIn
<1> DEFINE n == Len(h)
           last == Last(s)
<1>1. n \in Nat /\ h \in History /\ g \in History /\ DOMAIN h = 1 .. n
  BY Lengths DEF Extends
<1>2. last \in 1 .. n /\ last \in Creating(h)
  <2>1. Len(s) \in 1 .. Len(s) /\ s \in Seq(1 .. n)
    <3>1. s \in Seq(1 .. n) /\ Len(s) \in Nat
      BY <1>1, TracksTyped
    <3>2. Len(s) # 0
      BY <3>1, EmptySeq
    <3> QED BY <3>1, <3>2
  <2>2. last \in 1 .. n /\ h[last].type \in StartType
    BY <2>1, ElementOfSeq DEF Tracks, Last
  <2> QED BY <1>1, <2>2 DEF Creating, CreatingType
<1>3. OpenBefore(h, n + 1) # {} /\ Max(OpenBefore(h, n + 1)) = last
  BY <1>1, InnermostOpen
<1>4. Items(g, last) = Items(h, last) \cup {n + 1}
  BY <1>3, ItemsGrow
<1>5. \A x \in Creating(h) : x # last => Items(g, x) = Items(h, x)
  BY <1>3, ItemsGrow
<1>6. /\ Creating(h) \subseteq 1 .. n
      /\ \A x \in Creating(h) : Number(h, x) \in 1 .. Len(ns) /\ BuiltFrom(h, x, ns[Number(h, x)])
      /\ \A x, y \in Creating(h) : Number(h, x) = Number(h, y) => x = y
      /\ \A x \in 1 .. n : Number(g, x) = Number(h, x)
      /\ \A i \in 1 .. Len(ns) : Keyless(ns[i])
  BY <1>1, Numbers, CreatingGrows DEF ToldBy
<1>7. p \in 1 .. Len(ns) /\ ms[p] = Adopt(ns[p], child)
  BY <1>2, <1>6
<1>8. /\ SubNodes(ns[p]) \in Seq(1 .. m)
      /\ SubNodes(ms[p]) = Append(SubNodes(ns[p]), child)
      /\ Keyless(ms[p]) /\ ms[p].kind = ns[p].kind
  <2>1. Keyless(ns[p])
    BY <1>6, <1>7
  <2>2. /\ SubNodes(ns[p]) \in Seq(1 .. m)
        /\ SubNodes(Adopt(ns[p], child)) = Append(SubNodes(ns[p]), child)
        /\ Keyless(Adopt(ns[p], child))
    BY <2>1, AdoptAppends
  <2>3. Adopt(ns[p], child).kind = ns[p].kind
    BY AdoptAdvances
  <2> QED BY <1>7, <2>2, <2>3
<1>9. BuiltFrom(g, last, ms[p])
  <2>1. BuiltFrom(h, last, ns[p])
    BY <1>2, <1>6
  <2> QED BY <1>2, <1>4, <1>8, <2>1, BuiltGrows
<1>10. ASSUME NEW x \in Creating(h) PROVE BuiltFrom(g, x, ms[Number(g, x)])
  <2>1. x \in 1 .. n /\ Number(g, x) = Number(h, x) /\ Number(h, x) \in 1 .. Len(ns)
    BY <1>6
  <2>2. CASE x = last
    BY <1>9, <2>1, <2>2
  <2>3. CASE x # last
    <3>1. Number(h, x) # p
      BY <1>2, <1>6, <2>3
    <3>2. ms[Number(h, x)] = ns[Number(h, x)]
      BY <2>1, <3>1
    <3>3. BuiltFrom(h, x, ns[Number(h, x)]) /\ Items(g, x) = Items(h, x)
      BY <1>5, <1>6, <2>3
    <3>4. BuiltFrom(g, x, ns[Number(h, x)])
      BY <2>1, <3>3, BuiltStays
    <3> QED BY <2>1, <3>2, <3>4
  <2> QED BY <2>2, <2>3
<1>11. \A i \in 1 .. Len(ns) : Keyless(ms[i])
  BY <1>6, <1>8
<1> QED BY <1>10, <1>11

(* ms are the nodes ns, as told by g, and the node that the event begins.  *)
BeginsNode(g, h, ns, ms, text) ==
    /\ g[Len(h) + 1].type \in CreatingType
    /\ Len(ms) = Len(ns) + 1
    /\ ms[Len(ns) + 1] = NewNode(KindOf(g[Len(h) + 1].type), text)
    /\ \A x \in Creating(h) : BuiltFrom(g, x, ms[Number(g, x)])
    /\ \A i \in 1 .. Len(ns) : Keyless(ms[i])

LEMMA ToldNew ==
    ASSUME NEW g, NEW h, Extends(g, h), NEW ns, ToldBy(h, ns),
           NEW ms, NEW text, BeginsNode(g, h, ns, ms, text)
    PROVE  ToldBy(g, ms)
<1> DEFINE n == Len(h)
           new == ms[Len(ns) + 1]
<1>0. /\ g[n + 1].type \in CreatingType
      /\ Len(ms) = Len(ns) + 1
      /\ new = NewNode(KindOf(g[n + 1].type), text)
      /\ \A x \in Creating(h) : BuiltFrom(g, x, ms[Number(g, x)])
      /\ \A i \in 1 .. Len(ns) : Keyless(ms[i])
  BY Zenon DEF BeginsNode
<1>1. /\ Creating(g) = Creating(h) \cup {n + 1}
      /\ Cardinality(Creating(g)) = Len(ns) + 1
      /\ Number(g, n + 1) = Len(ns) + 1
  BY <1>0, CreatingGrows DEF ToldBy
<1>2. Len(g) = n + 1 /\ g \in History
  BY DEF Extends
<1>3. new.kind = KindOf(g[n + 1].type) /\ new.children = <<>> /\ new.nextKey = NoKey
  BY <1>0 DEF NewNode
<1>4. BuiltFrom(g, n + 1, new)
  BY <1>2, <1>3, BuiltNew
<1>5. \A x \in Creating(g) : BuiltFrom(g, x, ms[Number(g, x)])
  BY <1>0, <1>1, <1>4
<1>6. Keyless(new)
  BY <1>3 DEF Keyless
<1>7. Len(ns) \in Nat
  BY Numbers DEF ToldBy, Extends
<1>8. \A i \in 1 .. Len(ms) : i \in 1 .. Len(ns) \/ i = Len(ns) + 1
  BY <1>0, <1>7
<1>9. \A i \in 1 .. Len(ms) : Keyless(ms[i])
  BY <1>0, <1>6, <1>8
<1> QED BY <1>0, <1>1, <1>5, <1>9 DEF ToldBy

(* A document takes nothing in, and nothing takes it in.                   *)
LEMMA ToldDocument ==
    ASSUME NEW g, NEW h, Extends(g, h), AliasesDefined(h), NEW S, NEW ns \in Seq(S), ToldBy(h, ns),
           g[Len(h) + 1].type = "DOCUMENT-START",
           NewNode("YDocument", NoText) \in S
    PROVE  ToldBy(g, Append(ns, NewNode("YDocument", NoText)))
<1> DEFINE ms == Append(ns, NewNode("YDocument", NoText))
<1>1. /\ Len(ms) = Len(ns) + 1 /\ ms[Len(ns) + 1] = NewNode("YDocument", NoText)
      /\ \A i \in 1 .. Len(ns) : ms[i] = ns[i]
  BY AppendProperties
<1> HIDE DEF ms
<1>2. /\ Creating(h) \subseteq 1 .. Len(h)
      /\ \A x \in Creating(h) : Number(h, x) \in 1 .. Len(ns) /\ BuiltFrom(h, x, ns[Number(h, x)])
      /\ \A x \in 1 .. Len(h) : Number(g, x) = Number(h, x)
      /\ \A i \in 1 .. Len(ns) : Keyless(ns[i])
  BY Numbers, CreatingGrows DEF ToldBy, Extends
<1>3. ASSUME NEW x \in Creating(h) PROVE BuiltFrom(g, x, ms[Number(g, x)])
  <2>1. Items(g, x) = Items(h, x)
    BY ItemsGrow DEF ItemType
  <2>2. x \in 1 .. Len(h) /\ BuiltFrom(h, x, ns[Number(h, x)])
    BY <1>2
  <2>3. BuiltFrom(g, x, ns[Number(h, x)])
    BY <2>1, <2>2, BuiltStays
  <2> QED BY <1>1, <1>2, <2>2, <2>3
<1>4. \A i \in 1 .. Len(ns) : Keyless(ms[i])
  BY <1>1, <1>2
<1>5. g[Len(h) + 1].type \in CreatingType /\ KindOf(g[Len(h) + 1].type) = "YDocument"
  BY DEF CreatingType, StartType, KindOf
<1>6. ToldBy(g, ms)
  <2>1. ms[Len(ns) + 1] = NewNode(KindOf(g[Len(h) + 1].type), NoText)
    BY <1>1, <1>5
  <2>2. g[Len(h) + 1].type \in CreatingType
    BY <1>5
  <2>3. Len(ms) = Len(ns) + 1
    BY <1>1
  <2>4. BeginsNode(g, h, ns, ms, NoText)
    BY <1>3, <1>4, <2>1, <2>2, <2>3, Zenon DEF BeginsNode
  <2> QED BY <2>4, ToldNew
<1> QED BY <1>6 DEF ms

-----------------------------------------------------------------------------
(***************************************************************************)
(* The invariant of the histories.                                         *)
(***************************************************************************)
HInv ==
    /\ Inv
    /\ history \in History
    /\ thrown = "none" => ToldBy(history, nodes) /\ AliasesDefined(history)
    /\ result = "running" => NamedBy(history, anchors) /\ StackedBy(history, nodeStack)
    /\ AliasesResolveInTheirDocument

(* An event that is delivered, and whether its handler may throw.          *)
Delivered ==
    /\ HInv /\ Inv' /\ StreamStep
    /\ result = "running" /\ HandlerReturns
    /\ history' = Append(history, event')

LEMMA HistoryGrows ==
    ASSUME Delivered
    PROVE  /\ Extends(history', history) /\ history' \in History
           /\ history'[Len(history) + 1] = event'
           /\ Len(history') = Len(history) + 1 /\ history' # <<>> /\ Last(history') = event'
           /\ thrown = "none" /\ ToldBy(history, nodes) /\ AliasesDefined(history)
           /\ NamedBy(history, anchors) /\ StackedBy(history, nodeStack)
<1>1. event' \in Stream!Event
  BY StreamTyped DEF Delivered, HInv, Inv, Stream!TypeOK
<1>2. history \in History /\ history' = Append(history, event')
  BY DEF Delivered, HInv
<1>3. Extends(history', history) /\ history'[Len(history) + 1] = event'
  BY <1>1, <1>2, Appended
<1>4. Len(history') = Len(history) + 1 /\ history' \in History /\ Len(history) \in Nat
  BY <1>2, <1>3, Lengths DEF Extends
<1>5. history' # <<>> /\ Last(history') = event'
  <2>1. Len(history') # 0
    BY <1>4
  <2> QED BY <1>3, <1>4, <2>1, EmptySeq DEF Last
<1> QED BY <1>3, <1>4, <1>5 DEF Delivered, HInv, Inv

(* What a handler that does not throw has to keep.                         *)
LEMMA KeepsHistory ==
    ASSUME Delivered,
           thrown' = "none",
           ToldBy(history', nodes'), AliasesDefined(history'),
           NamedBy(history', anchors'), StackedBy(history', nodeStack')
    PROVE  HInv'
<1>1. /\ history' \in History /\ Last(history') = event' /\ Len(history') = Len(history) + 1
      /\ Len(history) \in Nat
      /\ history'[Len(history) + 1] = event'
  BY HistoryGrows, Lengths DEF Delivered, HInv
<1>2. Len(history') \in 1 .. Len(history')
  BY <1>1
<1>3. AliasesResolveInTheirDocument'
  BY <1>1, <1>2 DEF AliasesResolveInTheirDocument, AliasesDefined
<1> QED BY <1>1, <1>3 DEF HInv, Delivered

(* What a handler that throws has to keep.                                 *)
LEMMA ThrowsInHistory ==
    ASSUME Delivered, thrown' # "none",
           event'.type = "ALIAS" =>
              (thrown' = "KeyNotFound" <=> Definitions(history', Len(history) + 1) = {})
    PROVE  HInv'
<1>1. result' = "1"
  BY DEF Delivered, HandlerReturns
<1>2. /\ history' \in History /\ Last(history') = event' /\ Len(history') = Len(history) + 1
  BY HistoryGrows
<1>3. AliasesResolveInTheirDocument'
  BY <1>2 DEF AliasesResolveInTheirDocument
<1> QED BY <1>1, <1>2, <1>3 DEF HInv, Delivered

-----------------------------------------------------------------------------
(***************************************************************************)
(* The handlers keep the invariant of the histories.                       *)
(***************************************************************************)
LEMMA QuietHistory ==
    ASSUME Delivered, event'.type \notin ItemType \cup CreatingType \cup EndType,
           UNCHANGED builder
    PROVE  HInv'
<1>1. /\ Extends(history', history) /\ history'[Len(history) + 1] = event'
      /\ thrown = "none" /\ ToldBy(history, nodes) /\ AliasesDefined(history)
      /\ NamedBy(history, anchors) /\ StackedBy(history, nodeStack)
  BY HistoryGrows
<1>2. /\ history'[Len(history) + 1].type \notin ItemType \cup CreatingType
      /\ history'[Len(history) + 1].type \notin CreatingType
      /\ history'[Len(history) + 1].type \notin StartType \cup EndType
  BY <1>1 DEF CreatingType
<1>3. ToldBy(history', nodes) /\ AliasesDefined(history')
  BY <1>1, <1>2, ToldStays
<1>4. NamedBy(history', anchors) /\ StackedBy(history', nodeStack)
  BY <1>1, <1>2, NamedStays, StackedStays
<1>5. nodes' = nodes /\ anchors' = anchors /\ nodeStack' = nodeStack /\ thrown' = thrown
  BY DEF builder
<1> QED BY <1>1, <1>3, <1>4, <1>5, KeepsHistory

LEMMA StreamStartHistory ==
    ASSUME Delivered, Stream!StreamStart, StreamStart
    PROVE  HInv'
<1>1. event'.type = "STREAM-START"
  BY DEF Stream!StreamStart, Stream!Deliver
<1> QED BY <1>1, QuietHistory DEF StreamStart, ItemType, CreatingType, StartType, EndType

LEMMA StreamEndHistory ==
    ASSUME Delivered, Stream!StreamEnd, StreamEnd
    PROVE  HInv'
<1>1. event'.type = "STREAM-END" /\ open = <<>>
  BY DEF Stream!StreamEnd, Stream!Deliver
<1>2. nodeStack = <<>>
  BY <1>1, NothingOpen DEF Delivered, HInv
<1>3. UNCHANGED builder
  BY <1>2 DEF StreamEnd
<1> QED BY <1>1, <1>3, QuietHistory DEF ItemType, CreatingType, StartType, EndType

LEMMA StackTyped ==
    ASSUME Delivered
    PROVE  /\ Len(nodes) \in Nat /\ nodes \in Seq(NodeIn(Len(nodes)))
           /\ nodeStack \in Seq(1 .. Len(nodes)) /\ nodeStack \in Seq(1 .. Len(nodes) + 1)
           /\ Len(nodes) + 1 \in Nat /\ Len(nodes) + 1 \in 1 .. Len(nodes) + 1
<1>1. nodes \in Seq(NodeIn(Len(nodes))) /\ nodeStack \in Seq(1 .. Len(nodes))
  BY DEF Delivered, HInv, Inv, BuilderTyped
<1>2. Len(nodes) \in Nat
  BY <1>1, LenProperties
<1>3. /\ Len(nodes) + 1 \in Nat /\ Len(nodes) <= Len(nodes) + 1
      /\ Len(nodes) + 1 \in 1 .. Len(nodes) + 1
  BY <1>2
<1> QED BY <1>1, <1>2, <1>3, NodeInGrows

LEMMA DocumentStartHistory ==
    ASSUME Delivered, Stream!DocumentStart, DocumentStart
    PROVE  HInv'
<1> DEFINE n == Len(nodes)
           new == NewNode("YDocument", NoText)
<1>1. /\ Extends(history', history) /\ history'[Len(history) + 1] = event'
      /\ thrown = "none" /\ ToldBy(history, nodes) /\ AliasesDefined(history)
      /\ NamedBy(history, anchors) /\ StackedBy(history, nodeStack)
  BY HistoryGrows
<1>2. event'.type = "DOCUMENT-START"
  BY DEF Stream!DocumentStart, Stream!Deliver
<1>3. /\ nodes' = Append(nodes, new) /\ nodeStack' = Append(nodeStack, n + 1)
      /\ anchors' = NoAnchors /\ thrown' = thrown
  BY DEF DocumentStart
<1>4. /\ history'[Len(history) + 1].type = "DOCUMENT-START"
      /\ history'[Len(history) + 1].type \in StartType
      /\ history'[Len(history) + 1].type \in CreatingType
  BY <1>1, <1>2 DEF StartType, CreatingType
<1>5. new \in NodeIn(n)
  <2>1. "YDocument" \in Kind /\ NoText \in Texts \cup {NoText}
    BY DEF Kind
  <2> QED BY <2>1, StackTyped, NewNodeTyped
<1>6. ToldBy(history', Append(nodes, new))
  <2>1. nodes \in Seq(NodeIn(n))
    BY StackTyped
  <2> QED BY <1>1, <1>4, <1>5, <2>1, ToldDocument
<1>7. AliasesDefined(history')
  BY <1>1, <1>4, AliasesDefinedGrows
<1>8. NamedBy(history', NoAnchors)
  BY <1>1, <1>4, NamedAfresh
<1>9. StackedBy(history', Append(nodeStack, n + 1))
  <2>1. nodeStack \in Seq(1 .. n + 1) /\ n + 1 \in 1 .. n + 1
    BY StackTyped
  <2>2. Number(history', Len(history) + 1) = n + 1
    BY <1>1, <1>4, CreatingGrows DEF ToldBy
  <2> QED BY <1>1, <1>4, <2>1, <2>2, StackedPush
<1> QED BY <1>1, <1>3, <1>6, <1>7, <1>8, <1>9, KeepsHistory

LEMMA EndHistory ==
    ASSUME Delivered, event'.type \in EndType, open # <<>>,
           nodeStack' = Front(nodeStack), UNCHANGED <<nodes, documents, anchors, thrown>>
    PROVE  HInv'
<1>1. /\ Extends(history', history) /\ history'[Len(history) + 1] = event'
      /\ thrown = "none" /\ ToldBy(history, nodes) /\ AliasesDefined(history)
      /\ NamedBy(history, anchors) /\ StackedBy(history, nodeStack)
  BY HistoryGrows
<1>2. /\ history'[Len(history) + 1].type \in EndType
      /\ history'[Len(history) + 1].type \notin ItemType \cup CreatingType
      /\ history'[Len(history) + 1].type \notin CreatingType
  BY <1>1 DEF EndType, ItemType, CreatingType, StartType
<1>3. ToldBy(history', nodes) /\ AliasesDefined(history')
  BY <1>1, <1>2, ToldStays
<1>4. NamedBy(history', anchors)
  BY <1>1, <1>2, NamedStays
<1>5. StackedBy(history', Front(nodeStack))
  <2>1. nodeStack # <<>>
    BY NothingOpen DEF Delivered, HInv
  <2> QED BY <1>1, <1>2, <2>1, StackTyped, StackedPop
<1> QED BY <1>1, <1>3, <1>4, <1>5, KeepsHistory

LEMMA DocumentEndHistory ==
    ASSUME Delivered, Stream!DocumentEnd, DocumentEnd
    PROVE  HInv'
<1>1. event'.type = "DOCUMENT-END" /\ open = <<"docEnd">>
  BY DEF Stream!DocumentEnd, Stream!Deliver
<1>2. open # <<>> /\ Last(open) = "docEnd"
  BY <1>1 DEF Last
<1>3. CurrentIs("YDocument")
  BY <1>2, NothingOpen DEF CurrentIs, BuiltAs, Delivered, HInv
<1>4. nodeStack' = Front(nodeStack) /\ UNCHANGED <<nodes, documents, anchors, thrown>>
  BY <1>3 DEF DocumentEnd
<1> QED BY <1>1, <1>2, <1>4, EndHistory DEF EndType

LEMMA CollectionEndHistory ==
    ASSUME Delivered, Stream!SequenceEnd \/ Stream!MappingEnd, CollectionEnd
    PROVE  HInv'
<1>1. event'.type \in EndType /\ open # <<>>
  BY DEF Stream!SequenceEnd, Stream!MappingEnd, Stream!Deliver, EndType
<1>2. nodeStack # <<>>
  BY <1>1, NothingOpen DEF Delivered, HInv
<1>3. nodeStack' = Front(nodeStack) /\ UNCHANGED <<nodes, documents, anchors, thrown>>
  BY <1>2 DEF CollectionEnd
<1> QED BY <1>1, <1>3, EndHistory

(* CurrentNode.Add(child) of what the event means.                         *)
LEMMA ChildTold ==
    ASSUME Delivered, Stream!AcceptsNode, event'.type \in ItemType,
           NEW m \in Nat, NEW known \in Seq(NodeIn(m)), Len(known) = m, Len(nodes) <= m,
           \A i \in 1 .. Len(nodes) : known[i] = nodes[i],
           NEW child \in 1 .. m, child = Meaning(history', Len(history) + 1),
           nodes' = [known EXCEPT ![Last(nodeStack)] = Adopt(known[Last(nodeStack)], child)]
    PROVE  /\ \A x \in Creating(history) : BuiltFrom(history', x, nodes'[Number(history', x)])
           /\ \A i \in 1 .. Len(nodes) : Keyless(nodes'[i])
<1> DEFINE p == Last(nodeStack)
<1>1. /\ Extends(history', history) /\ history'[Len(history) + 1].type \in ItemType
      /\ ToldBy(history, nodes) /\ AliasesDefined(history) /\ StackedBy(history, nodeStack)
  BY HistoryGrows
<1>2. PICK s : /\ Tracks(history, s) /\ Len(nodeStack) = Len(s)
               /\ \A k \in 1 .. Len(s) : nodeStack[k] = Number(history, s[k])
  BY <1>1 DEF StackedBy
<1>3. /\ nodeStack # <<>> /\ BuiltAs(Last(open), nodes[p])
      /\ Last(open) \in Stream!Construct \ {"docEnd"}
  <2>1. open # <<>> /\ Inv /\ result = "running"
    BY DEF Stream!AcceptsNode, Delivered, HInv
  <2>2. Last(open) \in Stream!Construct \ {"docEnd"}
    BY <2>1, AdvancedTyped DEF Inv
  <2> QED BY <2>1, <2>2, NothingOpen
<1>4. /\ Len(nodeStack) \in 1 .. Len(nodeStack) /\ Len(nodes) \in Nat /\ p \in 1 .. Len(nodes)
      /\ nodes[p] \in NodeIn(m) /\ p \in 1 .. m
  <2>1. nodeStack \in Seq(1 .. Len(nodes)) /\ Len(nodes) \in Nat
    BY StackTyped
  <2>2. Len(nodeStack) \in 1 .. Len(nodeStack)
    <3>1. Len(nodeStack) \in Nat /\ Len(nodeStack) # 0
      BY <1>3, <2>1, EmptySeq, LenProperties
    <3> QED BY <3>1
  <2>3. p \in 1 .. Len(nodes)
    BY <2>1, <2>2, ElementOfSeq DEF Last
  <2>4. p \in 1 .. m /\ known[p] = nodes[p]
    BY <2>1, <2>3
  <2>5. known[p] \in NodeIn(m)
    BY <2>4, ElementOfSeq
  <2> QED BY <2>1, <2>2, <2>3, <2>4, <2>5
<1>5. p = Number(history, Last(s)) /\ s # <<>>
  <2>1. Len(s) \in 1 .. Len(s)
    BY <1>2, <1>4
  <2>2. Len(s) # 0
    BY <2>1
  <2> QED BY <1>2, <2>1, <2>2, EmptySeq DEF Last
<1>6. known[p] = nodes[p]
  BY <1>4
<1>7. /\ nodes'[p] = Adopt(nodes[p], child)
      /\ \A i \in 1 .. m : i # p => nodes'[i] = known[i]
  <2>1. nodes' = [known EXCEPT ![p] = Adopt(nodes[p], child)]
    BY <1>6
  <2>2. DOMAIN known = 1 .. m
    BY LenProperties
  <2> QED BY <1>4, <2>1, <2>2
<1>8. \A i \in 1 .. Len(nodes) : i # p => nodes'[i] = nodes[i]
  <2>1. \A i \in 1 .. Len(nodes) : i \in 1 .. m
    BY <1>4
  <2> QED BY <1>7, <2>1
<1> HIDE DEF p
<1>9. TakesIn(history, s, nodes, nodes', m, child)
  BY <1>2, <1>3, <1>4, <1>5, <1>7, <1>8, Zenon DEF TakesIn
<1> QED BY <1>1, <1>9, TakenIn

(* The node of a scalar or a collection.                                   *)
LEMMA NodeTold ==
    ASSUME Delivered, Stream!AcceptsNode, event'.type \in ItemType \cap CreatingType,
           NEW kind \in Kind, KindOf(event'.type) = kind, NEW text \in Texts \cup {NoText},
           NEW anchor \in Anchors \cup {NoAnchor}, event'.anchor = anchor,
           NEW n, n = Len(nodes),
           NEW known, known = Append(nodes, NewNode(kind, text)),
           Added(n + 1, known),
           SetAnchor(anchor, n + 1)
    PROVE  /\ ToldBy(history', nodes') /\ AliasesDefined(history')
           /\ NamedBy(history', anchors')
           /\ Number(history', Len(history) + 1) = n + 1
           /\ thrown' = "none"
<1>1. /\ Extends(history', history) /\ history'[Len(history) + 1] = event'
      /\ thrown = "none" /\ ToldBy(history, nodes) /\ AliasesDefined(history)
      /\ NamedBy(history, anchors)
  BY HistoryGrows
<1>2. /\ n \in Nat /\ nodes' \in Seq(NodeIn(n + 1)) /\ Len(nodes') = n + 1 /\ thrown' = thrown
      /\ nodes'[n + 1] = NewNode(kind, text)
  <2>1. Inv /\ result = "running"
    BY DEF Delivered, HInv
  <2> QED BY <2>1, NewNodeStep
<1>3. /\ event'.type \in ItemType /\ event'.type \in CreatingType
      /\ event'.type # "ALIAS" /\ event'.type # "DOCUMENT-START"
  BY DEF ItemType, CreatingType, StartType
<1>4. Number(history', Len(history) + 1) = n + 1
  BY <1>1, <1>3, CreatingGrows DEF ToldBy
<1>5. Meaning(history', Len(history) + 1) = n + 1
  BY <1>1, <1>3, <1>4 DEF Meaning
<1>6. /\ known \in Seq(NodeIn(n + 1)) /\ Len(known) = n + 1 /\ n <= n + 1
      /\ n + 1 \in 1 .. n + 1 /\ n + 1 \in Nat
      /\ \A i \in 1 .. n : known[i] = nodes[i]
  <2>1. n + 1 \in 1 .. n + 1 /\ n + 1 \in Nat /\ n <= n + 1 /\ nodes \in Seq(NodeIn(n))
    BY <1>2, StackTyped
  <2>2. NewNode(kind, text) \in NodeIn(n + 1) /\ nodes \in Seq(NodeIn(n + 1))
    BY <1>2, <2>1, NewNodeTyped, NodeInGrows
  <2> QED BY <2>1, <2>2, AppendProperties
<1>7. nodes' = [known EXCEPT ![Last(nodeStack)] = Adopt(known[Last(nodeStack)], n + 1)]
  BY DEF Added
<1>8. /\ \A x \in Creating(history) : BuiltFrom(history', x, nodes'[Number(history', x)])
      /\ \A i \in 1 .. n : Keyless(nodes'[i])
  BY <1>3, <1>5, <1>6, <1>7, ChildTold
<1>9. ToldBy(history', nodes')
  <2>1. history'[Len(history) + 1].type \in CreatingType
    BY <1>1, <1>3
  <2>2. /\ Len(nodes') = Len(nodes) + 1
        /\ nodes'[Len(nodes) + 1] = NewNode(KindOf(history'[Len(history) + 1].type), text)
    BY <1>1, <1>2
  <2>3. \A i \in 1 .. Len(nodes) : Keyless(nodes'[i])
    BY <1>8
  <2>4. BeginsNode(history', history, nodes, nodes', text)
    BY <1>8, <2>1, <2>2, <2>3, Zenon DEF BeginsNode
  <2> QED BY <1>1, <2>4, ToldNew
<1>10. AliasesDefined(history')
  BY <1>1, <1>3, AliasesDefinedGrows
<1>11. NamedBy(history', anchors')
  <2>1. anchors' = IF anchor = NoAnchor THEN anchors
                   ELSE [a \in DOMAIN anchors \cup {anchor} |->
                           IF a = anchor THEN n + 1 ELSE anchors[a]]
    BY DEF SetAnchor
  <2>2. /\ history'[Len(history) + 1].type \in CreatingType \ {"DOCUMENT-START"}
        /\ history'[Len(history) + 1].anchor = anchor
        /\ n + 1 = Number(history', Len(history) + 1)
    BY <1>1, <1>3, <1>4
  <2>3. \A a \in Anchors : /\ a \in DOMAIN anchors' <=> a = anchor \/ a \in DOMAIN anchors
                           /\ a \in DOMAIN anchors' =>
                                 anchors'[a] = IF a = anchor THEN n + 1 ELSE anchors[a]
    BY <2>1, AnchorAssumption
  <2> QED BY <1>1, <2>2, <2>3, NamedSet
<1> QED BY <1>1, <1>2, <1>4, <1>9, <1>10, <1>11

LEMMA AliasHistory ==
    ASSUME Delivered, NEW a \in Anchors, Stream!Alias(a), Alias(a)
    PROVE  HInv'
<1>1. /\ Extends(history', history) /\ history'[Len(history) + 1] = event'
      /\ thrown = "none" /\ ToldBy(history, nodes) /\ AliasesDefined(history)
      /\ NamedBy(history, anchors) /\ StackedBy(history, nodeStack)
  BY HistoryGrows
<1>2. /\ Stream!AcceptsNode /\ event'.type = "ALIAS" /\ event'.anchor = a
      /\ Inv /\ result = "running"
  BY DEF Stream!Alias, Stream!Deliver, Delivered, HInv
<1>3. /\ history'[Len(history) + 1].type = "ALIAS" /\ history'[Len(history) + 1].anchor = a
      /\ history'[Len(history) + 1].type \in ItemType
      /\ history'[Len(history) + 1].type \notin CreatingType
      /\ history'[Len(history) + 1].type \notin StartType \cup EndType
  BY <1>1, <1>2 DEF ItemType, CreatingType, StartType, EndType
<1>4. Definitions(history', Len(history) + 1) = Known(history, a)
  BY <1>1, <1>3, KnownGrows
<1>5. /\ a \in DOMAIN anchors <=> Known(history, a) # {}
      /\ a \in DOMAIN anchors => anchors[a] = Number(history, Max(Known(history, a)))
  BY <1>1 DEF NamedBy
<1>6. CASE a \notin DOMAIN anchors
  <2>1. thrown' = "KeyNotFound"
    BY <1>6 DEF Alias, Throw
  <2> QED BY <1>4, <1>5, <1>6, <2>1, ThrowsInHistory
<1>7. CASE a \in DOMAIN anchors /\ Refused(anchors[a], nodes)
  <2>1. /\ thrown' = Refusal(anchors[a], nodes) /\ thrown' # "none"
        /\ Refusal(anchors[a], nodes) # "KeyNotFound"
    BY <1>2, <1>7, RefusalKinds DEF Refused, Throw
  <2> QED BY <1>4, <1>5, <1>7, <2>1, ThrowsInHistory
<1>8. CASE a \in DOMAIN anchors /\ Added(anchors[a], nodes) /\ UNCHANGED <<nodeStack, anchors>>
  <2>1. SUFFICES ASSUME NEW n, n = Len(nodes), NEW child, child = anchors[a]
                 PROVE  HInv'
    OBVIOUS
  <2>2. n \in Nat /\ nodes \in Seq(NodeIn(n)) /\ child \in 1 .. n /\ n <= n
    <3>1. anchors[a] \in 1 .. Len(nodes)
      BY <1>2, <1>8 DEF Inv, BuilderTyped
    <3> QED BY <2>1, <3>1, StackTyped
  <2>3. child = Meaning(history', Len(history) + 1)
    <3>1. child = Number(history', Max(Known(history, a)))
      BY <1>1, <1>5, <1>8, <2>1, NumberKnown
    <3> QED BY <1>3, <1>4, <3>1 DEF Meaning
  <2>4. /\ nodes' = [nodes EXCEPT ![Last(nodeStack)] = Adopt(nodes[Last(nodeStack)], child)]
        /\ thrown' = thrown
    BY <1>8, <2>1 DEF Added
  <2>5. /\ \A x \in Creating(history) : BuiltFrom(history', x, nodes'[Number(history', x)])
        /\ \A i \in 1 .. n : Keyless(nodes'[i])
    <3>1. event'.type \in ItemType
      BY <1>1, <1>3
    <3> QED BY <1>2, <2>1, <2>2, <2>3, <2>4, <3>1, ChildTold
  <2>6. Len(nodes') = n
    BY <1>2, <2>1, <2>2, <2>4, NodeAdded
  <2>7. Creating(history') = Creating(history)
    BY <1>1, <1>3, CreatingGrows
  <2>8. ToldBy(history', nodes')
    BY <1>1, <2>1, <2>5, <2>6, <2>7 DEF ToldBy
  <2>9. AliasesDefined(history')
    BY <1>1, <1>4, <1>5, <1>8, AliasesDefinedGrows
  <2>10. NamedBy(history', anchors) /\ StackedBy(history', nodeStack)
    BY <1>1, <1>3, NamedStays, StackedStays
  <2>11. NamedBy(history', anchors') /\ StackedBy(history', nodeStack')
    BY <1>8, <2>10
  <2> QED BY <1>1, <2>4, <2>8, <2>9, <2>11, KeepsHistory
<1> QED BY <1>6, <1>7, <1>8 DEF Alias

LEMMA RefusedInHistory ==
    ASSUME Delivered, Stream!AcceptsNode, event'.type # "ALIAS",
           NEW child, NEW known, Refused(child, known)
    PROVE  HInv'
<1>1. thrown' # "none"
  BY DEF Refused, Throw
<1> QED BY <1>1, ThrowsInHistory

LEMMA ScalarHistory ==
    ASSUME Delivered, NEW anchor \in Anchors \cup {NoAnchor}, NEW text \in Texts,
           Stream!Scalar(anchor), Scalar(anchor, text)
    PROVE  HInv'
<1>1. /\ Stream!AcceptsNode /\ event'.type = "SCALAR" /\ event'.anchor = anchor
  BY DEF Stream!Scalar, Stream!Deliver
<1>2. SUFFICES ASSUME NEW n, n = Len(nodes),
                      NEW known, known = Append(nodes, NewNode("YScalar", text))
               PROVE  HInv'
  OBVIOUS
<1>3. CASE Refused(n + 1, known)
  BY <1>1, <1>3, RefusedInHistory
<1>4. CASE Added(n + 1, known) /\ SetAnchor(anchor, n + 1) /\ UNCHANGED nodeStack
  <2>1. /\ "YScalar" \in Kind /\ KindOf(event'.type) = "YScalar" /\ text \in Texts \cup {NoText}
        /\ event'.type \in ItemType \cap CreatingType /\ event'.type \notin StartType \cup EndType
    BY <1>1 DEF Kind, KindOf, ItemType, CreatingType, StartType, EndType
  <2>2. /\ ToldBy(history', nodes') /\ AliasesDefined(history') /\ NamedBy(history', anchors')
        /\ thrown' = "none"
    BY <1>1, <1>2, <1>4, <2>1, NodeTold
  <2>3. StackedBy(history', nodeStack)
    <3>1. /\ Extends(history', history) /\ StackedBy(history, nodeStack)
          /\ history'[Len(history) + 1] = event'
      BY HistoryGrows
    <3> QED BY <2>1, <3>1, StackedStays
  <2>4. StackedBy(history', nodeStack')
    BY <1>4, <2>3
  <2> QED BY <2>2, <2>4, KeepsHistory
<1> QED BY <1>2, <1>3, <1>4 DEF Scalar

LEMMA CollectionStartHistory ==
    ASSUME Delivered, Stream!AcceptsNode,
           NEW anchor \in Anchors \cup {NoAnchor}, event'.anchor = anchor,
           NEW kind, \/ kind = "YSequence" /\ event'.type = "SEQUENCE-START"
                     \/ kind = "YMapping" /\ event'.type = "MAPPING-START",
           CollectionStart(kind, anchor)
    PROVE  HInv'
<1>1. /\ kind \in Kind /\ KindOf(event'.type) = kind /\ NoText \in Texts \cup {NoText}
      /\ event'.type \in ItemType \cap CreatingType /\ event'.type \in StartType
      /\ event'.type # "ALIAS"
  BY DEF Kind, KindOf, ItemType, CreatingType, StartType
<1>2. SUFFICES ASSUME NEW n, n = Len(nodes),
                      NEW known, known = Append(nodes, NewNode(kind, NoText))
               PROVE  HInv'
  OBVIOUS
<1>3. CASE Refused(n + 1, known)
  BY <1>1, <1>3, RefusedInHistory
<1>4. CASE /\ Added(n + 1, known)
           /\ nodeStack' = Append(nodeStack, n + 1)
           /\ SetAnchor(anchor, n + 1)
  <2>1. /\ ToldBy(history', nodes') /\ AliasesDefined(history') /\ NamedBy(history', anchors')
        /\ Number(history', Len(history) + 1) = n + 1
        /\ thrown' = "none"
    BY <1>1, <1>2, <1>4, NodeTold
  <2>2. StackedBy(history', Append(nodeStack, n + 1))
    <3>1. /\ Extends(history', history) /\ StackedBy(history, nodeStack)
          /\ history'[Len(history) + 1].type \in StartType
      BY <1>1, HistoryGrows
    <3>2. nodeStack \in Seq(1 .. n + 1) /\ n + 1 \in 1 .. n + 1
      BY <1>2, StackTyped
    <3> QED BY <2>1, <3>1, <3>2, StackedPush
  <2>3. StackedBy(history', nodeStack')
    BY <1>4, <2>2
  <2> QED BY <2>1, <2>3, KeepsHistory
<1> QED BY <1>2, <1>3, <1>4 DEF CollectionStart

-----------------------------------------------------------------------------
LEMMA InitHistory == HistoryInit => HInv
<1> SUFFICES ASSUME HistoryInit PROVE HInv
  OBVIOUS
<1>1. Inv /\ history = <<>> /\ nodes = <<>> /\ nodeStack = <<>> /\ anchors = NoAnchors
  BY InitInv DEF HistoryInit, Init, BuilderInit
<1>2. history \in History /\ Len(history) = 0 /\ DOMAIN history = {}
  BY <1>1, EmptySeq DEF History
<1>3. Creating(history) = {} /\ Cardinality({}) = 0 /\ Len(nodes) = 0
  BY <1>1, <1>2, FS_EmptySet DEF Creating
<1>4. ToldBy(history, nodes) /\ AliasesDefined(history)
  BY <1>2, <1>3 DEF ToldBy, AliasesDefined
<1>5. NamedBy(history, anchors)
  <2>1. \A a : Known(history, a) = {}
    BY <1>3 DEF Known
  <2> QED BY <1>1, <2>1 DEF NamedBy, NoAnchors
<1>6. StackedBy(history, nodeStack)
  <2>1. Depth(history, 0) = 0
    BY DepthGrows
  <2>2. Tracks(history, <<>>)
    BY <1>2, <2>1, EmptySeq DEF Tracks
  <2>3. Len(nodeStack) = 0 /\ Len(<<>>) = 0 /\ 1 .. 0 = {}
    BY <1>1
  <2>4. \A k \in 1 .. Len(<<>>) : nodeStack[k] = Number(history, <<>>[k])
    BY <2>3
  <2> QED BY <2>2, <2>3, <2>4 DEF StackedBy
<1>7. AliasesResolveInTheirDocument
  BY <1>1 DEF AliasesResolveInTheirDocument
<1> QED BY <1>1, <1>2, <1>4, <1>5, <1>6, <1>7 DEF HInv

LEMMA HandlerHistory ==
    ASSUME HInv, Inv', HandleEvent, HistoryNext
    PROVE  HInv'
<1>1. result = "running" /\ HandlerReturns
  BY DEF HandleEvent
<1>2. StreamStep /\ phase' # "aborted"
  BY DEF HandleEvent, HandleNode, StreamStep, Stream!Node, Stream!StreamStart, Stream!StreamEnd,
         Stream!DocumentStart, Stream!DocumentEnd, Stream!Alias, Stream!Scalar,
         Stream!SequenceStart, Stream!MappingStart, Stream!SequenceEnd, Stream!MappingEnd
<1>3. Delivered
  BY <1>1, <1>2 DEF HistoryNext, Delivered
<1>4. CASE HandleNode
  <2>1. ASSUME NEW a \in Anchors, Stream!Alias(a), Alias(a) PROVE HInv'
    BY <1>3, <2>1, AliasHistory
  <2>2. ASSUME NEW a \in Anchors \cup {NoAnchor}, NEW text \in Texts,
               Stream!Scalar(a), Scalar(a, text)
        PROVE  HInv'
    BY <1>3, <2>2, ScalarHistory
  <2>3. ASSUME NEW a \in Anchors \cup {NoAnchor},
               Stream!SequenceStart(a), CollectionStart("YSequence", a)
        PROVE  HInv'
    <3>1. Stream!AcceptsNode /\ event'.anchor = a /\ event'.type = "SEQUENCE-START"
      BY <2>3 DEF Stream!SequenceStart, Stream!Deliver
    <3> QED BY <1>3, <2>3, <3>1, CollectionStartHistory
  <2>4. ASSUME NEW a \in Anchors \cup {NoAnchor},
               Stream!MappingStart(a), CollectionStart("YMapping", a)
        PROVE  HInv'
    <3>1. Stream!AcceptsNode /\ event'.anchor = a /\ event'.type = "MAPPING-START"
      BY <2>4 DEF Stream!MappingStart, Stream!Deliver
    <3> QED BY <1>3, <2>4, <3>1, CollectionStartHistory
  <2> QED BY <1>4, <2>1, <2>2, <2>3, <2>4 DEF HandleNode
<1> QED BY <1>3, <1>4, StreamStartHistory, StreamEndHistory, DocumentStartHistory,
           DocumentEndHistory, CollectionEndHistory DEF HandleEvent

LEMMA NextHistory == HInv /\ [HistoryNext]_historyVars => HInv'
<1> SUFFICES ASSUME HInv, [HistoryNext]_historyVars PROVE HInv'
  OBVIOUS
<1>1. Inv'
  BY NextInv DEF HInv, HistoryNext, historyVars
<1>2. CASE HistoryNext /\ HandleEvent
  BY <1>1, <1>2, HandlerHistory
<1>3. CASE HistoryNext /\ ParserFails
  <2>1. /\ result' = "-1" /\ UNCHANGED builder /\ phase' = "aborted"
    BY <1>3 DEF ParserFails, Stream!Abort
  <2>2. history' = history
    BY <1>3, <2>1 DEF HistoryNext
  <2>3. AliasesResolveInTheirDocument'
    BY <2>1, <2>2 DEF HInv, AliasesResolveInTheirDocument, builder
  <2> QED BY <1>1, <2>1, <2>2, <2>3 DEF HInv, builder
<1>4. CASE UNCHANGED historyVars
  <2>1. /\ nodes' = nodes /\ nodeStack' = nodeStack /\ anchors' = anchors /\ thrown' = thrown
        /\ result' = result /\ history' = history
    BY <1>4 DEF historyVars, vars, builder
  <2>2. AliasesResolveInTheirDocument'
    BY <2>1 DEF HInv, AliasesResolveInTheirDocument
  <2> QED BY <1>1, <2>1, <2>2 DEF HInv
<1> QED BY <1>2, <1>3, <1>4 DEF HistoryNext, Next

(* What is proved of histories holds of parses: the history only watches.  *)
THEOREM HistoriesAreParses == HistorySpec => Spec
<1>1. HistoryInit => Init
  BY DEF HistoryInit
<1>2. [HistoryNext]_historyVars => [Next]_vars
  BY DEF HistoryNext, historyVars
<1> QED BY <1>1, <1>2, PTL DEF HistorySpec, Spec

(* The documents built are those of the events delivered, however many:    *)
(* YamlBuilder.cs and YNode.cs put each node where its event says, and the *)
(* node last given an anchor where an alias says.                          *)
THEOREM DocumentsAreThoseOfEvents == HistorySpec => []DocumentsMirrorEvents
<1>1. HistoryInit => HInv
  BY InitHistory
<1>2. HInv /\ [HistoryNext]_historyVars => HInv'
  BY NextHistory
<1>3. HInv => DocumentsMirrorEvents
  BY Zenon DEF HInv, ToldBy, DocumentsMirrorEvents
<1> QED BY <1>1, <1>2, <1>3, PTL DEF HistorySpec

(* ParseYamlEvent finds the anchor of an alias exactly if a node before it *)
(* in its document has it: DocumentStart forgets those of the last one.    *)
THEOREM AliasesAreResolved == HistorySpec => []AliasesResolveInTheirDocument
<1>1. HistoryInit => HInv
  BY InitHistory
<1>2. HInv /\ [HistoryNext]_historyVars => HInv'
  BY NextHistory
<1>3. HInv => AliasesResolveInTheirDocument
  BY DEF HInv
<1> QED BY <1>1, <1>2, <1>3, PTL DEF HistorySpec
=============================================================================
