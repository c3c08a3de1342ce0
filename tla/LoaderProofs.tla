---------------------------- MODULE LoaderProofs ----------------------------
(***************************************************************************)
(* Proofs about the loader, for streams of any length and depth, whatever  *)
(* the anchors and tags: what the document, the anchors and the            *)
(* activations refer to are nodes of the document, the activations are     *)
(* the constructs open in the stream, no assertion of loader.c fails, and  *)
(* only what its anchors make unreadable is refused.                       *)
(***************************************************************************)
EXTENDS LoadHistory, SequenceFacts

(***************************************************************************)
(* The inductive invariant.                                                *)
(***************************************************************************)

(* Activations of a document with n nodes: the one of a collection has     *)
(* the index of its node, which is what Return stores into.                *)
FrameAt(n) ==
    [kind : {"document"}, index : {0}, key : 0 .. n]
    \cup [kind : {"sequence", "mapping"}, index : 1 .. n, key : 0 .. n]

AliasAt(n) == [anchor : Anchors, index : 1 .. n]

LoaderAt(n) ==
    [status : Status, nodes : Seq(NodeAt(n)), aliases : Seq(AliasAt(n)),
     frames : Seq(FrameAt(n)), startImplicit : BOOLEAN, endImplicit : BOOLEAN]

(* A document of n nodes, with what is on its way.                         *)
Typed(c, n) == n \in Nat /\ c \in LoaderAt(n) /\ Len(c.nodes) = n

(* The activations are the constructs of o; unless done, the index of a    *)
(* child of the innermost one is still to be returned to it.               *)
Mirrors(c, o, done) ==
    /\ Len(c.frames) = Len(o)
    /\ \A k \in 1 .. Len(o) : LoadedAs(o[k], c.frames[k], k = Len(o) /\ done)

(* A document is at the bottom of what is open, so that a collection has   *)
(* an activation to return its index to.                                   *)
StreamWellFormed ==
    /\ open \in Seq(Stream!Construct)
    /\ phase = "before" => open = <<>>
    /\ open # <<>> => open[1] \in {"root", "docEnd"}

Inv == /\ StreamWellFormed
       /\ Typed(loader, Len(loader.nodes))
       /\ FramesMirrorStream

-----------------------------------------------------------------------------
(***************************************************************************)
(* Constructs and activations.                                             *)
(***************************************************************************)

(* A child begins: its construct waits, as the stream says, for what comes *)
(* behind the child.                                                       *)
LEMMA ChildBegins ==
    ASSUME NEW construct \in Stream!Construct \ {"docEnd"}, NEW frame,
           LoadedAs(construct, frame, TRUE)
    PROVE  /\ Stream!AfterChild(construct) \in Stream!Construct
           /\ LoadedAs(Stream!AfterChild(construct), frame, FALSE)
<1>1. CASE construct = "root"
  BY <1>1 DEF LoadedAs, Stream!AfterChild, Stream!Construct
<1>2. CASE construct = "seq"
  BY <1>2 DEF LoadedAs, Stream!AfterChild, Stream!Construct
<1>3. CASE construct = "key"
  BY <1>3 DEF LoadedAs, Stream!AfterChild, Stream!Construct
<1>4. CASE construct = "value"
  BY <1>4 DEF LoadedAs, Stream!AfterChild, Stream!Construct
<1> QED BY <1>1, <1>2, <1>3, <1>4 DEF Stream!Construct

(* An activation, when an index has been returned to it.                   *)
Moved(frame, index) ==
    IF frame.kind = "sequence" THEN frame
    ELSE [frame EXCEPT !.key = IF frame.key = 0 THEN index ELSE 0]

(* The child's index is returned.                                          *)
LEMMA ChildReturns ==
    ASSUME NEW n \in Nat, NEW frame \in FrameAt(n), NEW index \in 1 .. n,
           NEW construct \in Stream!Construct, LoadedAs(construct, frame, FALSE)
    PROVE  /\ Moved(frame, index) \in FrameAt(n)
           /\ LoadedAs(construct, Moved(frame, index), TRUE)
<1>1. /\ frame.kind \in {"document", "sequence", "mapping"}
      /\ frame.key \in 0 .. n
      /\ frame = [kind |-> frame.kind, index |-> frame.index, key |-> frame.key]
      /\ frame.kind = "document" => frame.index = 0
      /\ frame.kind # "document" => frame.index \in 1 .. n
  BY DEF FrameAt
<1>2. index # 0 /\ index \in 0 .. n /\ 0 \in 0 .. n
  OBVIOUS
<1>3. /\ Moved(frame, index).kind = frame.kind
      /\ Moved(frame, index).index = frame.index
      /\ Moved(frame, index).key =
            IF frame.kind = "sequence" THEN frame.key ELSE IF frame.key = 0 THEN index ELSE 0
      /\ Moved(frame, index) \in FrameAt(n)
  BY <1>1, <1>2 DEF Moved, FrameAt
<1>4. CASE construct = "root"
  BY <1>4 DEF LoadedAs
<1>5. CASE construct = "docEnd"
  BY <1>2, <1>3, <1>5 DEF LoadedAs
<1>6. CASE construct = "seq"
  BY <1>3, <1>6 DEF LoadedAs
<1>7. CASE construct = "key"
  BY <1>2, <1>3, <1>7 DEF LoadedAs
<1>8. CASE construct = "value"
  BY <1>2, <1>3, <1>8 DEF LoadedAs
<1> QED BY <1>3, <1>4, <1>5, <1>6, <1>7, <1>8 DEF Stream!Construct

-----------------------------------------------------------------------------
(***************************************************************************)
(* The operators of the loader.                                            *)
(***************************************************************************)

(* What refers to the first n nodes refers to the first m.                 *)
LEMMA References ==
    ASSUME NEW n \in Nat, NEW m \in Nat, n <= m
    PROVE  /\ Seq(1 .. n) \subseteq Seq(1 .. m)
           /\ Seq(NodeAt(n)) \subseteq Seq(NodeAt(m))
           /\ Seq(AliasAt(n)) \subseteq Seq(AliasAt(m))
           /\ Seq(FrameAt(n)) \subseteq Seq(FrameAt(m))
<1>1. 1 .. n \subseteq 1 .. m /\ 0 .. n \subseteq 0 .. m
  OBVIOUS
<1>2. Seq(1 .. n) \subseteq Seq(1 .. m)
  BY <1>1, SeqMonotonic
<1>3. NodeAt(n) \subseteq NodeAt(m)
  BY <1>2 DEF NodeAt
<1>4. AliasAt(n) \subseteq AliasAt(m)
  BY <1>1 DEF AliasAt
<1>5. FrameAt(n) \subseteq FrameAt(m)
  BY <1>1 DEF FrameAt
<1> QED BY <1>2, <1>3, <1>4, <1>5, SeqMonotonic

(* Items of a node are replaced.                                           *)
LEMMA ItemsSet ==
    ASSUME NEW n \in Nat, NEW s \in Seq(NodeAt(n)), Len(s) = n,
           NEW i \in 1 .. n, NEW items \in Seq(1 .. n)
    PROVE  /\ [s EXCEPT ![i].items = items] \in Seq(NodeAt(n))
           /\ Len([s EXCEPT ![i].items = items]) = n
<1>1. s[i] \in NodeAt(n)
  BY ElementOfSeq
<1>2. [s[i] EXCEPT !.items = items] \in NodeAt(n)
  BY <1>1 DEF NodeAt
<1>3. [s EXCEPT ![i].items = items] = [s EXCEPT ![i] = [s[i] EXCEPT !.items = items]]
  OBVIOUS
<1> QED BY <1>2, <1>3, ExceptSeq

(* The key of the innermost activation is set.                             *)
LEMMA KeySet ==
    ASSUME NEW n \in Nat, NEW s \in Seq(FrameAt(n)), s # <<>>, NEW key \in 0 .. n
    PROVE  /\ [s EXCEPT ![Len(s)].key = key] \in Seq(FrameAt(n))
           /\ Len([s EXCEPT ![Len(s)].key = key]) = Len(s)
           /\ [s EXCEPT ![Len(s)].key = key][Len(s)] = [s[Len(s)] EXCEPT !.key = key]
           /\ \A k \in 1 .. Len(s) - 1 : [s EXCEPT ![Len(s)].key = key][k] = s[k]
<1>1. Len(s) \in Nat /\ Len(s) >= 1 /\ Len(s) \in 1 .. Len(s)
  BY FrontProperties
<1>2. s[Len(s)] \in FrameAt(n)
  BY <1>1, ElementOfSeq
<1>3. [s[Len(s)] EXCEPT !.key = key] \in FrameAt(n)
  BY <1>2 DEF FrameAt
<1>4. [s EXCEPT ![Len(s)].key = key] = [s EXCEPT ![Len(s)] = [s[Len(s)] EXCEPT !.key = key]]
  OBVIOUS
<1>5. \A k \in 1 .. Len(s) - 1 : k \in 1 .. Len(s) /\ k # Len(s)
  BY <1>1
<1> QED BY <1>1, <1>3, <1>4, <1>5, ExceptSeq

(* The loader r has the index that the innermost activation of c waits for. *)
TakesIndex(c, r, n, o) ==
    Typed(r, n) /\ r.status = c.status /\ r.aliases = c.aliases /\ Mirrors(r, o, TRUE)

(* The index of a node reaches the innermost activation.                   *)
LEMMA Returned ==
    ASSUME NEW n, NEW c, Typed(c, n), NEW o \in Seq(Stream!Construct), o # <<>>,
           Mirrors(c, o, FALSE), NEW index \in 1 .. n
    PROVE  TakesIndex(c, Return(c, index), n, o)
<1> DEFINE top == Len(c.frames)
           frame == Last(c.frames)
           r == Return(c, index)
<1>1. /\ n \in Nat /\ c \in LoaderAt(n) /\ Len(c.nodes) = n
      /\ c.nodes \in Seq(NodeAt(n)) /\ c.frames \in Seq(FrameAt(n))
  BY DEF Typed, LoaderAt
<1>2. Len(o) \in Nat /\ Len(o) >= 1 /\ \A k \in 1 .. Len(o) : o[k] \in Stream!Construct
  BY FrontProperties, ElementOfSeq
<1>3. top = Len(o) /\ c.frames # <<>> /\ frame = c.frames[top]
  <2>1. top = Len(o)
    BY DEF Mirrors
  <2>2. Len(c.frames) # 0
    BY <1>2, <2>1
  <2> QED BY <1>1, <2>1, <2>2, EmptySeq DEF Last
<1>4. frame \in FrameAt(n) /\ LoadedAs(o[top], frame, FALSE) /\ o[top] \in Stream!Construct
  <2>1. top \in 1 .. Len(o) /\ top \in 1 .. Len(c.frames)
    BY <1>2, <1>3
  <2> QED BY <1>1, <1>2, <1>3, <2>1, ElementOfSeq DEF Mirrors
<1>5. /\ Moved(frame, index) \in FrameAt(n)
      /\ LoadedAs(o[top], Moved(frame, index), TRUE)
  BY <1>1, <1>4, ChildReturns
<1>6. /\ frame.kind \in {"document", "sequence", "mapping"}
      /\ frame.key \in 0 .. n
      /\ frame.kind # "document" => frame.index \in 1 .. n
      /\ frame.kind = "document" => frame.key = 0
  <2>1. frame.kind = "document" => frame.key = 0
    BY <1>4 DEF LoadedAs, Stream!Construct
  <2> QED BY <1>4, <2>1 DEF FrameAt
(* The activations, whichever case of Return applies.                      *)
<1>7. /\ r \in LoaderAt(n) /\ Len(r.nodes) = n /\ r.status = c.status
      /\ r.aliases = c.aliases
      /\ Len(r.frames) = top
      /\ r.frames[top] = Moved(frame, index)
      /\ \A k \in 1 .. top - 1 : r.frames[k] = c.frames[k]
  <2> DEFINE new == IF frame.key = 0 THEN index ELSE 0
             moved == [c.frames EXCEPT ![top].key = new]
             filled(items) == [c.nodes EXCEPT ![frame.index].items = items]
             old == c.nodes[frame.index].items
  <2>1. new \in 0 .. n
    BY <1>1
  <2>2. /\ moved \in Seq(FrameAt(n)) /\ Len(moved) = top
        /\ moved[top] = [frame EXCEPT !.key = new]
        /\ \A k \in 1 .. top - 1 : moved[k] = c.frames[k]
    <3> HIDE DEF new
    <3> QED BY <1>1, <1>3, <2>1, KeySet
  <2>3. ASSUME frame.kind # "document", NEW items \in Seq(1 .. n)
        PROVE  filled(items) \in Seq(NodeAt(n)) /\ Len(filled(items)) = n
    <3>1. frame.index \in 1 .. n
      BY <1>6, <2>3
    <3> HIDE DEF frame
    <3> QED BY <1>1, <3>1, ItemsSet, SMTT(30)
  <2>4. frame.kind # "document" => old \in Seq(1 .. n)
    <3>1. SUFFICES ASSUME frame.kind # "document", NEW i, i = frame.index
                   PROVE  c.nodes[i].items \in Seq(1 .. n)
      OBVIOUS
    <3>2. i \in 1 .. n
      BY <1>6, <3>1
    <3>3. c.nodes[i] \in NodeAt(n)
      BY <1>1, <3>2, ElementOfSeq
    <3> QED BY <3>3 DEF NodeAt
  <2>5. ASSUME NEW ns \in Seq(NodeAt(n)), Len(ns) = n, NEW fs \in Seq(FrameAt(n)),
               r = [c EXCEPT !.nodes = ns, !.frames = fs]
        PROVE  /\ r \in LoaderAt(n) /\ Len(r.nodes) = n /\ r.status = c.status /\ r.frames = fs
               /\ r.aliases = c.aliases
    BY <1>1, <2>5 DEF LoaderAt
  <2>6. CASE frame.kind = "sequence"
    <3> DEFINE ns == filled(Append(old, index))
    <3>1. r = [c EXCEPT !.nodes = ns, !.frames = c.frames]
      BY <1>1, <2>6 DEF Return, LoaderAt
    <3>2. Append(old, index) \in Seq(1 .. n)
      BY <2>4, <2>6, AppendProperties
    <3>3. ns \in Seq(NodeAt(n)) /\ Len(ns) = n
      BY <2>3, <2>6, <3>2
    <3> HIDE DEF ns
    <3> QED BY <1>1, <1>3, <2>5, <2>6, <3>1, <3>3 DEF Moved
  <2>7. CASE frame.kind = "mapping" /\ frame.key # 0
    <3> DEFINE ns == filled(old \o <<frame.key, index>>)
    <3>1. r = [c EXCEPT !.nodes = ns, !.frames = moved]
      BY <1>1, <2>7 DEF Return, LoaderAt
    <3>2. frame.key \in 1 .. n
      BY <1>1, <1>6, <2>7
    <3>3. old \o <<frame.key, index>> \in Seq(1 .. n)
      BY <2>4, <2>7, <3>2, ConcatProperties
    <3>4. ns \in Seq(NodeAt(n)) /\ Len(ns) = n
      BY <2>3, <2>7, <3>3
    <3>5. Moved(frame, index) = [frame EXCEPT !.key = new]
      BY <2>7 DEF Moved
    <3> HIDE DEF ns, moved
    <3> QED BY <2>2, <2>5, <3>1, <3>4, <3>5
  <2>8. CASE frame.kind \in {"mapping", "document"} /\ frame.key = 0
    <3>1. r = [c EXCEPT !.nodes = c.nodes, !.frames = moved]
      BY <1>1, <2>8 DEF Return, LoaderAt
    <3>2. Moved(frame, index) = [frame EXCEPT !.key = new]
      BY <2>8 DEF Moved
    <3> HIDE DEF moved
    <3> QED BY <1>1, <2>2, <2>5, <3>1, <3>2
  <2> QED BY <1>6, <2>6, <2>7, <2>8
<1>8. ASSUME NEW k \in 1 .. Len(o)
      PROVE  LoadedAs(o[k], r.frames[k], k = Len(o) /\ TRUE)
  <2>1. CASE k = Len(o)
    BY <1>3, <1>5, <1>7, <2>1
  <2>2. CASE k # Len(o)
    <3>1. k \in 1 .. top - 1
      BY <1>2, <1>3, <2>2
    <3>2. (k = Len(o) /\ FALSE) = FALSE /\ (k = Len(o) /\ TRUE) = FALSE
      BY <2>2
    <3> QED BY <1>7, <3>1, <3>2 DEF Mirrors
  <2> QED BY <2>1, <2>2
<1> QED BY <1>1, <1>3, <1>7, <1>8 DEF Typed, Mirrors, TakesIndex

(* The loader has an alias data for the anchor.                            *)
Known(c, anchor) == \E i \in 1 .. Len(c.aliases) : c.aliases[i].anchor = anchor

(* The alias data of an anchor refers to a node.                           *)
LEMMA IndexOfTyped ==
    ASSUME NEW n, NEW c, Typed(c, n), NEW anchor
    PROVE  IndexOf(c, anchor) \in 0 .. n /\ (IndexOf(c, anchor) # 0 <=> Known(c, anchor))
<1> DEFINE a == c.aliases
           hits == {i \in 1 .. Len(a) : a[i].anchor = anchor}
           i == SelectInSeq(a, LAMBDA data : data.anchor = anchor)
<1>1. n \in Nat /\ a \in Seq(AliasAt(n)) /\ Len(a) \in Nat
  <2>1. n \in Nat /\ a \in Seq(AliasAt(n))
    BY DEF Typed, LoaderAt
  <2> QED BY <2>1, LenProperties
<1>2. i = IF hits # {} THEN Min(hits) ELSE 0
  BY DEF SelectInSeq
<1>3. hits # {} => Min(hits) \in 1 .. Len(a)
  <2>1. hits \subseteq Nat
    OBVIOUS
  <2>2. hits # {} => \E m \in hits : \A x \in hits : m <= x
    <3> HIDE DEF hits
    <3> QED BY <2>1, LeastNatural
  <2>3. hits # {} => Min(hits) \in hits
    BY <2>2 DEF Min
  <2> QED BY <2>3
<1>4. i = 0 \/ i \in 1 .. Len(a)
  <2> HIDE DEF hits, i, a
  <2> QED BY <1>2, <1>3
<1>5. IndexOf(c, anchor) = IF i = 0 THEN 0 ELSE a[i].index
  BY DEF IndexOf
<1>6. ASSUME i \in 1 .. Len(a) PROVE a[i].index \in 1 .. n /\ a[i].index # 0
  <2> HIDE DEF i, a
  <2>1. a[i] \in AliasAt(n)
    BY <1>1, <1>6, ElementOfSeq
  <2>2. a[i].index \in 1 .. n
    BY <2>1 DEF AliasAt
  <2> QED BY <1>1, <2>2
<1>7. i # 0 <=> Known(c, anchor)
  <2>1. hits # {} <=> Known(c, anchor)
    BY DEF Known
  <2>2. \A x \in 1 .. Len(a) : x # 0
    OBVIOUS
  <2> HIDE DEF hits, i, a
  <2> QED BY <1>2, <1>3, <2>1, <2>2
<1> HIDE DEF i, a
<1> QED BY <1>1, <1>4, <1>5, <1>6, <1>7

(* A call that fails has no document.                                      *)
Failed(c) == c = [Empty EXCEPT !.status = "failed"]

LEMMA FailedTyped ==
    ASSUME NEW c, Failed(c)
    PROVE  Typed(c, 0) /\ c.status = "failed"
<1>1. /\ <<>> \in Seq(NodeAt(0)) /\ <<>> \in Seq(AliasAt(0)) /\ <<>> \in Seq(FrameAt(0))
      /\ Len(<<>>) = 0
  BY EmptySeq
<1> QED BY <1>1 DEF Failed, Typed, LoaderAt, Empty, Status

(* What the anchors of the loader become when e begins a node.             *)
Refused(c, e) ==
    IF e.type = "ALIAS" THEN ~Known(c, e.anchor)
    ELSE e.anchor # NoAnchor /\ Known(c, e.anchor)

Names(c, e, d) ==
    \A anchor \in Anchors :
        Known(d, anchor) <=> Known(c, anchor) \/ (e.type # "ALIAS" /\ anchor = e.anchor)

(* A node is composed behind the others, unless its anchor is taken.       *)
LEMMA Composed ==
    ASSUME NEW n, NEW c, Typed(c, n), NEW type \in NodeType, NEW e \in NodeEvent,
           NEW d, d = Compose(c, type, e)
    PROVE  \/ Failed(d) /\ Refused(c, e)
           \/ /\ Typed(d, n + 1) /\ d.status = c.status /\ d.frames = c.frames
              /\ ~Refused(c, e) /\ Names(c, e, d)
<1> DEFINE tag == IF e.tag \in {NoTag, "!"} THEN "default" ELSE e.tag
           node == [type |-> type, tag |-> tag, items |-> <<>>]
           ns == Append(c.nodes, node)
<1>1. /\ n \in Nat /\ c \in LoaderAt(n) /\ Len(c.nodes) = n
      /\ c.nodes \in Seq(NodeAt(n)) /\ c.aliases \in Seq(AliasAt(n))
      /\ c.frames \in Seq(FrameAt(n))
  BY DEF Typed, LoaderAt
<1>2. n + 1 \in Nat /\ n <= n + 1 /\ n + 1 \in 1 .. n + 1
  BY <1>1
<1>3. /\ c.nodes \in Seq(NodeAt(n + 1)) /\ c.aliases \in Seq(AliasAt(n + 1))
      /\ c.frames \in Seq(FrameAt(n + 1))
  BY <1>1, <1>2, References
<1>4. node \in NodeAt(n + 1)
  <2>1. tag \in Tags \cup {"default"}
    BY DEF NodeEvent
  <2>2. <<>> \in Seq(1 .. n + 1)
    BY EmptySeq
  <2> QED BY <2>1, <2>2 DEF NodeAt
<1> HIDE DEF node
<1>5. ns \in Seq(NodeAt(n + 1)) /\ Len(ns) = n + 1
  BY <1>1, <1>3, <1>4, AppendProperties
<1>6. d = Register([c EXCEPT !.nodes = ns], Len([c EXCEPT !.nodes = ns].nodes), e.anchor)
  BY DEF Compose, node
<1> HIDE DEF ns
<1>7. PICK b : b = [c EXCEPT !.nodes = ns]
  OBVIOUS
<1>8. /\ b \in LoaderAt(n + 1) /\ Len(b.nodes) = n + 1 /\ b.status = c.status
      /\ b.frames = c.frames /\ b.aliases = c.aliases
  BY <1>1, <1>3, <1>5, <1>7 DEF LoaderAt
<1>9. d = Register(b, n + 1, e.anchor)
  BY <1>6, <1>7, <1>8
<1>10. /\ e.anchor \in Anchors \cup {NoAnchor} /\ e.type # "ALIAS" /\ NoAnchor \notin Anchors
       /\ Refused(c, e) <=> e.anchor # NoAnchor /\ Known(c, e.anchor)
  BY LoaderAssumption DEF NodeEvent, Refused
<1>11. IndexOf(b, e.anchor) # 0 <=> Known(c, e.anchor)
  <2>1. IndexOf(b, e.anchor) = IndexOf(c, e.anchor)
    BY <1>8 DEF IndexOf
  <2> QED BY <2>1, IndexOfTyped
<1>12. CASE e.anchor = NoAnchor
  <2>1. d = b
    BY <1>9, <1>12 DEF Register
  <2>2. Names(c, e, d)
    BY <1>8, <1>10, <1>12, <2>1 DEF Names, Known
  <2> QED BY <1>2, <1>8, <1>10, <1>12, <2>1, <2>2 DEF Typed
<1>13. CASE e.anchor # NoAnchor /\ IndexOf(b, e.anchor) # 0
  <2>1. d = LoadFails(b)
    BY <1>9, <1>13 DEF Register
  <2> QED BY <1>10, <1>11, <1>13, <2>1 DEF LoadFails, Failed
<1>14. CASE e.anchor # NoAnchor /\ IndexOf(b, e.anchor) = 0
  <2> DEFINE data == [anchor |-> e.anchor, index |-> n + 1]
             as == Append(c.aliases, data)
  <2>1. data \in AliasAt(n + 1) /\ data.anchor = e.anchor
    BY <1>2, <1>10, <1>14 DEF AliasAt
  <2>2. /\ as \in Seq(AliasAt(n + 1))
        /\ Len(c.aliases) \in Nat /\ Len(as) = Len(c.aliases) + 1
        /\ as[Len(c.aliases) + 1] = data
        /\ \A i \in 1 .. Len(c.aliases) : as[i] = c.aliases[i]
    <3> HIDE DEF data
    <3> QED BY <1>3, <2>1, AppendProperties, LenProperties
  <2>3. d = [b EXCEPT !.aliases = as]
    BY <1>8, <1>9, <1>14 DEF Register
  <2> HIDE DEF as, data
  <2>4. d.aliases = as
    BY <1>8, <2>3 DEF LoaderAt
  <2>5. Names(c, e, d)
    <3>1. \A i : i \in 1 .. Len(as) <=> i \in 1 .. Len(c.aliases) \/ i = Len(c.aliases) + 1
      BY <2>2
    <3>2. \A anchor : Known(d, anchor) <=> Known(c, anchor) \/ anchor = e.anchor
      BY <2>1, <2>2, <2>4, <3>1 DEF Known
    <3> QED BY <1>10, <3>2 DEF Names
  <2>6. Typed(d, n + 1) /\ d.status = c.status /\ d.frames = c.frames
    BY <1>2, <1>8, <2>2, <2>3 DEF Typed, LoaderAt
  <2> QED BY <1>10, <1>11, <1>14, <2>5, <2>6
<1> QED BY <1>12, <1>13, <1>14

-----------------------------------------------------------------------------
(***************************************************************************)
(* The stream's stack.                                                     *)
(***************************************************************************)

(* The stream's stack operators are those of the loader's.                 *)
LEMMA SameOperators ==
    /\ \A s : Stream!Last(s) = Last(s)
    /\ \A s : Stream!Front(s) = Front(s)
BY DEF Stream!Last, Stream!Front, Last, Front

(* A node moves the construct it begins in on; what is below stays.        *)
LEMMA AdvancedProperties ==
    ASSUME StreamWellFormed, Stream!AcceptsNode
    PROVE  /\ Len(open) \in Nat \ {0}
           /\ Last(open) = open[Len(open)]
           /\ Last(open) \in Stream!Construct \ {"docEnd"}
           /\ Stream!Advanced \in Seq(Stream!Construct)
           /\ Len(Stream!Advanced) = Len(open)
           /\ \A k \in 1 .. Len(open) - 1 : Stream!Advanced[k] = open[k]
           /\ Stream!Advanced[Len(open)] = Stream!AfterChild(Last(open))
           /\ Stream!Advanced[1] \in {"root", "docEnd"}
<1>1. open \in Seq(Stream!Construct) /\ open # <<>> /\ Last(open) # "docEnd"
  BY SameOperators DEF StreamWellFormed, Stream!AcceptsNode
<1>2. /\ Len(open) \in Nat /\ Len(open) >= 1
      /\ Front(open) \in Seq(Stream!Construct)
      /\ Len(Front(open)) = Len(open) - 1
      /\ \A k \in 1 .. Len(open) - 1 : Front(open)[k] = open[k]
      /\ Last(open) \in Stream!Construct
  BY <1>1, FrontProperties
<1>3. Stream!AfterChild(Last(open)) \in Stream!Construct
  BY <1>1, <1>2 DEF Stream!AfterChild, Stream!Construct
<1>4. /\ Stream!Advanced \in Seq(Stream!Construct)
      /\ Len(Stream!Advanced) = Len(Front(open)) + 1
      /\ \A k \in 1 .. Len(Front(open)) : Stream!Advanced[k] = Front(open)[k]
      /\ Stream!Advanced[Len(Front(open)) + 1] = Stream!AfterChild(Last(open))
  BY <1>2, <1>3, SameOperators, AppendProperties DEF Stream!Advanced
<1>5. Len(open) - 1 + 1 = Len(open)
  BY <1>2
<1>6. Stream!Advanced[1] \in {"root", "docEnd"}
  <2>1. open[1] \in {"root", "docEnd"}
    BY <1>1 DEF StreamWellFormed
  <2>2. CASE Len(open) = 1
    <3>1. Last(open) = "root"
      BY <1>1, <2>1, <2>2 DEF Last
    <3> QED BY <1>2, <1>4, <1>5, <2>2, <3>1 DEF Stream!AfterChild
  <2>3. CASE Len(open) # 1
    <3>1. 1 \in 1 .. Len(open) - 1
      BY <1>2, <2>3
    <3> QED BY <1>2, <1>4, <2>1, <3>1
  <2> QED BY <2>2, <2>3
<1> QED BY <1>1, <1>2, <1>4, <1>5, <1>6 DEF Last

(* A loading document, as far as the constructs of o have come.            *)
Loading(c, o) ==
    c.status = "loading" /\ Typed(c, Len(c.nodes)) /\ Mirrors(c, o, TRUE)

(* A node has begun, and its index is still to be returned.                *)
LEMMA NodeBegins ==
    ASSUME StreamWellFormed, Stream!AcceptsNode, NEW c, Mirrors(c, open, TRUE)
    PROVE  Mirrors(c, Stream!Advanced, FALSE)
<1>1. /\ Len(open) \in Nat \ {0}
      /\ Last(open) = open[Len(open)]
      /\ Last(open) \in Stream!Construct \ {"docEnd"}
      /\ Len(Stream!Advanced) = Len(open)
      /\ \A k \in 1 .. Len(open) - 1 : Stream!Advanced[k] = open[k]
      /\ Stream!Advanced[Len(open)] = Stream!AfterChild(Last(open))
  BY AdvancedProperties
<1>2. ASSUME NEW k \in 1 .. Len(open)
      PROVE  LoadedAs(Stream!Advanced[k], c.frames[k], FALSE)
  <2>1. LoadedAs(open[k], c.frames[k], k = Len(open) /\ TRUE)
    BY DEF Mirrors
  <2>2. CASE k = Len(open)
    <3>1. LoadedAs(Last(open), c.frames[k], TRUE)
      BY <1>1, <2>1, <2>2
    <3> QED BY <1>1, <2>2, <3>1, ChildBegins
  <2>3. CASE k # Len(open)
    <3>1. k \in 1 .. Len(open) - 1 /\ (k = Len(open) /\ TRUE) = FALSE
      BY <1>1, <2>3
    <3> QED BY <1>1, <2>1, <3>1
  <2> QED BY <2>2, <2>3
<1>3. Len(c.frames) = Len(Stream!Advanced)
  BY <1>1 DEF Mirrors
<1>4. \A k \in 1 .. Len(open) : (k = Len(open) /\ FALSE) = FALSE
  OBVIOUS
<1> QED BY <1>1, <1>2, <1>3, <1>4 DEF Mirrors

(* An activation for a collection that has begun.                          *)
LEMMA CollectionBegins ==
    ASSUME NEW n, NEW c, Typed(c, n), NEW o \in Seq(Stream!Construct), Mirrors(c, o, FALSE),
           NEW kind \in {"sequence", "mapping"},
           NEW construct, construct = IF kind = "sequence" THEN "seq" ELSE "key",
           n # 0, c.status = "loading",
           NEW d, d = [c EXCEPT !.frames = Append(@, [kind |-> kind, index |-> n, key |-> 0])]
    PROVE  Loading(d, Append(o, construct))
<1> DEFINE frame == [kind |-> kind, index |-> n, key |-> 0]
           fs == Append(c.frames, frame)
           oo == Append(o, construct)
<1>1. /\ n \in Nat /\ c \in LoaderAt(n) /\ Len(c.nodes) = n
      /\ c.frames \in Seq(FrameAt(n)) /\ Len(o) \in Nat
  BY LenProperties DEF Typed, LoaderAt
<1>2. frame \in FrameAt(n) /\ LoadedAs(construct, frame, TRUE)
  <2>1. n \in 1 .. n /\ 0 \in 0 .. n
    BY <1>1
  <2>2. frame \in FrameAt(n)
    BY <2>1 DEF FrameAt
  <2>3. LoadedAs(construct, frame, TRUE)
    BY DEF LoadedAs
  <2> QED BY <2>2, <2>3
<1> HIDE DEF frame
<1>3. construct \in Stream!Construct
  BY DEF Stream!Construct
<1>4. /\ fs \in Seq(FrameAt(n)) /\ Len(fs) = Len(o) + 1
      /\ \A k \in 1 .. Len(o) : fs[k] = c.frames[k]
      /\ fs[Len(o) + 1] = frame
  <2>1. Len(c.frames) = Len(o)
    BY DEF Mirrors
  <2> QED BY <1>1, <1>2, <2>1, AppendProperties
<1>5. /\ Len(oo) = Len(o) + 1
      /\ \A k \in 1 .. Len(o) : oo[k] = o[k]
      /\ oo[Len(o) + 1] = construct
  BY <1>3, AppendProperties
<1>6. d = [c EXCEPT !.frames = fs]
  BY DEF frame
<1> HIDE DEF fs, oo
<1>7. d \in LoaderAt(n) /\ Len(d.nodes) = n /\ d.status = "loading" /\ d.frames = fs
  BY <1>1, <1>4, <1>6 DEF LoaderAt
<1>8. ASSUME NEW k \in 1 .. Len(oo)
      PROVE  LoadedAs(oo[k], d.frames[k], k = Len(oo) /\ TRUE)
  <2>1. CASE k = Len(o) + 1
    BY <1>2, <1>4, <1>5, <1>7, <2>1
  <2>2. CASE k # Len(o) + 1
    <3>1. k \in 1 .. Len(o) /\ (k = Len(oo) /\ TRUE) = FALSE
      BY <1>1, <1>5, <2>2
    <3>2. (k = Len(o) /\ FALSE) = FALSE
      OBVIOUS
    <3>3. LoadedAs(o[k], c.frames[k], FALSE)
      BY <3>1, <3>2 DEF Mirrors
    <3> QED BY <1>4, <1>5, <1>7, <3>1, <3>3
  <2> QED BY <2>1, <2>2
<1> QED BY <1>1, <1>4, <1>5, <1>7, <1>8 DEF Loading, Typed, Mirrors, oo

-----------------------------------------------------------------------------
(***************************************************************************)
(* The events of a document.                                               *)
(***************************************************************************)

(* What the stream has open behind the node event e.                       *)
OpenBehind(e) ==
    CASE e.type = "SEQUENCE-START" -> Append(Stream!Advanced, "seq")
      [] e.type = "MAPPING-START" -> Append(Stream!Advanced, "key")
      [] OTHER -> Stream!Advanced

(* The node event is refused, or else it names its node.                   *)
NodeLoaded(c, e, d) ==
    \/ Failed(d) /\ Refused(c, e)
    \/ Loading(d, OpenBehind(e)) /\ ~Refused(c, e) /\ Names(c, e, d)

(* An alias stands for a node of the document, or the call fails.          *)
LEMMA AliasLoaded ==
    ASSUME StreamWellFormed, Stream!AcceptsNode, NEW c, Loading(c, open),
           NEW e \in AliasEvent, NEW d, d = LoadNode(c, e)
    PROVE  NodeLoaded(c, e, d)
<1> SUFFICES ASSUME NEW n, n = Len(c.nodes)
             PROVE  NodeLoaded(c, e, d)
  OBVIOUS
<1>1. Typed(c, n) /\ Mirrors(c, open, TRUE) /\ c.status = "loading"
  BY DEF Loading
<1>2. e.type = "ALIAS" /\ OpenBehind(e) = Stream!Advanced
  BY DEF AliasEvent, OpenBehind
<1>3. d = LoadAlias(c, e)
  BY <1>2 DEF LoadNode
<1>4. PICK index : index = IndexOf(c, e.anchor)
  OBVIOUS
<1>5. /\ index \in 0 .. n /\ n \in Nat
      /\ Refused(c, e) <=> index = 0
  BY <1>1, <1>2, <1>4, IndexOfTyped DEF Typed, Refused
<1>6. CASE index = 0
  <2>1. Failed(d)
    BY <1>3, <1>4, <1>6 DEF LoadAlias, LoadFails, Failed
  <2> QED BY <1>5, <1>6, <2>1 DEF NodeLoaded
<1>7. CASE index # 0
  <2>1. d = Return(c, index) /\ index \in 1 .. n
    BY <1>3, <1>4, <1>5, <1>7 DEF LoadAlias
  <2>2. Mirrors(c, Stream!Advanced, FALSE)
    BY <1>1, NodeBegins
  <2>3. Stream!Advanced \in Seq(Stream!Construct) /\ Stream!Advanced # <<>>
    <3>1. Stream!Advanced \in Seq(Stream!Construct) /\ Len(Stream!Advanced) # 0
      BY AdvancedProperties
    <3> QED BY <3>1, EmptySeq
  <2>4. /\ Typed(d, n) /\ d.status = c.status /\ d.aliases = c.aliases
        /\ Mirrors(d, Stream!Advanced, TRUE)
    <3> SUFFICES ASSUME NEW o, o = Stream!Advanced
                 PROVE  /\ Typed(d, n) /\ d.status = c.status /\ d.aliases = c.aliases
                        /\ Mirrors(d, o, TRUE)
      OBVIOUS
    <3>1. TakesIndex(c, Return(c, index), n, o)
      BY <1>1, <2>1, <2>2, <2>3, Returned
    <3> QED BY <2>1, <3>1 DEF TakesIndex
  <2>5. Typed(d, Len(d.nodes))
    BY <2>4 DEF Typed
  <2>6. Names(c, e, d)
    BY <1>2, <2>4 DEF Names, Known
  <2> QED BY <1>1, <1>2, <1>5, <1>7, <2>4, <2>5, <2>6 DEF Loading, NodeLoaded
<1> QED BY <1>6, <1>7

(* A new node is composed; the index of a scalar is returned at once, a    *)
(* collection waits for its children.                                      *)
LEMMA NewNodeLoaded ==
    ASSUME StreamWellFormed, Stream!AcceptsNode, NEW c, Loading(c, open),
           NEW e \in NodeEvent, NEW d, d = LoadNode(c, e)
    PROVE  NodeLoaded(c, e, d)
<1> SUFFICES ASSUME NEW n, n = Len(c.nodes), NEW o, o = Stream!Advanced
             PROVE  NodeLoaded(c, e, d)
  OBVIOUS
<1>1. Typed(c, n) /\ Mirrors(c, open, TRUE) /\ c.status = "loading" /\ n \in Nat
  BY DEF Loading, Typed
<1>2. e.type \in {"SCALAR", "SEQUENCE-START", "MAPPING-START"}
  BY DEF NodeEvent
<1>3. Mirrors(c, o, FALSE) /\ o \in Seq(Stream!Construct) /\ o # <<>>
  <2>1. o \in Seq(Stream!Construct) /\ Len(o) # 0
    BY AdvancedProperties
  <2>2. Mirrors(c, o, FALSE)
    BY <1>1, NodeBegins
  <2> QED BY <2>1, <2>2, EmptySeq
<1>4. n + 1 \in Nat /\ n + 1 \in 1 .. n + 1 /\ n + 1 # 0
  BY <1>1
<1>5. ASSUME NEW b, NEW type \in NodeType, b = Compose(c, type, e)
      PROVE  \/ Failed(b) /\ b.status = "failed" /\ Refused(c, e)
             \/ /\ Typed(b, n + 1) /\ b.status = "loading" /\ Len(b.nodes) = n + 1
                /\ Mirrors(b, o, FALSE) /\ ~Refused(c, e) /\ Names(c, e, b)
  <2>1. \/ Failed(b) /\ Refused(c, e)
        \/ /\ Typed(b, n + 1) /\ b.status = c.status /\ b.frames = c.frames
           /\ ~Refused(c, e) /\ Names(c, e, b)
    BY <1>1, <1>5, Composed
  <2>2. Failed(b) => b.status = "failed"
    BY FailedTyped
  <2> QED BY <1>1, <1>3, <2>1, <2>2 DEF Typed, Mirrors
<1>6. CASE e.type = "SCALAR"
  <2>1. PICK b : b = Compose(c, "scalar", e)
    OBVIOUS
  <2>2. d = IF b.status = "failed" THEN b ELSE Return(b, Len(b.nodes))
    BY <1>6, <2>1 DEF LoadNode, LoadScalar
  <2>3. "scalar" \in NodeType
    BY DEF NodeType
  <2>4. CASE Failed(b) /\ b.status = "failed" /\ Refused(c, e)
    BY <2>2, <2>4 DEF NodeLoaded
  <2>5. CASE /\ Typed(b, n + 1) /\ b.status = "loading" /\ Len(b.nodes) = n + 1
             /\ Mirrors(b, o, FALSE) /\ ~Refused(c, e) /\ Names(c, e, b)
    <3>1. d = Return(b, n + 1)
      BY <2>2, <2>5
    <3>2. /\ Typed(d, n + 1) /\ d.status = b.status /\ d.aliases = b.aliases
          /\ Mirrors(d, o, TRUE)
      <4> SUFFICES ASSUME NEW m, m = n + 1
                   PROVE  /\ Typed(d, m) /\ d.status = b.status /\ d.aliases = b.aliases
                          /\ Mirrors(d, o, TRUE)
        OBVIOUS
      <4>1. m \in 1 .. m
        BY <1>4
      <4>2. Typed(b, m) /\ Mirrors(b, o, FALSE)
        BY <2>5
      <4>3. TakesIndex(b, Return(b, m), m, o)
        BY <1>3, <4>1, <4>2, Returned
      <4>4. TakesIndex(b, d, m, o)
        BY <3>1, <4>3
      <4> QED BY <4>4 DEF TakesIndex
    <3>3. Typed(d, Len(d.nodes))
      BY <3>2 DEF Typed
    <3>4. OpenBehind(e) = o
      BY <1>6 DEF OpenBehind
    <3>5. Names(c, e, d)
      BY <2>5, <3>2 DEF Names, Known
    <3> QED BY <2>5, <3>2, <3>3, <3>4, <3>5 DEF Loading, NodeLoaded
  <2> QED BY <1>5, <2>1, <2>3, <2>4, <2>5
<1>7. ASSUME NEW kind \in {"sequence", "mapping"},
             e.type = IF kind = "sequence" THEN "SEQUENCE-START" ELSE "MAPPING-START"
      PROVE  NodeLoaded(c, e, d)
  <2>1. PICK b : b = Compose(c, kind, e)
    OBVIOUS
  <2>2. d = IF b.status = "failed" THEN b
            ELSE [b EXCEPT !.frames = Append(@, [kind |-> kind, index |-> Len(b.nodes), key |-> 0])]
    BY <1>7, <2>1 DEF LoadNode, LoadCollection
  <2>3. kind \in NodeType
    BY DEF NodeType
  <2>4. CASE Failed(b) /\ b.status = "failed" /\ Refused(c, e)
    BY <2>2, <2>4 DEF NodeLoaded
  <2>5. CASE /\ Typed(b, n + 1) /\ b.status = "loading" /\ Len(b.nodes) = n + 1
             /\ Mirrors(b, o, FALSE) /\ ~Refused(c, e) /\ Names(c, e, b)
    <3> SUFFICES ASSUME NEW m, m = n + 1, NEW construct,
                        construct = IF kind = "sequence" THEN "seq" ELSE "key"
                 PROVE  NodeLoaded(c, e, d)
      OBVIOUS
    <3>1. d = [b EXCEPT !.frames = Append(@, [kind |-> kind, index |-> m, key |-> 0])]
      BY <2>2, <2>5
    <3>2. m # 0 /\ Typed(b, m)
      BY <1>4, <2>5
    <3>3. Loading(d, Append(o, construct))
      BY <1>3, <2>5, <3>1, <3>2, CollectionBegins
    <3>4. OpenBehind(e) = Append(o, construct)
      BY <1>7 DEF OpenBehind
    <3>5. d.aliases = b.aliases
      BY <3>1, <3>2 DEF Typed, LoaderAt
    <3>6. Names(c, e, d)
      BY <2>5, <3>5 DEF Names, Known
    <3> QED BY <2>5, <3>3, <3>4, <3>6 DEF NodeLoaded
  <2> QED BY <1>5, <2>1, <2>3, <2>4, <2>5
<1>8. CASE e.type = "SEQUENCE-START"
  BY <1>7, <1>8
<1>9. CASE e.type = "MAPPING-START"
  BY <1>7, <1>9
<1> QED BY <1>2, <1>6, <1>8, <1>9

(* The end of a collection: its index reaches what it began in.            *)
LEMMA CollectionEnded ==
    ASSUME StreamWellFormed, open # <<>>, Last(open) \in {"seq", "key"},
           NEW c, Loading(c, open), NEW d, d = EndCollection(c)
    PROVE  /\ Loading(d, Front(open)) /\ Front(open)[1] \in {"root", "docEnd"}
           /\ d.aliases = c.aliases
<1> SUFFICES ASSUME NEW n, n = Len(c.nodes), NEW o, o = Front(open)
             PROVE  /\ Loading(d, o) /\ o[1] \in {"root", "docEnd"}
                    /\ d.aliases = c.aliases
  OBVIOUS
<1>1. Typed(c, n) /\ Mirrors(c, open, TRUE) /\ c.status = "loading"
  BY DEF Loading
<1>2. /\ n \in Nat /\ c \in LoaderAt(n) /\ Len(c.nodes) = n /\ c.frames \in Seq(FrameAt(n))
  BY <1>1 DEF Typed, LoaderAt
<1>3. /\ open \in Seq(Stream!Construct)
      /\ Len(open) \in Nat /\ Len(open) >= 1
      /\ o \in Seq(Stream!Construct) /\ Len(o) = Len(open) - 1
      /\ \A k \in 1 .. Len(open) - 1 : o[k] = open[k]
      /\ Last(open) = open[Len(open)]
  <2>1. open \in Seq(Stream!Construct)
    BY DEF StreamWellFormed
  <2> QED BY <2>1, FrontProperties DEF Last
<1>4. Len(open) # 1 /\ open[1] \in {"root", "docEnd"}
  BY <1>3 DEF StreamWellFormed
<1>5. 1 \in 1 .. Len(open) - 1 /\ Len(o) # 0 /\ o # <<>>
  <2>1. 1 \in 1 .. Len(open) - 1 /\ Len(o) # 0
    BY <1>3, <1>4
  <2> QED BY <2>1, EmptySeq
<1> DEFINE fs == Front(c.frames)
<1>6. /\ fs \in Seq(FrameAt(n)) /\ Len(fs) = Len(o)
      /\ \A k \in 1 .. Len(open) - 1 : fs[k] = c.frames[k]
      /\ Last(c.frames) = c.frames[Len(open)]
  <2>1. Len(c.frames) = Len(open)
    BY <1>1 DEF Mirrors
  <2>2. c.frames # <<>>
    <3>1. Len(c.frames) # 0
      BY <1>3, <2>1
    <3> QED BY <3>1, EmptySeq
  <2> QED BY <1>2, <1>3, <2>1, <2>2, FrontProperties DEF Last
<1>7. Last(c.frames).index \in 1 .. n
  <2>1. SUFFICES ASSUME NEW f, f = c.frames[Len(open)]
                 PROVE  f.index \in 1 .. n
    BY <1>6
  <2>2. f \in FrameAt(n)
    <3>1. Len(open) \in 1 .. Len(c.frames)
      BY <1>1, <1>3 DEF Mirrors
    <3> QED BY <1>2, <2>1, <3>1, ElementOfSeq
  <2>3. LoadedAs(Last(open), f, TRUE)
    <3>1. Len(open) \in 1 .. Len(open)
      BY <1>3
    <3>2. LoadedAs(open[Len(open)], f, Len(open) = Len(open) /\ TRUE)
      BY <1>1, <2>1, <3>1 DEF Mirrors
    <3>3. (Len(open) = Len(open) /\ TRUE) = TRUE
      OBVIOUS
    <3> QED BY <1>3, <3>2, <3>3
  <2>4. f.kind # "document"
    BY <2>3 DEF LoadedAs
  <2> QED BY <2>2, <2>4 DEF FrameAt
<1>8. PICK b : b = [c EXCEPT !.frames = fs]
  OBVIOUS
<1>9. PICK index : index = Last(c.frames).index
  OBVIOUS
<1>10. d = Return(b, index)
  BY <1>8, <1>9 DEF EndCollection
<1> HIDE DEF fs
<1>11. /\ b \in LoaderAt(n) /\ Len(b.nodes) = n /\ b.status = "loading" /\ b.frames = fs
       /\ b.aliases = c.aliases
  BY <1>1, <1>2, <1>6, <1>8 DEF LoaderAt
<1>12. Typed(b, n)
  BY <1>2, <1>11 DEF Typed
<1>13. Mirrors(b, o, FALSE)
  <2>1. ASSUME NEW k \in 1 .. Len(o)
        PROVE  LoadedAs(o[k], b.frames[k], k = Len(o) /\ FALSE)
    <3>1. k \in 1 .. Len(open) - 1 /\ k \in 1 .. Len(open) /\ k # Len(open)
      BY <1>3
    <3>2. (k = Len(o) /\ FALSE) = FALSE /\ (k = Len(open) /\ TRUE) = FALSE
      BY <3>1
    <3>3. LoadedAs(open[k], c.frames[k], FALSE)
      BY <1>1, <3>1, <3>2 DEF Mirrors
    <3> QED BY <1>3, <1>6, <1>11, <3>1, <3>2, <3>3
  <2> QED BY <1>6, <1>11, <2>1 DEF Mirrors
<1>14. Typed(d, n) /\ d.status = b.status /\ d.aliases = b.aliases /\ Mirrors(d, o, TRUE)
  <2>1. index \in 1 .. n
    BY <1>7, <1>9
  <2>2. TakesIndex(b, Return(b, index), n, o)
    BY <1>3, <1>5, <1>12, <1>13, <2>1, Returned
  <2> QED BY <1>10, <2>2 DEF TakesIndex
<1>15. Typed(d, Len(d.nodes))
  BY <1>14 DEF Typed
<1>16. o[1] \in {"root", "docEnd"}
  BY <1>3, <1>4, <1>5
<1> QED BY <1>11, <1>14, <1>15, <1>16 DEF Loading

(* The end of a document: the nodes stay.                                  *)
LEMMA DocumentEnded ==
    ASSUME NEW n, NEW c, Typed(c, n), NEW e \in DocumentEvent, e.type = "DOCUMENT-END",
           NEW d, d = EndDocument(c, e)
    PROVE  Typed(d, n) /\ d.status = "ready" /\ d.aliases = <<>>
<1>1. n \in Nat /\ c \in LoaderAt(n) /\ Len(c.nodes) = n /\ e.implicit \in BOOLEAN
  BY DEF Typed, DocumentEvent
<1>2. <<>> \in Seq(AliasAt(n)) /\ <<>> \in Seq(FrameAt(n))
  BY EmptySeq
<1>3. d = [c EXCEPT !.status = "ready", !.frames = <<>>, !.endImplicit = e.implicit,
                    !.aliases = <<>>]
  BY <1>1 DEF EndDocument, DeleteAliases, LoaderAt
<1> QED BY <1>1, <1>2, <1>3 DEF Typed, LoaderAt, Status

(* A call that takes the first event of a document, between two of them.   *)
LEMMA DocumentBegun ==
    ASSUME NEW c, NEW e \in DocumentEvent, e.type = "DOCUMENT-START", NEW d, d = Begin(c, e)
    PROVE  Loading(d, <<"root">>) /\ d.aliases = <<>>
<1> DEFINE frame == [kind |-> "document", index |-> 0, key |-> 0]
           fs == <<frame>>
<1>1. frame \in FrameAt(0) /\ LoadedAs("root", frame, TRUE)
  BY DEF FrameAt, LoadedAs
<1>2. d = [Empty EXCEPT !.status = "loading", !.startImplicit = e.implicit,
                        !.frames = fs]
  BY DEF Begin
<1> HIDE DEF frame
<1>3. /\ fs \in Seq(FrameAt(0)) /\ Len(fs) = 1 /\ fs[1] = frame
      /\ <<>> \in Seq(NodeAt(0)) /\ <<>> \in Seq(AliasAt(0)) /\ Len(<<>>) = 0
      /\ e.implicit \in BOOLEAN
  <2>1. e.implicit \in BOOLEAN
    BY DEF DocumentEvent
  <2> QED BY <1>1, <2>1, EmptySeq
<1> HIDE DEF fs
<1>4. /\ d \in LoaderAt(0) /\ d.nodes = <<>> /\ d.status = "loading" /\ d.frames = fs
      /\ d.aliases = <<>>
  BY <1>2, <1>3 DEF Empty, LoaderAt, Status
<1>5. Len(<<"root">>) = 1 /\ <<"root">>[1] = "root"
  OBVIOUS
<1>6. Mirrors(d, <<"root">>, TRUE)
  <2>1. ASSUME NEW k \in 1 .. 1 PROVE LoadedAs(<<"root">>[k], d.frames[k], k = 1 /\ TRUE)
    <3>1. k = 1 /\ (k = 1 /\ TRUE) = TRUE
      OBVIOUS
    <3>2. d.frames[k] = frame /\ <<"root">>[k] = "root"
      BY <1>3, <1>4, <1>5, <3>1
    <3> QED BY <1>1, <3>1, <3>2
  <2> QED BY <1>3, <1>4, <1>5, <2>1 DEF Mirrors
<1> QED BY <1>3, <1>4, <1>6 DEF Loading, Typed

-----------------------------------------------------------------------------
(***************************************************************************)
(* The steps.                                                              *)
(***************************************************************************)

(* What a loader has between its calls and inside of one.                  *)
LEMMA InvCases ==
    ASSUME Inv, Calls
    PROVE  /\ loader.status = "ready" => open = <<>>
           /\ loader.status = "loading" => open # <<>> /\ Loading(loader, open)
           /\ loader.status \in {"ready", "loading"}
<1>1. DOMAIN open = 1 .. Len(open)
  BY LenProperties DEF Inv, StreamWellFormed
<1>2. loader.status = "loading" => Mirrors(loader, open, TRUE)
  <2>1. \A k \in 1 .. Len(open) : (k = Len(open) /\ TRUE) = (k = Len(open))
    OBVIOUS
  <2> QED BY <1>1, <2>1 DEF Inv, FramesMirrorStream, Mirrors
<1> QED BY <1>2 DEF Inv, FramesMirrorStream, Loading, Calls

LEMMA LoadingKeeps ==
    ASSUME StreamWellFormed', Loading(loader', open'), open' # <<>>
    PROVE  Inv'
<1>1. DOMAIN open' = 1 .. Len(open')
  BY LenProperties DEF StreamWellFormed
<1>2. Mirrors(loader', open', TRUE)
  BY DEF Loading
<1>3. \A k \in 1 .. Len(open') : (k = Len(open') /\ TRUE) = (k = Len(open'))
  OBVIOUS
<1>4. FramesMirrorStream'
  BY <1>1, <1>2, <1>3 DEF FramesMirrorStream, Mirrors, Loading
<1> QED BY <1>4 DEF Inv, Loading

LEMMA OtherwiseKeeps ==
    ASSUME StreamWellFormed', NEW n, Typed(loader', n),
           loader'.status \in {"ready", "empty", "failed"},
           loader'.status = "ready" => open' = <<>>
    PROVE  Inv'
<1>1. Typed(loader', Len(loader'.nodes))
  BY DEF Typed
<1>2. FramesMirrorStream'
  BY DEF FramesMirrorStream
<1> QED BY <1>1, <1>2 DEF Inv

(* What the event e makes of the anchors of the loader c, which becomes d. *)
Effect(c, e, d) ==
    /\ e.type \in Stream!NodeEventType =>
          \/ d.status = "failed" /\ Refused(c, e)
          \/ d.status = "loading" /\ ~Refused(c, e) /\ Names(c, e, d)
    /\ e.type = "DOCUMENT-START" =>
          c.status = "ready" /\ d.status = "loading" /\ d.aliases = <<>>
    /\ e.type = "DOCUMENT-END" => d.status = "ready" /\ d.aliases = <<>>
    /\ e.type = "STREAM-END" => d.status = "empty"
    /\ e.type \in {"STREAM-START", "SEQUENCE-END", "MAPPING-END"} =>
          d.status = c.status /\ d.aliases = c.aliases

(* A node event continues the document.                                    *)
LEMMA NodeStep ==
    ASSUME Inv, Calls, Stream!AcceptsNode, NEW e \in NodeEvent \cup AliasEvent,
           Take(e), open' = OpenBehind(e), phase = "stream", phase' = phase
    PROVE  Inv' /\ Effect(loader, e, loader')
<1>1. StreamWellFormed /\ open # <<>>
  BY DEF Inv, Stream!AcceptsNode
<1>2. loader.status = "loading" /\ Loading(loader, open)
  BY <1>1, InvCases
<1>3. /\ Len(open) \in Nat \ {0}
      /\ Last(open) = open[Len(open)]
      /\ Last(open) \in Stream!Construct \ {"docEnd"}
      /\ Stream!Advanced \in Seq(Stream!Construct)
      /\ Len(Stream!Advanced) = Len(open)
      /\ Stream!Advanced[1] \in {"root", "docEnd"}
  BY <1>1, AdvancedProperties
<1>4. PICK d : d = LoadNode(loader, e)
  OBVIOUS
<1>5. loader' = d
  <2>1. e.type \notin {"SEQUENCE-END", "MAPPING-END"}
    BY DEF NodeEvent, AliasEvent
  <2>2. loader' = Continue(loader, e)
    BY <1>2 DEF Take, LoadEvent
  <2>3. PICK f : f = Last(loader.frames)
    OBVIOUS
  <2>4. LoadedAs(Last(open), f, TRUE)
    <3>1. Len(open) \in 1 .. Len(open) /\ Len(loader.frames) = Len(open)
      BY <1>2, <1>3 DEF Loading, Mirrors
    <3>2. LoadedAs(open[Len(open)], loader.frames[Len(open)], Len(open) = Len(open) /\ TRUE)
      BY <1>2, <3>1 DEF Loading, Mirrors
    <3>3. (Len(open) = Len(open) /\ TRUE) = TRUE
      OBVIOUS
    <3> QED BY <1>3, <2>3, <3>1, <3>2, <3>3 DEF Last
  <2>5. f.kind \in {"document", "sequence", "mapping"} /\ (f.kind = "document" => f.key = 0)
    BY <1>3, <2>4 DEF LoadedAs, Stream!Construct
  <2> QED BY <1>4, <2>1, <2>2, <2>3, <2>5 DEF Continue
<1>6. NodeLoaded(loader, e, d)
  BY <1>1, <1>2, <1>4, AliasLoaded, NewNodeLoaded
<1>7. StreamWellFormed' /\ open' # <<>>
  <2>1. ASSUME NEW construct \in Stream!Construct
        PROVE  /\ Append(Stream!Advanced, construct) \in Seq(Stream!Construct)
               /\ Len(Append(Stream!Advanced, construct)) = Len(open) + 1
               /\ Append(Stream!Advanced, construct)[1] \in {"root", "docEnd"}
    <3>1. 1 \in 1 .. Len(open)
      BY <1>3
    <3> QED BY <1>3, <3>1, AppendProperties
  <2>2. "seq" \in Stream!Construct /\ "key" \in Stream!Construct
    BY DEF Stream!Construct
  <2>3. /\ open' \in Seq(Stream!Construct) /\ Len(open') \in {Len(open), Len(open) + 1}
        /\ open'[1] \in {"root", "docEnd"}
    BY <1>3, <2>1, <2>2 DEF OpenBehind
  <2>4. Len(open') # 0
    BY <1>3, <2>3
  <2> QED BY <2>3, <2>4, EmptySeq DEF StreamWellFormed
<1>8. ASSUME \/ d.status = "failed" /\ Refused(loader, e)
             \/ d.status = "loading" /\ ~Refused(loader, e) /\ Names(loader, e, d)
      PROVE  Effect(loader, e, d)
  <2>1. e.type \in {"ALIAS", "SCALAR", "SEQUENCE-START", "MAPPING-START"}
    BY DEF NodeEvent, AliasEvent
  <2>2. /\ e.type \notin {"DOCUMENT-START", "DOCUMENT-END", "STREAM-END"}
        /\ e.type \notin {"STREAM-START", "SEQUENCE-END", "MAPPING-END"}
    BY <2>1
  <2> QED BY <1>8, <2>2 DEF Effect
<1>9. CASE Failed(d) /\ Refused(loader, e)
  <2>1. Typed(d, 0) /\ d.status = "failed"
    BY <1>9, FailedTyped
  <2>2. Inv'
    BY <1>5, <1>7, <2>1, OtherwiseKeeps
  <2> QED BY <1>5, <1>8, <1>9, <2>1, <2>2
<1>10. CASE Loading(d, OpenBehind(e)) /\ ~Refused(loader, e) /\ Names(loader, e, d)
  <2>1. Inv'
    BY <1>5, <1>7, <1>10, LoadingKeeps
  <2>2. d.status = "loading"
    BY <1>10 DEF Loading
  <2> QED BY <1>5, <1>8, <1>10, <2>1, <2>2
<1> QED BY <1>6, <1>9, <1>10 DEF NodeLoaded

(* The end of a collection.                                                *)
LEMMA CollectionEndStep ==
    ASSUME Inv, Calls, NEW e \in OtherEvent, Take(e), phase = "stream", phase' = phase,
           open # <<>>, open' = Front(open),
           \/ e.type = "SEQUENCE-END" /\ Last(open) = "seq"
           \/ e.type = "MAPPING-END" /\ Last(open) = "key"
    PROVE  Inv' /\ Effect(loader, e, loader')
<1>1. StreamWellFormed /\ loader.status = "loading" /\ Loading(loader, open)
  BY InvCases DEF Inv
<1>2. /\ open \in Seq(Stream!Construct) /\ Len(open) \in Nat /\ Len(open) >= 1
      /\ Front(open) \in Seq(Stream!Construct) /\ Len(Front(open)) = Len(open) - 1
  <2>1. open \in Seq(Stream!Construct)
    BY <1>1 DEF StreamWellFormed
  <2> QED BY <2>1, FrontProperties
<1>3. PICK d : d = EndCollection(loader)
  OBVIOUS
<1>4. loader' = d
  <2>1. loader' = Continue(loader, e)
    BY <1>1 DEF Take, LoadEvent
  <2>2. PICK f : f = Last(loader.frames)
    OBVIOUS
  <2>3. LoadedAs(Last(open), f, TRUE)
    <3>1. Len(open) \in 1 .. Len(open) /\ Len(loader.frames) = Len(open)
      BY <1>1, <1>2 DEF Loading, Mirrors
    <3>2. LoadedAs(open[Len(open)], loader.frames[Len(open)], Len(open) = Len(open) /\ TRUE)
      BY <1>1, <3>1 DEF Loading, Mirrors
    <3>3. (Len(open) = Len(open) /\ TRUE) = TRUE
      OBVIOUS
    <3> QED BY <2>2, <3>1, <3>2, <3>3 DEF Last
  <2>4. CASE e.type = "SEQUENCE-END" /\ Last(open) = "seq"
    <3>1. f.kind = "sequence"
      BY <2>3, <2>4 DEF LoadedAs
    <3> QED BY <1>3, <2>1, <2>2, <2>4, <3>1 DEF Continue
  <2>5. CASE e.type = "MAPPING-END" /\ Last(open) = "key"
    <3>1. f.kind = "mapping" /\ f.key = 0
      BY <2>3, <2>5 DEF LoadedAs
    <3> QED BY <1>3, <2>1, <2>2, <2>5, <3>1 DEF Continue
  <2> QED BY <2>4, <2>5
<1>5. /\ Loading(d, Front(open)) /\ Front(open)[1] \in {"root", "docEnd"}
      /\ d.aliases = loader.aliases
  BY <1>1, <1>3, CollectionEnded
<1>6. Front(open) # <<>>
  <2>1. open[1] \in {"root", "docEnd"}
    BY <1>1 DEF StreamWellFormed
  <2>2. Len(open) # 1
    BY <2>1 DEF Last
  <2>3. Len(Front(open)) # 0
    BY <1>2, <2>2
  <2> QED BY <1>2, <2>3, EmptySeq
<1>7. StreamWellFormed'
  BY <1>2, <1>5, <1>6 DEF StreamWellFormed
<1>8. Inv'
  BY <1>4, <1>5, <1>6, <1>7, LoadingKeeps
<1>9. Effect(loader, e, loader')
  BY <1>1, <1>4, <1>5 DEF Effect, Loading, Stream!NodeEventType
<1> QED BY <1>8, <1>9

(* A document begins, between calls for two of them.                       *)
LEMMA DocumentStartStep ==
    ASSUME Inv, Calls, NEW e \in DocumentEvent, e.type = "DOCUMENT-START", Take(e),
           open = <<>>, open' = <<"root">>, phase = "stream", phase' = phase
    PROVE  Inv' /\ Effect(loader, e, loader')
<1>1. loader.status = "ready"
  BY InvCases
<1>2. PICK d : d = Begin(loader, e)
  OBVIOUS
<1>3. loader' = d
  BY <1>1, <1>2 DEF Take, LoadEvent
<1>4. Loading(d, <<"root">>) /\ d.aliases = <<>>
  BY <1>1, <1>2, DocumentBegun
<1>5. <<"root">> \in Seq(Stream!Construct) /\ <<"root">> # <<>> /\ <<"root">>[1] = "root"
  BY DEF Stream!Construct
<1>6. StreamWellFormed'
  BY <1>5 DEF StreamWellFormed
<1>7. Inv'
  BY <1>3, <1>4, <1>5, <1>6, LoadingKeeps
<1>8. Effect(loader, e, loader')
  BY <1>1, <1>3, <1>4 DEF Effect, Loading, Stream!NodeEventType
<1> QED BY <1>7, <1>8

(* A document ends: the call returns it.                                   *)
LEMMA DocumentEndStep ==
    ASSUME Inv, Calls, NEW e \in DocumentEvent, e.type = "DOCUMENT-END", Take(e),
           open = <<"docEnd">>, open' = <<>>, phase = "stream", phase' = phase
    PROVE  Inv' /\ Effect(loader, e, loader')
<1>1. /\ loader.status = "loading" /\ Typed(loader, Len(loader.nodes))
      /\ Mirrors(loader, open, TRUE)
  <2>1. open # <<>>
    OBVIOUS
  <2> QED BY <2>1, InvCases DEF Loading
<1>2. PICK d : d = EndDocument(loader, e)
  OBVIOUS
<1>3. PICK f : f = Last(loader.frames)
  OBVIOUS
<1>4. f.kind = "document" /\ f.key # 0
  <2>1. Len(open) = 1 /\ open[1] = "docEnd"
    OBVIOUS
  <2>2. Len(loader.frames) = 1 /\ LoadedAs("docEnd", loader.frames[1], 1 = 1 /\ TRUE)
    BY <1>1, <2>1 DEF Mirrors
  <2>3. (1 = 1 /\ TRUE) = TRUE
    OBVIOUS
  <2>4. LoadedAs("docEnd", f, TRUE)
    BY <1>3, <2>2, <2>3 DEF Last
  <2> QED BY <2>4 DEF LoadedAs
<1>5. loader' = d
  BY <1>1, <1>2, <1>3, <1>4 DEF Take, LoadEvent, Continue
<1>6. Typed(d, Len(loader.nodes)) /\ d.status = "ready" /\ d.aliases = <<>>
  <2> SUFFICES ASSUME NEW n, n = Len(loader.nodes)
               PROVE  Typed(d, n) /\ d.status = "ready" /\ d.aliases = <<>>
    OBVIOUS
  <2> QED BY <1>1, <1>2, DocumentEnded
<1>7. StreamWellFormed'
  BY EmptySeq DEF StreamWellFormed
<1>8. Inv'
  BY <1>5, <1>6, <1>7, OtherwiseKeeps
<1>9. Effect(loader, e, loader')
  BY <1>5, <1>6 DEF Effect, Stream!NodeEventType
<1> QED BY <1>8, <1>9

(* The stream begins inside the first call.                                *)
LEMMA StreamStartStep ==
    ASSUME Inv, Calls, NEW e \in OtherEvent, e.type = "STREAM-START", Take(e),
           Stream!StreamStart
    PROVE  Inv' /\ Effect(loader, e, loader')
<1>1. open = <<>> /\ open' = <<>> /\ phase' = "stream"
  BY DEF Inv, StreamWellFormed, Stream!StreamStart
<1>2. loader.status = "ready" /\ loader' = loader
  <2>1. loader.status = "ready"
    BY <1>1, InvCases
  <2> QED BY <2>1 DEF Take, LoadEvent
<1>3. StreamWellFormed'
  BY <1>1, EmptySeq DEF StreamWellFormed
<1>4. Typed(loader', Len(loader.nodes))
  BY <1>2 DEF Inv
<1>5. Inv'
  BY <1>1, <1>2, <1>3, <1>4, OtherwiseKeeps
<1>6. Effect(loader, e, loader')
  BY <1>2 DEF Effect, Stream!NodeEventType
<1> QED BY <1>5, <1>6

(* The last call finds the end of the stream.                              *)
LEMMA StreamEndStep ==
    ASSUME Inv, Calls, NEW e \in OtherEvent, e.type = "STREAM-END", Take(e),
           Stream!StreamEnd
    PROVE  Inv' /\ Effect(loader, e, loader')
<1>1. open = <<>> /\ open' = <<>> /\ phase' = "ended"
  BY DEF Stream!StreamEnd
<1>2. loader' = [Empty EXCEPT !.status = "empty"]
  <2>1. loader.status = "ready"
    BY <1>1, InvCases
  <2> QED BY <2>1 DEF Take, LoadEvent, Begin
<1>3. StreamWellFormed'
  BY <1>1, EmptySeq DEF StreamWellFormed
<1>4. Typed(loader', 0) /\ loader'.status = "empty"
  <2>1. /\ <<>> \in Seq(NodeAt(0)) /\ <<>> \in Seq(AliasAt(0)) /\ <<>> \in Seq(FrameAt(0))
        /\ Len(<<>>) = 0
    BY EmptySeq
  <2> QED BY <1>2, <2>1 DEF Typed, LoaderAt, Empty, Status
<1>5. Inv'
  BY <1>3, <1>4, OtherwiseKeeps
<1>6. Effect(loader, e, loader')
  BY <1>4 DEF Effect, Stream!NodeEventType
<1> QED BY <1>5, <1>6

(* Whatever the stream delivers.                                           *)
LEMMA DeliveryKeeps ==
    ASSUME Inv, Calls, NEW e \in Event, Delivered(e), Take(e)
    PROVE  Inv' /\ Effect(loader, e, loader')
<1>1. CASE e \in NodeEvent \cup AliasEvent
  <2>1. e.type \in {"ALIAS", "SCALAR", "SEQUENCE-START", "MAPPING-START"}
    BY <1>1 DEF NodeEvent, AliasEvent
  <2>2. /\ Stream!AcceptsNode /\ open' = OpenBehind(e)
        /\ phase = "stream" /\ phase' = phase
    BY <2>1 DEF Delivered, OpenBehind, Stream!Alias, Stream!Scalar, Stream!SequenceStart,
           Stream!MappingStart
  <2> QED BY <1>1, <2>2, NodeStep
<1>2. CASE e \in DocumentEvent
  <2>1. e.type \in {"DOCUMENT-START", "DOCUMENT-END"}
    BY <1>2 DEF DocumentEvent
  <2>2. CASE e.type = "DOCUMENT-START"
    <3>1. open = <<>> /\ open' = <<"root">> /\ phase = "stream" /\ phase' = phase
      BY <2>2 DEF Delivered, Stream!DocumentStart
    <3> QED BY <1>2, <2>2, <3>1, DocumentStartStep
  <2>3. CASE e.type = "DOCUMENT-END"
    <3>1. open = <<"docEnd">> /\ open' = <<>> /\ phase = "stream" /\ phase' = phase
      BY <2>3 DEF Delivered, Stream!DocumentEnd
    <3> QED BY <1>2, <2>3, <3>1, DocumentEndStep
  <2> QED BY <2>1, <2>2, <2>3
<1>3. CASE e \in OtherEvent
  <2>1. e.type \in {"STREAM-START", "STREAM-END", "SEQUENCE-END", "MAPPING-END"}
    BY <1>3 DEF OtherEvent
  <2>2. CASE e.type = "STREAM-START"
    <3>1. Stream!StreamStart
      BY <2>2 DEF Delivered
    <3> QED BY <1>3, <2>2, <3>1, StreamStartStep
  <2>3. CASE e.type = "STREAM-END"
    <3>1. Stream!StreamEnd
      BY <2>3 DEF Delivered
    <3> QED BY <1>3, <2>3, <3>1, StreamEndStep
  <2>4. CASE e.type \in {"SEQUENCE-END", "MAPPING-END"}
    <3>1. /\ phase = "stream" /\ phase' = phase /\ open # <<>> /\ open' = Front(open)
          /\ \/ e.type = "SEQUENCE-END" /\ Last(open) = "seq"
             \/ e.type = "MAPPING-END" /\ Last(open) = "key"
      BY <2>4, SameOperators DEF Delivered, Stream!SequenceEnd, Stream!MappingEnd
    <3> QED BY <1>3, <3>1, CollectionEndStep
  <2> QED BY <2>1, <2>2, <2>3, <2>4
<1> QED BY <1>1, <1>2, <1>3 DEF Event

-----------------------------------------------------------------------------
(***************************************************************************)
(* The theorems.                                                           *)
(***************************************************************************)

LEMMA InvInitially == Init /\ Stream!Init => Inv
<1> SUFFICES ASSUME Init, Stream!Init PROVE Inv
  OBVIOUS
<1>1. open = <<>> /\ phase = "before" /\ loader = Empty
  BY DEF Init, Stream!Init
<1>2. StreamWellFormed
  BY <1>1, EmptySeq DEF StreamWellFormed
<1>3. /\ <<>> \in Seq(NodeAt(0)) /\ <<>> \in Seq(AliasAt(0)) /\ <<>> \in Seq(FrameAt(0))
      /\ Len(<<>>) = 0
  BY EmptySeq
<1>4. Typed(loader, 0) /\ loader.status = "ready" /\ loader.nodes = <<>>
  BY <1>1, <1>3 DEF Typed, LoaderAt, Empty, Status
<1> QED BY <1>1, <1>2, <1>3, <1>4 DEF Inv, FramesMirrorStream

LEMMA InvKept == Inv /\ [Next]_vars => Inv'
<1> SUFFICES ASSUME Inv, [Next]_vars PROVE Inv'
  OBVIOUS
<1>1. CASE LoadNext
  BY <1>1, DeliveryKeeps DEF LoadNext
<1>2. CASE LoadFailsInParser
  <2>1. open' = <<>> /\ phase' = "aborted"
    BY <1>2 DEF LoadFailsInParser, Stream!Abort
  <2>2. StreamWellFormed'
    BY <2>1, EmptySeq DEF StreamWellFormed
  <2>3. PICK d : d = LoadFails(loader)
    OBVIOUS
  <2>4. loader' = d /\ Failed(d)
    BY <1>2, <2>3 DEF LoadFailsInParser, ParseFails, LoadFails, Failed
  <2>5. Typed(d, 0) /\ d.status = "failed"
    BY <2>4, FailedTyped
  <2> QED BY <2>2, <2>4, <2>5, OtherwiseKeeps
<1>3. CASE UNCHANGED vars
  BY <1>3 DEF vars, Inv, StreamWellFormed, FramesMirrorStream
<1> QED BY <1>1, <1>2, <1>3 DEF Next

(* Whatever stream is loaded, the items, anchors and activations of the    *)
(* loader point at nodes of the document, in every state.                  *)
THEOREM LoaderTyped == Spec => []TypeOK
<1>1. Inv => TypeOK
  <2> SUFFICES ASSUME Inv PROVE TypeOK
    OBVIOUS
  <2>1. SUFFICES ASSUME NEW n, n = Len(loader.nodes), NEW c, c = loader
                 PROVE  /\ c.status \in Status
                        /\ c.nodes \in Seq(NodeAt(n))
                        /\ c.aliases \in Seq([anchor : Anchors, index : 1 .. n])
                        /\ c.frames \in Seq(Frame)
                        /\ \A i \in DOMAIN c.frames : c.frames[i].index <= n /\ c.frames[i].key <= n
    BY DEF TypeOK
  <2>2. n \in Nat /\ c \in LoaderAt(n)
    BY <2>1 DEF Inv, Typed
  <2>3. c.frames \in Seq(FrameAt(n)) /\ FrameAt(n) \subseteq Frame
    BY <2>2 DEF LoaderAt, FrameAt, Frame
  <2>4. c.frames \in Seq(Frame)
    BY <2>3, SeqMonotonic
  <2>5. ASSUME NEW i \in DOMAIN c.frames
        PROVE  c.frames[i].index <= n /\ c.frames[i].key <= n
    <3>1. i \in 1 .. Len(c.frames)
      BY <2>3, LenProperties
    <3>2. c.frames[i] \in FrameAt(n)
      BY <2>3, <3>1, ElementOfSeq
    <3> QED BY <2>2, <3>2 DEF FrameAt
  <2> QED BY <2>2, <2>4, <2>5 DEF LoaderAt, AliasAt
<1> QED BY <1>1, InvInitially, InvKept, PTL DEF Spec

(* Whatever stream is loaded, the loader keeps step with it: its           *)
(* activations are the constructs that are open, and none of the           *)
(* assertions of loader.c about the next event fails.                      *)
THEOREM LoaderKeepsStep == Spec => []FramesMirrorStream
<1>1. Inv => FramesMirrorStream
  BY DEF Inv
<1> QED BY <1>1, InvInitially, InvKept, PTL DEF Spec

-----------------------------------------------------------------------------
(***************************************************************************)
(* The anchors of a history.                                               *)
(***************************************************************************)

(* A node of the last document of events has the anchor.                   *)
NamedHere(events, anchor) ==
    \E j \in 1 .. Len(events) :
        /\ Defining(events, j) /\ events[j].anchor = anchor
        /\ \A k \in j .. Len(events) : Type(events, k) # "DOCUMENT-END"

(* The event e cannot follow the events.                                   *)
RefusedBehind(events, e) ==
    \/ e.type = "ALIAS" /\ ~NamedHere(events, e.anchor)
    \/ /\ e.type \in {"SCALAR", "SEQUENCE-START", "MAPPING-START"}
       /\ e.anchor # NoAnchor /\ NamedHere(events, e.anchor)

(* What the loader knows of the events behind it.                          *)
NamesInv ==
    /\ loader.status = "ready" => loader.aliases = <<>>
    /\ Calls => \A anchor \in Anchors : Known(loader, anchor) <=> NamedHere(history, anchor)
    /\ phase # "aborted" => (loader.status = "failed" <=> BadAnchors(history))

HInv == Inv /\ history \in Seq(Event) /\ NamesInv

(* One more event.                                                         *)
LEMMA HistoryGrows ==
    ASSUME NEW h \in Seq(Event), NEW e \in Event, NEW g, g = Append(h, e)
    PROVE  /\ g \in Seq(Event) /\ Len(h) \in Nat /\ Len(g) = Len(h) + 1
           /\ g[Len(h) + 1] = e
           /\ \A i \in 1 .. Len(h) : g[i] = h[i]
           /\ DOMAIN g = 1 .. Len(h) + 1 /\ DOMAIN h = 1 .. Len(h)
<1>1. /\ g \in Seq(Event) /\ Len(h) \in Nat /\ Len(g) = Len(h) + 1
      /\ g[Len(h) + 1] = e
      /\ \A i \in 1 .. Len(h) : g[i] = h[i]
  BY AppendProperties, LenProperties
<1> QED BY <1>1, LenProperties

(* The event names a node, or ends the document with all its names.        *)
LEMMA NamesGrow ==
    ASSUME NEW h \in Seq(Event), NEW e \in Event, NEW g, g = Append(h, e), NEW anchor
    PROVE  NamedHere(g, anchor) <=>
               /\ e.type # "DOCUMENT-END"
               /\ \/ NamedHere(h, anchor)
                  \/ /\ e.type \in {"SCALAR", "SEQUENCE-START", "MAPPING-START"}
                     /\ e.anchor = anchor
<1> DEFINE n == Len(h)
<1>1. /\ n \in Nat /\ Len(g) = n + 1 /\ g[n + 1] = e
      /\ \A i \in 1 .. n : g[i] = h[i]
  BY HistoryGrows
<1> HIDE DEF n
<1>2. ASSUME NEW j \in 1 .. n
      PROVE  (\A k \in j .. n + 1 : Type(g, k) # "DOCUMENT-END") <=>
                 /\ e.type # "DOCUMENT-END"
                 /\ \A k \in j .. n : Type(h, k) # "DOCUMENT-END"
  <2>1. \A k : k \in j .. n + 1 <=> k \in j .. n \/ k = n + 1
    BY <1>1
  <2>2. \A k \in j .. n : k \in 1 .. n
    BY <1>1
  <2> QED BY <1>1, <2>1, <2>2 DEF Type
<1> DEFINE Carries(f, m, j) ==
        /\ Defining(f, j) /\ f[j].anchor = anchor
        /\ \A k \in j .. m : Type(f, k) # "DOCUMENT-END"
<1>3. /\ NamedHere(g, anchor) <=> \E j \in 1 .. n + 1 : Carries(g, n + 1, j)
      /\ NamedHere(h, anchor) <=> \E j \in 1 .. n : Carries(h, n, j)
  BY <1>1 DEF NamedHere, n
<1>4. ASSUME NEW j \in 1 .. n
      PROVE  Carries(g, n + 1, j) <=> e.type # "DOCUMENT-END" /\ Carries(h, n, j)
  <2>1. Defining(g, j) = Defining(h, j) /\ g[j].anchor = h[j].anchor
    BY <1>1 DEF Defining, Type
  <2> QED BY <1>2, <2>1
<1>5. Carries(g, n + 1, n + 1) <=>
          e.type \in {"SCALAR", "SEQUENCE-START", "MAPPING-START"} /\ e.anchor = anchor
  <2>1. \A k : k \in n + 1 .. n + 1 <=> k = n + 1
    BY <1>1
  <2> QED BY <1>1, <2>1 DEF Defining, Type
<1>6. \A j : j \in 1 .. n + 1 <=> j \in 1 .. n \/ j = n + 1
  BY <1>1
<1>7. e.type \in {"SCALAR", "SEQUENCE-START", "MAPPING-START"} => e.type # "DOCUMENT-END"
  OBVIOUS
<1> HIDE DEF Carries
<1> QED BY <1>3, <1>4, <1>5, <1>6, <1>7

(* The event is the first that cannot be loaded, or the others were.       *)
LEMMA BadGrows ==
    ASSUME NEW h \in Seq(Event), NEW e \in Event, NEW g, g = Append(h, e)
    PROVE  BadAnchors(g) <=> BadAnchors(h) \/ RefusedBehind(h, e)
<1> DEFINE n == Len(h)
<1>1. /\ n \in Nat /\ Len(g) = n + 1 /\ g[n + 1] = e
      /\ \A i \in 1 .. n : g[i] = h[i]
      /\ DOMAIN g = 1 .. n + 1 /\ DOMAIN h = 1 .. n
  BY HistoryGrows
<1> HIDE DEF n
<1>2. ASSUME NEW i \in 1 .. n
      PROVE  /\ Namesakes(g, i) = Namesakes(h, i)
             /\ Type(g, i) = Type(h, i) /\ Defining(g, i) = Defining(h, i)
             /\ g[i].anchor = h[i].anchor
  <2>1. \A j \in 1 .. i - 1 : j \in 1 .. n
    BY <1>1
  <2>2. \A j \in 1 .. i - 1 : \A k \in j .. i : k \in 1 .. n
    BY <1>1
  <2>3. \A j \in 1 .. n : /\ Type(g, j) = Type(h, j) /\ Defining(g, j) = Defining(h, j)
                          /\ g[j].anchor = h[j].anchor
    BY <1>1 DEF Type, Defining
  <2> QED BY <2>1, <2>2, <2>3 DEF Namesakes
<1>3. /\ Type(g, n + 1) = e.type /\ g[n + 1].anchor = e.anchor
      /\ Defining(g, n + 1) <=> e.type \in {"SCALAR", "SEQUENCE-START", "MAPPING-START"}
  BY <1>1 DEF Type, Defining
<1>4. ASSUME e.type # "DOCUMENT-END"
      PROVE  Namesakes(g, n + 1) # {} <=> NamedHere(h, e.anchor)
  <2>1. \A j \in 1 .. n : /\ Defining(g, j) = Defining(h, j)
                          /\ g[j].anchor = h[j].anchor
    BY <1>2
  <2>2. ASSUME NEW j \in 1 .. n
        PROVE  (\A k \in j .. n + 1 : Type(g, k) # "DOCUMENT-END") <=>
                   \A k \in j .. n : Type(h, k) # "DOCUMENT-END"
    <3>1. \A k : k \in j .. n + 1 <=> k \in j .. n \/ k = n + 1
      BY <1>1
    <3>2. \A k \in j .. n : k \in 1 .. n
      BY <1>1
    <3> QED BY <1>2, <1>3, <1>4, <3>1, <3>2
  <2>3. Namesakes(g, n + 1) # {} <=>
            \E j \in 1 .. n :
                /\ Defining(g, j) /\ g[j].anchor = e.anchor
                /\ \A k \in j .. n + 1 : Type(g, k) # "DOCUMENT-END"
    <3> SUFFICES ASSUME NEW i, i = n + 1
                 PROVE  Namesakes(g, i) # {} <=>
                            \E j \in 1 .. n :
                                /\ Defining(g, j) /\ g[j].anchor = e.anchor
                                /\ \A k \in j .. i : Type(g, k) # "DOCUMENT-END"
      OBVIOUS
    <3>1. i - 1 = n /\ g[i].anchor = e.anchor
      BY <1>1, <1>3
    <3> QED BY <3>1 DEF Namesakes
  <2>4. NamedHere(h, e.anchor) <=>
            \E j \in 1 .. n :
                /\ Defining(h, j) /\ h[j].anchor = e.anchor
                /\ \A k \in j .. n : Type(h, k) # "DOCUMENT-END"
    BY DEF NamedHere, n
  <2> QED BY <2>1, <2>2, <2>3, <2>4
<1> DEFINE Bad(f, i) ==
        \/ Type(f, i) = "ALIAS" /\ Namesakes(f, i) = {}
        \/ Defining(f, i) /\ f[i].anchor # NoAnchor /\ Namesakes(f, i) # {}
<1>5. \A i \in 1 .. n : Bad(g, i) <=> Bad(h, i)
  BY <1>2
<1>6. Bad(g, n + 1) <=> RefusedBehind(h, e)
  BY <1>3, <1>4 DEF RefusedBehind
<1>7. (BadAnchors(g) <=> \E i \in 1 .. n + 1 : Bad(g, i)) /\ (BadAnchors(h) <=> \E i \in 1 .. n : Bad(h, i))
  BY <1>1 DEF BadAnchors
<1>8. \A i : i \in 1 .. n + 1 <=> i \in 1 .. n \/ i = n + 1
  BY <1>1
<1> HIDE DEF Bad
<1> QED BY <1>5, <1>6, <1>7, <1>8

-----------------------------------------------------------------------------
(***************************************************************************)
(* A loader with a history.                                                *)
(***************************************************************************)

(* What the loader knows is what the history says, so that it refuses what *)
(* cannot follow.                                                          *)
LEMMA RefusalsAgree ==
    ASSUME HInv, Calls, NEW e \in NodeEvent \cup AliasEvent
    PROVE  Refused(loader, e) <=> RefusedBehind(history, e)
<1>1. \A anchor \in Anchors : Known(loader, anchor) <=> NamedHere(history, anchor)
  BY DEF HInv, NamesInv
<1>2. CASE e \in AliasEvent
  BY <1>1, <1>2 DEF AliasEvent, Refused, RefusedBehind
<1>3. CASE e \in NodeEvent
  BY <1>1, <1>3 DEF NodeEvent, Refused, RefusedBehind
<1> QED BY <1>2, <1>3

(* The stream goes on only as long as it is not aborted.                   *)
LEMMA DeliveredLive ==
    ASSUME NEW e \in Event, Delivered(e)
    PROVE  phase # "aborted" /\ phase' # "aborted"
BY DEF Delivered, Stream!StreamStart, Stream!StreamEnd, Stream!DocumentStart,
       Stream!DocumentEnd, Stream!Alias, Stream!Scalar, Stream!SequenceStart,
       Stream!MappingStart, Stream!SequenceEnd, Stream!MappingEnd

LEMMA LoadKeepsNames ==
    ASSUME HInv, NEW e \in Event, Load(e)
    PROVE  HInv'
<1>1. Inv' /\ Effect(loader, e, loader')
  BY DeliveryKeeps DEF HInv, Load
<1>2. /\ history \in Seq(Event) /\ history' = Append(history, e)
      /\ loader.status \in {"ready", "loading"}
      /\ loader.status = "ready" => loader.aliases = <<>>
      /\ \A anchor \in Anchors : Known(loader, anchor) <=> NamedHere(history, anchor)
  BY DEF HInv, NamesInv, Load, Calls
<1>3. phase # "aborted" /\ ~BadAnchors(history)
  <2>1. phase # "aborted"
    BY DeliveredLive DEF Load
  <2> QED BY <1>2, <2>1 DEF HInv, NamesInv
<1>4. history' \in Seq(Event)
  BY <1>2, HistoryGrows
<1>5. BadAnchors(history') <=> RefusedBehind(history, e)
  BY <1>2, <1>3, BadGrows
<1>6. \A anchor : NamedHere(history', anchor) <=>
          /\ e.type # "DOCUMENT-END"
          /\ \/ NamedHere(history, anchor)
             \/ /\ e.type \in {"SCALAR", "SEQUENCE-START", "MAPPING-START"}
                /\ e.anchor = anchor
  BY <1>2, NamesGrow
<1>7. SUFFICES NamesInv'
  BY <1>1, <1>4 DEF HInv
<1>8. CASE e \in NodeEvent \cup AliasEvent
  <2>1. /\ e.type \in Stream!NodeEventType
        /\ e.type # "ALIAS" <=> e.type \in {"SCALAR", "SEQUENCE-START", "MAPPING-START"}
        /\ e.type # "DOCUMENT-END"
    BY <1>8 DEF NodeEvent, AliasEvent, Stream!NodeEventType
  <2>2. \/ loader'.status = "failed" /\ Refused(loader, e)
        \/ loader'.status = "loading" /\ ~Refused(loader, e) /\ Names(loader, e, loader')
    BY <1>1, <2>1 DEF Effect
  <2>3. Refused(loader, e) <=> BadAnchors(history')
    BY <1>5, <1>8, RefusalsAgree DEF Load
  <2>4. CASE loader'.status = "failed" /\ Refused(loader, e)
    BY <2>3, <2>4 DEF NamesInv, Calls
  <2>5. CASE loader'.status = "loading" /\ ~Refused(loader, e) /\ Names(loader, e, loader')
    <3>1. \A anchor \in Anchors : Known(loader', anchor) <=> NamedHere(history', anchor)
      BY <1>2, <1>6, <2>1, <2>5 DEF Names
    <3> QED BY <2>3, <2>5, <3>1 DEF NamesInv
  <2> QED BY <2>2, <2>4, <2>5
<1>9. CASE e \in DocumentEvent \cup OtherEvent
  <2>1. /\ e.type \in {"DOCUMENT-START", "DOCUMENT-END", "STREAM-START", "STREAM-END",
                       "SEQUENCE-END", "MAPPING-END"}
        /\ e.type \notin Stream!NodeEventType
    BY <1>9 DEF DocumentEvent, OtherEvent, Stream!NodeEventType
  <2>2. ~BadAnchors(history')
    BY <1>5, <2>1 DEF RefusedBehind
  <2>3. ASSUME NEW c, c.aliases = <<>>, NEW anchor PROVE ~Known(c, anchor)
    BY <2>3 DEF Known
  <2>4. \A anchor \in Anchors : NamedHere(history', anchor) <=>
            e.type # "DOCUMENT-END" /\ Known(loader, anchor)
    BY <1>2, <1>6, <2>1
  <2>5. CASE e.type = "DOCUMENT-START"
    <3>1. loader.status = "ready" /\ loader'.status = "loading" /\ loader'.aliases = <<>>
      BY <1>1, <2>1, <2>5 DEF Effect
    <3>2. \A anchor \in Anchors : Known(loader', anchor) <=> NamedHere(history', anchor)
      BY <1>2, <2>3, <2>4, <3>1
    <3> QED BY <2>2, <3>1, <3>2 DEF NamesInv
  <2>6. CASE e.type = "DOCUMENT-END"
    <3>1. loader'.status = "ready" /\ loader'.aliases = <<>>
      BY <1>1, <2>1, <2>6 DEF Effect
    <3>2. \A anchor \in Anchors : Known(loader', anchor) <=> NamedHere(history', anchor)
      BY <2>3, <2>4, <2>6, <3>1
    <3> QED BY <2>2, <3>1, <3>2 DEF NamesInv
  <2>7. CASE e.type = "STREAM-END"
    <3>1. loader'.status = "empty"
      BY <1>1, <2>1, <2>7 DEF Effect
    <3> QED BY <2>2, <3>1 DEF NamesInv, Calls
  <2>8. CASE e.type \in {"STREAM-START", "SEQUENCE-END", "MAPPING-END"}
    <3>1. loader'.status = loader.status /\ loader'.aliases = loader.aliases
      BY <1>1, <2>1, <2>8 DEF Effect
    <3>2. \A anchor \in Anchors : Known(loader', anchor) <=> NamedHere(history', anchor)
      BY <2>4, <2>8, <3>1 DEF Known
    <3> QED BY <1>2, <2>2, <3>1, <3>2 DEF NamesInv
  <2> QED BY <2>1, <2>5, <2>6, <2>7, <2>8
<1> QED BY <1>8, <1>9 DEF Event

LEMMA HInvInitially == HistoryInit => HInv
<1> SUFFICES ASSUME HistoryInit PROVE HInv
  OBVIOUS
<1>1. Inv /\ loader = Empty /\ history = <<>>
  BY InvInitially DEF HistoryInit, Init
<1>2. /\ history \in Seq(Event) /\ Len(history) = 0 /\ DOMAIN history = 1 .. 0
      /\ loader.status = "ready" /\ loader.aliases = <<>> /\ Len(loader.aliases) = 0
  BY <1>1, EmptySeq, LenProperties DEF Empty
<1>3. \A i : i \notin 1 .. 0
  OBVIOUS
<1>4. ~BadAnchors(history)
  BY <1>2, <1>3 DEF BadAnchors
<1>5. \A anchor : ~Known(loader, anchor) /\ ~NamedHere(history, anchor)
  BY <1>2, <1>3 DEF Known, NamedHere
<1> QED BY <1>1, <1>2, <1>4, <1>5 DEF HInv, NamesInv

LEMMA HInvKept == HInv /\ [HistoryNext]_historyVars => HInv'
<1> SUFFICES ASSUME HInv, [HistoryNext]_historyVars PROVE HInv'
  OBVIOUS
<1>1. CASE \E e \in Event : Load(e)
  BY <1>1, LoadKeepsNames
<1>2. CASE LoadFailsInParser /\ UNCHANGED history
  <2>1. Inv'
    BY <1>2, InvKept DEF HInv, Next
  <2>2. phase' = "aborted" /\ loader' = LoadFails(loader)
    BY <1>2 DEF LoadFailsInParser, Stream!Abort, ParseFails
  <2>3. loader'.status = "failed"
    BY <2>2 DEF LoadFails, Empty
  <2> QED BY <1>2, <2>1, <2>2, <2>3 DEF HInv, NamesInv, Calls
<1>3. CASE UNCHANGED historyVars
  <2>1. UNCHANGED vars /\ UNCHANGED history
    BY <1>3 DEF historyVars
  <2>2. Inv'
    BY <2>1, InvKept DEF HInv
  <2>3. NamesInv'
    BY <2>1 DEF HInv, NamesInv, Calls, vars
  <2> QED BY <2>1, <2>2, <2>3 DEF HInv
<1> QED BY <1>1, <1>2, <1>3 DEF HistoryNext

(* Whatever stream is loaded, it is refused when a document of it names    *)
(* two nodes alike or has an alias of none of the nodes before it, and for *)
(* no other reason.                                                        *)
THEOREM LoaderRefusesBadAnchorsOnly == HistorySpec => []RefusesBadAnchorsOnly
<1>1. HInv => RefusesBadAnchorsOnly
  BY DEF HInv, NamesInv, Inv, RefusesBadAnchorsOnly
<1> QED BY <1>1, HInvInitially, HInvKept, PTL DEF HistorySpec
=============================================================================
