----------------------------- MODULE MCLoadDump -----------------------------
(***************************************************************************)
(* An application that loads the documents of any stream of events         *)
(* (EventStream), edits them, and dumps each before it loads the next; the *)
(* empty document behind the last one closes the emitter.  It gives up     *)
(* when a call fails.                                                      *)
(***************************************************************************)
EXTENDS LoadHistory, FiniteSetsExt

CONSTANTS MaxEvents,  \* BOUND on the length of the stream
          MaxEdits,   \* BOUND on the edits of its documents
          MaxNodes,   \* BOUND on the nodes of an edited document
          Rooms       \* how many events the emitter takes before it fails

VARIABLES dumper,     \* the emitter's side (Dumper)
          turn,       \* what the application calls next
          edits       \* how often it has edited a document

allVars == <<historyVars, dumper, turn, edits>>

Dumping == INSTANCE Dumper

(* The node events of the streams. *)
NodeEvents ==
    [type : {"SCALAR", "SEQUENCE-START", "MAPPING-START"}, anchor : Anchors, tag : {NoTag}]
    \cup [type : {"SCALAR"}, anchor : {NoAnchor}, tag : {NoTag}]
    \cup [type : {"SEQUENCE-START"}, anchor : {NoAnchor}, tag : {"!"}]
    \cup [type : {"MAPPING-START"}, anchor : {NoAnchor}, tag : Tags]

DocumentEvents ==
    {e \in DocumentEvent : e.type = "DOCUMENT-END" => e.implicit = ~loader.startImplicit}

-----------------------------------------------------------------------------
MCInit == HistoryInit /\ Dumping!Init /\ turn = "load" /\ edits = 0

Deliver(e) ==
    /\ turn = "load" /\ Len(history) < MaxEvents /\ Load(e)
    /\ turn' = IF e.type \in {"DOCUMENT-END", "STREAM-END"} THEN "dump" ELSE "load"
    /\ UNCHANGED <<dumper, edits>>

DeliverNode == \E e \in NodeEvents \cup AliasEvent : Deliver(e)

DeliverDocument == \E e \in DocumentEvents : Deliver(e)

DeliverOther == \E e \in OtherEvent : Deliver(e)

ParserFails == /\ turn = "load" /\ LoadFailsInParser
               /\ UNCHANGED <<dumper, history, turn, edits>>

Edit(nodes) == /\ turn = "dump" /\ loader.nodes # <<>> /\ edits < MaxEdits
               /\ Len(nodes) <= MaxNodes
               /\ loader' = [loader EXCEPT !.nodes = nodes]
               /\ edits' = edits + 1
               /\ UNCHANGED <<dumper, phase, open, event, history, turn>>

EditDocument ==
    \/ \E type \in NodeType : Edit(Dumping!AddNode(loader.nodes, type, "default"))
    \/ \E i, j \in DOMAIN loader.nodes :
          /\ Dumping!CanAppendItem(loader.nodes, i, j)
          /\ Edit(Dumping!AppendItem(loader.nodes, i, j))
    \/ \E i, j, k \in DOMAIN loader.nodes :
          /\ Dumping!CanAppendPair(loader.nodes, i, j, k)
          /\ Edit(Dumping!AppendPair(loader.nodes, i, j, k))

DumpDocument ==
    /\ turn = "dump"
    /\ \E room \in Rooms : Dumping!Dump(loader, room)
    /\ turn' = IF dumper'.ok /\ ~dumper'.closed THEN "load" ELSE "stop"
    /\ UNCHANGED <<loader, phase, open, event, history, edits>>

MCNext == \/ DeliverNode \/ DeliverDocument \/ DeliverOther \/ ParserFails
          \/ EditDocument \/ DumpDocument

MCSpec == MCInit /\ [][MCNext]_allVars

-----------------------------------------------------------------------------
(***************************************************************************)
(* What events mean: their types, tags and flags, and for an alias the     *)
(* event it refers to, whatever the anchor is called.                      *)
(***************************************************************************)
TagOf(e) == IF e.tag \in {NoTag, "!"} THEN "default" ELSE e.tag

MeaningOf(events) ==
    [i \in DOMAIN events |->
        CASE Type(events, i) = "ALIAS" -> <<"ALIAS", Namesakes(events, i)>>
          [] Defining(events, i) -> <<Type(events, i), TagOf(events[i])>>
          [] Type(events, i) \in {"DOCUMENT-START", "DOCUMENT-END"} ->
                <<Type(events, i), events[i].implicit>>
          [] OTHER -> <<Type(events, i)>>]

Dumped == turn \in {"load", "stop"} /\ dumper.ok /\ dumper.events # <<>>

(* A stream whose documents are dumped as they were loaded is written as   *)
(* it was read, but for the names of its anchors: each node once, in its   *)
(* place, and each alias for the node it named.                            *)
DumpRestoresStream ==
    edits = 0 /\ Dumped /\ loader.status \in {"ready", "empty"}
        => MeaningOf(dumper.events) = MeaningOf(history)

-----------------------------------------------------------------------------
(* The events of the document dumped last. *)
LastDocument ==
    LET start == Max({i \in DOMAIN dumper.events : dumper.events[i].type = "DOCUMENT-START"})
    IN  SubSeq(dumper.events, start, Len(dumper.events))

Reloaded == FoldLeft(LoadEvent, Empty, LastDocument)

RECURSIVE ReachableFrom(_, _)
ReachableFrom(nodes, S) ==
    LET next == S \cup UNION {ToSet(nodes[i].items) : i \in S}
    IN  IF next = S THEN S ELSE ReachableFrom(nodes, next)

(* One document is the other with its nodes in another order. *)
SameGraph(nodes, others) ==
    \E f \in [DOMAIN nodes -> DOMAIN others] :
        /\ f[1] = 1
        /\ IsInjective(f) /\ Range(f) = ReachableFrom(others, {1})
        /\ \A i \in DOMAIN nodes :
              /\ nodes[i].type = others[f[i]].type /\ nodes[i].tag = others[f[i]].tag
              /\ [k \in DOMAIN nodes[i].items |-> f[nodes[i].items[k]]] = others[f[i]].items

(* Whatever an application has made of a document, with shared nodes,      *)
(* nodes that contain themselves and nodes that nothing refers to, the     *)
(* events it is dumped as load as the graph that its root reaches.         *)
DumpLoadsBack ==
    Dumped /\ dumper.nodes # <<>> =>
        /\ Reloaded.status = "ready"
        /\ SameGraph(Reloaded.nodes, dumper.nodes)

StringsAreFreedOnce == Dumping!StringsAreFreedOnce
=============================================================================
