---------------------------- MODULE MCParseLoop ----------------------------
(***************************************************************************)
(* Every stream of at most MaxEvents events, and the events that Dump      *)
(* makes of its documents.                                                 *)
(***************************************************************************)
EXTENDS ParseHistory

CONSTANTS a,         \* an anchor
          MaxEvents  \* BOUND on the length of a stream

MCAnchors == {a}

Dumping == INSTANCE NodeEvents

MCNext == Len(history) < MaxEvents /\ HistoryNext

MCSpec == HistoryInit /\ [][MCNext]_historyVars

-----------------------------------------------------------------------------
(***************************************************************************)
(* What node events mean: the graph of the nodes they create, and its root *)
(* is the first.                                                           *)
(***************************************************************************)
Attach(g, child) ==
    IF g.stack = <<>> THEN g ELSE [g EXCEPT !.nodes[Last(g.stack)].children = Append(@, child)]

Create(g, e) ==
    LET n == Len(g.nodes) + 1
    IN  [Attach([g EXCEPT !.nodes = Append(@, [type |-> e.type, text |-> e.text, children |-> <<>>])], n)
            EXCEPT !.names = Append(@, e.anchor),
                   !.stack = IF e.type = "SCALAR" THEN @ ELSE Append(@, n)]

Understand(g, e) ==
    CASE e.type = "ALIAS" -> Attach(g, SelectLastInSeq(g.names, LAMBDA name : name = e.anchor))
      [] e.type \in {"SCALAR", "SEQUENCE-START", "MAPPING-START"} -> Create(g, e)
      [] e.type \in {"SEQUENCE-END", "MAPPING-END"} -> [g EXCEPT !.stack = Front(@)]

Graph(events) == FoldLeft(Understand, [nodes |-> <<>>, names |-> <<>>, stack |-> <<>>], events).nodes

(* The pairs of nodes that the same steps lead to in both graphs. *)
RECURSIVE Pairs(_, _)
Pairs(g, S) ==
    LET next == S \cup {<<nodes[p[1]].children[k], g[p[2]].children[k]>> :
                           <<p, k>> \in {x \in S \X (1 .. Len(nodes)) :
                                           x[2] \in DOMAIN nodes[x[1][1]].children
                                                    \cap DOMAIN g[x[1][2]].children}}
    IN  IF next = S THEN S ELSE Pairs(g, next)

(* The events that Dump makes of a finished document rebuild it: each      *)
(* alias has its anchor before it, the same steps lead to nodes of one     *)
(* kind with as many children and to scalars of one text, and collections  *)
(* are one node in one graph if they are in the other, a collection inside *)
(* itself included.                                                        *)
DumpedEventsRebuild ==
    history # <<>> /\ Last(history).type = "DOCUMENT-END" =>
        LET events == Dumping!EventsOf(nodes, Last(documents))
            g == Graph(events)
            pairs == Pairs(g, {<<Last(nodes[Last(documents)].children), 1>>})
        IN  /\ \A i \in DOMAIN events :
                  events[i].type = "ALIAS" =>
                      \E j \in 1 .. i - 1 : /\ events[j].type \in {"SCALAR", "SEQUENCE-START", "MAPPING-START"}
                                           /\ events[j].anchor = events[i].anchor
            /\ \A p \in pairs : /\ KindOf(g[p[2]].type) = nodes[p[1]].kind
                                /\ g[p[2]].text = nodes[p[1]].text
                                /\ Len(g[p[2]].children) = Len(nodes[p[1]].children)
            /\ \A p, q \in pairs :
                  nodes[p[1]].kind # "YScalar" => (p[1] = q[1] <=> p[2] = q[2])
=============================================================================
