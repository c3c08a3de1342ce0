------------------------------ MODULE NodeEvents ------------------------------
(***************************************************************************)
(* The events NetYaml's Dump makes of a document (NativeEmitter.cs): nodes *)
(* that are met more than once get an anchor, and are aliases wherever     *)
(* they are met again.  Nodes are met once or more by their Equals, which  *)
(* for a scalar compares its text only.                                    *)
(*                                                                         *)
(* The nodes are those of YamlBuilder; a document is its YDocument's       *)
(* number.  Tags are left out: the events carry them with the flags that   *)
(* let the emitter leave them out.                                         *)
(***************************************************************************)
EXTENDS Naturals, SequencesExt

CONSTANT NoAnchor   \* an event without an anchor

(* Equals of two nodes: YScalar overrides it, the others keep Object's.    *)
Equal(nodes, m, n) ==
    \/ m = n
    \/ /\ nodes[m].kind = "YScalar" /\ nodes[n].kind = "YScalar"
       /\ nodes[m].text = nodes[n].text

(* Where a set or dictionary of nodes holds n, or 0. *)
Find(nodes, n, seq) == SelectInSeq(seq, LAMBDA m : Equal(nodes, m, n))

Add(nodes, n, seq) == IF Find(nodes, n, seq) = 0 THEN Append(seq, n) ELSE seq

RECURSIVE FindDuplicateNodes(_, _, _)
FindDuplicateNodes(nodes, n, seen) ==
    IF Find(nodes, n, seen.visited) # 0
    THEN [seen EXCEPT !.duplicates = Add(nodes, n, @)]
    ELSE FoldLeft(LAMBDA s, m : FindDuplicateNodes(nodes, m, s),
                  [seen EXCEPT !.visited = Append(@, n)], nodes[n].children)

(* GenerateAliases: a duplicate is named by its place among them.          *)
Aliases(nodes, document) ==
    FindDuplicateNodes(nodes, document, [visited |-> <<>>, duplicates |-> <<>>]).duplicates

(* Mutant of IsAlias: the nodes visited by the search for duplicates are   *)
(* not cleared.                                                            *)
IsAliasAlways(nodes, n, visited) == TRUE

IsAlias(nodes, n, visited) == Find(nodes, n, visited) # 0

(* GenerateNodeEvents with GenerateSubTypeEvents; visited holds the nodes  *)
(* whose anchor has been written.                                          *)
RECURSIVE GenerateNodeEvents(_, _, _, _)
GenerateNodeEvents(nodes, n, aliases, done) ==
    LET name == Find(nodes, n, aliases)
        anchor == IF name = 0 THEN NoAnchor ELSE name
        node == nodes[n]
        visited == IF name = 0 THEN done.visited ELSE Append(done.visited, n)
        wrote(type) ==
            [visited |-> visited,
             events |-> Append(done.events, [type |-> type, anchor |-> anchor, text |-> node.text])]
        inside(type) == FoldLeft(LAMBDA d, m : GenerateNodeEvents(nodes, m, aliases, d),
                                 wrote(type), node.children)
        closed(d, type) == [d EXCEPT !.events = Append(@, [type |-> type])]
    IN  CASE name # 0 /\ IsAlias(nodes, n, done.visited) ->
                [done EXCEPT !.events = Append(@, [type |-> "ALIAS", anchor |-> name])]
          [] ~(name # 0 /\ IsAlias(nodes, n, done.visited)) ->
                CASE node.kind = "YScalar" -> wrote("SCALAR")
                  [] node.kind = "YSequence" -> closed(inside("SEQUENCE-START"), "SEQUENCE-END")
                  [] node.kind = "YMapping" -> closed(inside("MAPPING-START"), "MAPPING-END")

(* The node events of a document. *)
EventsOf(nodes, document) ==
    GenerateNodeEvents(nodes, nodes[document].children[1], Aliases(nodes, document),
                       [visited |-> <<>>, events |-> <<>>]).events
=============================================================================
