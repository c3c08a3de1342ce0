---------------------------- MODULE TokenGrammar ----------------------------
(***************************************************************************)
(* The grammar that the comment at the head of parser.c gives for token    *)
(* streams, as a recogniser: a derivation is a stack of symbols still to   *)
(* match, and a state of the recogniser is the set of the derivations that *)
(* agree with the tokens read so far.                                      *)
(*                                                                         *)
(* For TLC only (Closure and Expand are recursive).                        *)
(***************************************************************************)
EXTENDS Naturals, SequencesExt, TLC

CONSTANTS EmptyPairKeys,  \* has  flow_sequence_entry ::= KEY (VALUE flow_node?)?
          KeylessValues,  \* has  VALUE ... without a KEY in block_mapping
          MaxSymbols      \* BOUND on the length of a derivation

(***************************************************************************)
(* The right-hand sides of a nonterminal.  x? and x* of the comment are    *)
(* nonterminals of their own; a group of alternatives is named for what    *)
(* it stands for.  A document's directives are distinct.                   *)
(***************************************************************************)
Node(content) == {<<"ALIAS">>, <<"properties", content>>}

Productions ==
  [ stream |-> {<<"STREAM-START", "implicit_document?", "explicit_document*", "STREAM-END">>}
  ] @@
  ("implicit_document?" :> {<<>>, <<"block_node", "DOCUMENT-END*">>}) @@
  ("explicit_document*" :>
     {<<>>, <<"directives", "DOCUMENT-START", "block_node?", "DOCUMENT-END*", "explicit_document*">>}) @@
  ("directives" :>
     {<<>>, <<"VERSION-DIRECTIVE">>, <<"TAG-DIRECTIVE">>,
      <<"VERSION-DIRECTIVE", "TAG-DIRECTIVE">>, <<"TAG-DIRECTIVE", "VERSION-DIRECTIVE">>}) @@
  ("DOCUMENT-END*" :> {<<>>, <<"DOCUMENT-END", "DOCUMENT-END*">>}) @@
  ("block_node_or_indentless_sequence" :>
     Node("block_content_or_indentless_sequence?") \cup
     {<<"block_content">>, <<"indentless_sequence">>}) @@
  ("block_node" :> Node("block_content?") \cup {<<"block_content">>}) @@
  ("flow_node" :> Node("flow_content?") \cup {<<"flow_content">>}) @@
  ("properties" :> {<<"TAG", "ANCHOR?">>, <<"ANCHOR", "TAG?">>}) @@
  ("block_content" :> {<<"block_sequence">>, <<"block_mapping">>, <<"flow_content">>}) @@
  ("flow_content" :> {<<"flow_sequence">>, <<"flow_mapping">>, <<"SCALAR">>}) @@
  ("block_sequence" :> {<<"BLOCK-SEQUENCE-START", "block_entry*", "BLOCK-END">>}) @@
  ("indentless_sequence" :> {<<"BLOCK-ENTRY", "block_node?", "block_entry*">>}) @@
  ("block_entry*" :> {<<>>, <<"BLOCK-ENTRY", "block_node?", "block_entry*">>}) @@
  ("block_mapping" :> {<<"BLOCK-MAPPING-START", "block_pair*", "BLOCK-END">>}) @@
  ("block_pair*" :>
     {<<>>, <<"KEY", "block_node_or_indentless_sequence?", "block_value?", "block_pair*">>} \cup
     (IF KeylessValues
      THEN {<<"VALUE", "block_node_or_indentless_sequence?", "block_pair*">>} ELSE {})) @@
  ("block_value?" :> {<<>>, <<"VALUE", "block_node_or_indentless_sequence?">>}) @@
  ("flow_sequence" :> {<<"FLOW-SEQUENCE-START", "sequence_items?", "FLOW-SEQUENCE-END">>}) @@
  ("sequence_items?" :> {<<>>, <<"flow_sequence_entry", "more_sequence_items?">>}) @@
  ("more_sequence_items?" :> {<<>>, <<"FLOW-ENTRY", "sequence_items?">>}) @@
  ("flow_sequence_entry" :> {<<"flow_node">>, <<"KEY", "pair_key?", "flow_value?">>}) @@
  ("pair_key?" :> {<<"flow_node">>} \cup (IF EmptyPairKeys THEN {<<>>} ELSE {})) @@
  ("flow_mapping" :> {<<"FLOW-MAPPING-START", "mapping_items?", "FLOW-MAPPING-END">>}) @@
  ("mapping_items?" :> {<<>>, <<"flow_mapping_entry", "more_mapping_items?">>}) @@
  ("more_mapping_items?" :> {<<>>, <<"FLOW-ENTRY", "mapping_items?">>}) @@
  ("flow_mapping_entry" :> {<<"flow_node">>, <<"KEY", "flow_node?", "flow_value?">>}) @@
  ("flow_value?" :> {<<>>, <<"VALUE", "flow_node?">>}) @@
  ("block_node?" :> {<<>>, <<"block_node">>}) @@
  ("flow_node?" :> {<<>>, <<"flow_node">>}) @@
  ("block_node_or_indentless_sequence?" :> {<<>>, <<"block_node_or_indentless_sequence">>}) @@
  ("block_content?" :> {<<>>, <<"block_content">>}) @@
  ("flow_content?" :> {<<>>, <<"flow_content">>}) @@
  ("block_content_or_indentless_sequence?" :>
     {<<>>, <<"block_content">>, <<"indentless_sequence">>}) @@
  ("ANCHOR?" :> {<<>>, <<"ANCHOR">>}) @@
  ("TAG?" :> {<<>>, <<"TAG">>})

Nonterminal == DOMAIN Productions

Start == {<<"stream">>}

(* The derivations with a terminal on top, or empty, that d expands to.    *)
RECURSIVE Expand(_)
Expand(d) == IF d = <<>> \/ Head(d) \notin Nonterminal
             THEN {d}
             ELSE UNION {Expand(rhs \o Tail(d)) : rhs \in Productions[Head(d)]}

(* For every token type, the derivations that agree with one more token.   *)
Advance(S, types) ==
    LET ready == UNION {Expand(d) : d \in S}
    IN  [t \in types |-> {Tail(d) : d \in {x \in ready : x # <<>> /\ Head(x) = t}}]

(* After the KEY of a single pair without EmptyPairKeys, the tokens that   *)
(* show the key to be absent are left out of the comparison.               *)
LeftOut(S, type) ==
    /\ ~EmptyPairKeys
    /\ \E d \in S : d # <<>> /\ Head(d) = "pair_key?"
    /\ type \in {"VALUE", "FLOW-ENTRY", "FLOW-SEQUENCE-END"}

(* The moves of the recogniser: a token outside the grammar, or one that   *)
(* leaves the derivations in bounds, with the derivations after it.        *)
Moves(S, types) ==
    LET after == Advance(S, types)
    IN  {[type |-> t, to |-> after[t]] :
            t \in {x \in types : /\ \A d \in after[x] : Len(d) <= MaxSymbols
                                 /\ ~LeftOut(S, x)}}

RECURSIVE Closure(_, _, _)
Closure(found, fresh, types) ==
    LET next == {m.to : m \in UNION {Moves(S, types) : S \in fresh}} \ found
    IN  IF next = {} THEN found ELSE Closure(found \cup next, next, types)

RecogniserStates(types) == Closure({Start}, {Start}, types)
=============================================================================
