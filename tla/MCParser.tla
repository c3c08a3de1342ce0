------------------------------ MODULE MCParser ------------------------------
(***************************************************************************)
(* The parser under a scanner that may deliver any token, or fail, at any  *)
(* point: a superset of what yaml_parser_fetch_more_tokens does, bounded   *)
(* only by the nesting depth.                                              *)
(***************************************************************************)
EXTENDS Parser, TLC

CONSTANT a

MCAnchors == {a}

MCHandles == {"!!", "!e!"}
MCDefaultHandles == {"!!"}

AnyScan == {"any"}

AnyToken(s) == [token : Token \cup {NoToken}, scan : {s}]
=============================================================================
