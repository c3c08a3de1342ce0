----------------------------- MODULE MCGrammar -----------------------------
(***************************************************************************)
(* The parser beside the grammar of parser.c's comment: the scanner may    *)
(* deliver any token, and its state is that of the grammar's recogniser,   *)
(* {} once the tokens are no longer a prefix of a sentence.                *)
(***************************************************************************)
EXTENDS Parser, TokenGrammar

CONSTANT a

MCAnchors == {a}
MCHandles == {"!!", "!e!"}
MCDefaultHandles == {"!!"}

(* Tokens whose data the parser accepts: semantic errors are left out.     *)
PlainToken ==
    {t \in Token : /\ t.type = "TAG" => t.data = Verbatim
                   /\ t.type = "TAG-DIRECTIVE" => t.data = "!e!"
                   /\ t.type = "VERSION-DIRECTIVE" => t.data = "1.1"}

TokenType == {t.type : t \in Token}

GrammarScan == RecogniserStates(TokenType)

AnyToken(S) ==
    UNION {[token : {t \in PlainToken : t.type = m.type}, scan : {m.to}] :
              m \in Moves(S, TokenType)}

(* Every token stream of the grammar is accepted: a syntax error comes     *)
(* only when the tokens fetched are no prefix of a sentence.               *)
AcceptsGrammar == error = "syntax" => scan = {}

(* Only token streams of the grammar are accepted.                         *)
AcceptsOnlyGrammar == event.type = "STREAM-END" => scan # {}
=============================================================================
