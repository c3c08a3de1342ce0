------------------------------ MODULE MCScanner ------------------------------
(***************************************************************************)
(* The scanner under any input of short lines.                             *)
(***************************************************************************)
EXTENDS Scanner

OneFlowStart == {"FLOW-SEQUENCE-START"}
OneFlowEnd == {"FLOW-SEQUENCE-END"}
OneProperty == {"ANCHOR"}
=============================================================================
