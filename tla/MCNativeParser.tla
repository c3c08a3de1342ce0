--------------------------- MODULE MCNativeParser ---------------------------
(***************************************************************************)
(* Two threads and two addresses: one call may reuse the address of an     *)
(* earlier one while another is in progress.                               *)
(***************************************************************************)
EXTENDS NativeParser

CONSTANTS t1, t2, p1, p2

MCCallers == {t1, t2}
MCAddresses == {p1, p2}
=============================================================================
