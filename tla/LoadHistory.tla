---------------------------- MODULE LoadHistory ----------------------------
(***************************************************************************)
(* LoadStream with the events in full as a history, and what anchors mean  *)
(* in a history: no loader is needed to tell which streams it refuses.     *)
(***************************************************************************)
EXTENDS LoadStream

VARIABLE history     \* the events delivered, in full

historyVars == <<vars, history>>

(* yaml_parser_load takes the event e of the stream.                       *)
Load(e) == Calls /\ Delivered(e) /\ Take(e) /\ history' = Append(history, e)

HistoryInit == Init /\ Stream!Init /\ history = <<>>

HistoryNext == \/ \E e \in Event : Load(e)
               \/ LoadFailsInParser /\ UNCHANGED history

HistorySpec == HistoryInit /\ [][HistoryNext]_historyVars

-----------------------------------------------------------------------------
(***************************************************************************)
(* The anchors of a history.  An event is named by its position.           *)
(***************************************************************************)
Type(events, i) == events[i].type

Defining(events, i) == Type(events, i) \in {"SCALAR", "SEQUENCE-START", "MAPPING-START"}

(* The nodes before event i in its document that carry its anchor.         *)
Namesakes(events, i) ==
    {j \in 1 .. i - 1 : /\ Defining(events, j) /\ events[j].anchor = events[i].anchor
                        /\ \A k \in j .. i : Type(events, k) # "DOCUMENT-END"}

BadAnchors(events) ==
    \E i \in DOMAIN events :
        \/ Type(events, i) = "ALIAS" /\ Namesakes(events, i) = {}
        \/ /\ Defining(events, i) /\ events[i].anchor # NoAnchor
           /\ Namesakes(events, i) # {}

(* A stream is refused when a document of it names two nodes alike, or has *)
(* an alias of none of the nodes before it, and for no other reason: the   *)
(* loader keeps step with the stream, and its assertions never fail.       *)
RefusesBadAnchorsOnly ==
    /\ phase # "aborted" => (loader.status = "failed" <=> BadAnchors(history))
    /\ FramesMirrorStream
=============================================================================
