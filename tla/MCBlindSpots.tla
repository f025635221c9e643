----------------------------- MODULE MCBlindSpots -----------------------------
(***************************************************************************)
(* Two nodes, a topic, and one that is ignored.                            *)
(***************************************************************************)
EXTENDS FullGraphView

CONSTANTS n1, n2, t1, rosout

TwoNodes == <<n1, n2>>
TwoTopics == <<rosout, t1>>
=============================================================================
