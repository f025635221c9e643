-------------------------- MODULE MCDynamicSubgraph --------------------------
(***************************************************************************)
(* Two configured names of two nodes.                                      *)
(***************************************************************************)
EXTENDS DynamicSubgraph

CONSTANTS m1, m2

MCNodeOf == (m1 :> m1) @@ (m2 :> m2)
BothNames == <<m1, m2>>
=============================================================================
