---------------------------- MODULE MCListWalk ------------------------------
(* Instances of ListWalk for TLC: addresses are interchangeable.           *)
EXTENDS ListWalk

Symmetry == Permutations(Element)
=============================================================================
