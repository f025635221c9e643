---------------------------- MODULE MCDataStore -----------------------------
(* Instances of DataStore for TLC: slots, keys, callers and addresses are  *)
(* interchangeable where only safety is checked.                           *)
EXTENDS DataStore

Symmetry ==
    Permutations(Slot) \cup Permutations(Key) \cup Permutations(Caller) \cup Permutations(Element)
=============================================================================
