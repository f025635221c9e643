----------------------------- MODULE MemberList -----------------------------
(***************************************************************************)
(* What DataStore::mNodes and DataStore::mTopics promise their users: the  *)
(* elements, in the order in which they were emplaced, without the ones    *)
(* that were erased.  DoubleLinkedList implements it, until it erases one  *)
(* of its ends.                                                            *)
(***************************************************************************)
EXTENDS Naturals, Sequences, SequencesExt

CONSTANT Element    \* addresses the elements can be allocated at

VARIABLE list

Init == list = <<>>

EmplaceBack(e) ==
    /\ e \notin ToSet(list)
    /\ list' = Append(list, e)

Erase(i) == list' = RemoveAt(list, i)

Next ==
    \/ \E e \in Element : EmplaceBack(e)
    \/ \E i \in DOMAIN list : Erase(i)

Spec == Init /\ [][Next]_list
=============================================================================
