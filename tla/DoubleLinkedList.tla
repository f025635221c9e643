-------------------------- MODULE DoubleLinkedList --------------------------
(***************************************************************************)
(* The intrusive doubly linked list of the data store at the granularity   *)
(* of its pointers: emplace_back, erase, and the pass of DataStore::run    *)
(* that walks the list from begin() to end() and erases as it goes.        *)
(*                                                                         *)
(* An element is the address it lives at.  erase frees the address and the *)
(* allocator may hand it out again, in which case a pointer that was left  *)
(* behind refers to the new element.  What freed memory contains is not    *)
(* kept: what is read of it is undefined, and so any address; what is      *)
(* written to it changes nothing else.                                     *)
(*                                                                         *)
(* erase leaves mBegin and mEnd as they are, also when the element they    *)
(* point to is the one it deletes.  What the list still is after that, and *)
(* what it is no more, is told by the histories of the erased ends.        *)
(***************************************************************************)
EXTENDS Naturals, FiniteSets, Sequences, SequencesExt

CONSTANTS
    Element,    \* addresses the allocator can return
    Null        \* nullptr

ASSUME ListAssumption == Null \notin Element

VARIABLES
    heap,       \* addresses of the allocated elements
    mPrev,      \* _Element::mPrev, by address
    mNext,      \* _Element::mNext, by address
    mBegin,     \* DoubleLinkedList::mBegin
    mEnd,       \* DoubleLinkedList::mEnd
    it,         \* the iterator of the pass in DataStore::run
    list,       \* history: the elements the list should hold, in order
    unseen,     \* history: elements in the list that the pass still owes a visit
    firstErased,    \* history: the element mBegin points to has been erased
    lastErased,     \* history: the element mEnd points to has been erased
    whole       \* history: neither had been when the pass began

ends == <<mBegin, mEnd, firstErased, lastErased>>
listVars == <<heap, mPrev, mNext, ends, it, list, unseen, whole>>

Address == Element \cup {Null}

ListInit ==
    /\ heap = {}
    /\ mPrev = [e \in Element |-> Null]
    /\ mNext = [e \in Element |-> Null]
    /\ mBegin = Null
    /\ mEnd = Null
    /\ it = Null
    /\ list = <<>>
    /\ unseen = {}
    /\ firstErased = FALSE
    /\ lastErased = FALSE
    /\ whole = TRUE

(* mBegin and mEnd point to the first and to the last element.             *)
Intact == ~firstErased /\ ~lastErased

-----------------------------------------------------------------------------
(* Slips: what a bug would make of definitions below.                      *)
BackLinkedToNothing(e) == [mPrev EXCEPT ![e] = Null]
UnlinkedNot == mNext
UnlinkedToNothing == IF mPrev[it] \in heap THEN [mNext EXCEPT ![mPrev[it]] = Null] ELSE mNext
SuccessorSkips == IF mNext[it] = Null THEN Null ELSE mNext[mNext[it]]

-----------------------------------------------------------------------------
BackLinked(e) == [mPrev EXCEPT ![e] = mEnd]
Linked(e) == IF mEnd \in heap \cup {e} THEN [mNext EXCEPT ![e] = Null, ![mEnd] = e]
                                      ELSE [mNext EXCEPT ![e] = Null]

(* new element_type(mEnd, nullptr, ...): e is written first, then *mEnd,   *)
(* which may have been deleted, and be where the allocator has put e.      *)
EmplaceBack(e) ==
    /\ e \notin heap
    /\ heap' = heap \cup {e}
    /\ mPrev' = BackLinked(e)
    /\ mNext' = Linked(e)
    /\ mBegin' = IF mEnd = Null THEN e ELSE mBegin
    /\ mEnd' = e
    /\ list' = Append(list, e)
    /\ UNCHANGED <<it, unseen, firstErased, lastErased, whole>>

(* it = begin()                                                            *)
Begin ==
    /\ it = Null
    /\ it' = mBegin
    /\ unseen' = ToSet(list)
    /\ whole' = Intact
    /\ UNCHANGED <<heap, mPrev, mNext, ends, list>>

Successor == mNext[it]

(* ++it, for an element that is still in use                               *)
Advance ==
    /\ it # Null
    /\ IF it \in heap THEN it' = Successor ELSE it' \in Address
    /\ unseen' = unseen \ {it}
    /\ UNCHANGED <<heap, mPrev, mNext, ends, list, whole>>

(* The neighbours of it, linked to each other                              *)
Unlinked == IF mPrev[it] \in heap THEN [mNext EXCEPT ![mPrev[it]] = mNext[it]] ELSE mNext
BackUnlinked == IF mNext[it] \in heap THEN [mPrev EXCEPT ![mNext[it]] = mPrev[it]] ELSE mPrev

(* it = erase(it): the neighbours are linked and the element is deleted;   *)
(* mBegin and mEnd are left as they are.  Deleting an element once more    *)
(* ends the program and is not a step.                                     *)
Erase(i) ==
    /\ it \in heap
    /\ list[i] = it
    /\ mNext' = [Unlinked EXCEPT ![it] = Null]
    /\ mPrev' = [BackUnlinked EXCEPT ![it] = Null]
    /\ heap' = heap \ {it}
    /\ it' = Successor
    /\ list' = RemoveAt(list, i)
    /\ unseen' = unseen \ {it}
    /\ firstErased' = (firstErased \/ i = 1)
    /\ lastErased' = (lastErased \/ i = Len(list))
    /\ UNCHANGED <<mBegin, mEnd, whole>>

ListNext ==
    \/ \E e \in Element : EmplaceBack(e)
    \/ Begin
    \/ Advance
    \/ \E i \in DOMAIN list : Erase(i)

ListSpec == ListInit /\ [][ListNext]_listVars

-----------------------------------------------------------------------------
(* The pointers are addresses; as long as an end has not been erased, the  *)
(* pointer to it is null or the address of an element that has not been    *)
(* deleted, and so is the iterator of a pass that began with both ends.    *)
ListTypeOK ==
    /\ heap \subseteq Element
    /\ mPrev \in [Element -> Address]
    /\ mNext \in [Element -> Address]
    /\ mBegin \in Address
    /\ mEnd \in Address
    /\ it \in Address
    /\ list \in Seq(heap)
    /\ unseen \subseteq Element
    /\ firstErased \in BOOLEAN /\ lastErased \in BOOLEAN /\ whole \in BOOLEAN
    /\ firstErased \/ mBegin \in heap \cup {Null}
    /\ lastErased \/ mEnd \in heap \cup {Null}
    /\ whole => it \in heap \cup {Null}

(* Each end, until it is erased, is where its pointer says, and as long as *)
(* both are, the pointers represent the list: both chains, and nothing is  *)
(* leaked (what emplace_back and erase keep between them, double-linked-   *)
(* list.cpp:111-154).                                                      *)
Represents ==
    /\ IsInjective(list)
    /\ \A e \in heap : \E i \in DOMAIN list : list[i] = e
    /\ firstErased \/ mBegin = IF list = <<>> THEN Null ELSE list[1]
    /\ lastErased \/ mEnd = IF list = <<>> THEN Null ELSE list[Len(list)]
    /\ ~lastErased =>
          \A i \in DOMAIN list :
             /\ mNext[list[i]] = IF i = Len(list) THEN Null ELSE list[i + 1]
             /\ mPrev[list[i]] = IF i = 1 THEN Null ELSE list[i - 1]

(* A pass of DataStore::run that began with both ends in place and has     *)
(* reached end() has visited every element that was in the list when it    *)
(* began, whatever was emplaced meanwhile and whatever it erased, the ends *)
(* included.                                                               *)
PassVisitsAll == it = Null /\ whole => unseen = {}

(* The address the loop of ~DoubleLinkedList holds in its n-th round.      *)
Walk[n \in Nat] ==
    IF n = 0 THEN mBegin
    ELSE IF Walk[n - 1] = Null THEN Null ELSE mNext[Walk[n - 1]]

(* The three assertions of ~DoubleLinkedList, for the elements it finds    *)
(* alive: an empty list has no end, each successor points back, and the    *)
(* last element met is mEnd.                                               *)
DestructorAsserts ==
    /\ mBegin = Null => mEnd = Null
    /\ \A n \in 0..Cardinality(Element) :
          Walk[n] \in heap =>
              IF Walk[n + 1] = Null THEN Walk[n] = mEnd
              ELSE Walk[n + 1] \in heap => mPrev[Walk[n + 1]] = Walk[n]

(* What is found by following mNext from mBegin                            *)
Contents == [i \in 1 .. Cardinality(heap) |-> Walk[i - 1]]
Pointers == INSTANCE MemberList WITH list <- Contents

(* Until it erases an end, what emplace_back and erase make of the         *)
(* pointers, followed from mBegin, is what the abstract list says of its   *)
(* elements.                                                               *)
ImplementsMemberList ==
    Pointers!Init /\ [][Intact' => [Pointers!Next]_Contents]_listVars
=============================================================================
