------------------------------ MODULE ListWalk --------------------------------
(***************************************************************************)
(* find and findName, which walk the list without a mutex while            *)
(* DataStore::run erases and others emplace.  The search is for the first  *)
(* of the elements that have the primary key or name; there may be none.   *)
(* Its iterator may rest on an element that is erased; what it then reads  *)
(* is whatever the allocator has left or put there.                        *)
(***************************************************************************)
EXTENDS DoubleLinkedList

VARIABLES
    search,     \* "idle", "walking", or the result: "found" or "missed"
    finder,     \* the iterator of find
    sought,     \* the elements find is to find, as far as they are still there
    strayed     \* history: the iterator has rested on an element that was erased

walkVars == <<search, finder, sought, strayed>>

WalkInit ==
    /\ ListInit
    /\ search = "idle"
    /\ finder = Null
    /\ sought = {}
    /\ strayed = FALSE

-----------------------------------------------------------------------------
(* it = begin(), which is the element that was the first one even if it    *)
(* has been erased                                                         *)
FindBegin(elements) ==
    /\ search = "idle"
    /\ elements \subseteq ToSet(list)
    /\ sought' = elements
    /\ finder' = mBegin
    /\ search' = "walking"
    /\ strayed' = firstErased
    /\ UNCHANGED listVars

(* end() is reached, or what is read at the iterator is what is looked for *)
FindEnds ==
    /\ search = "walking"
    /\ finder = Null \/ finder \in sought \/ finder \notin heap
    /\ search' = IF finder = Null THEN "missed" ELSE "found"
    /\ UNCHANGED <<listVars, finder, sought, strayed>>

(* ++it                                                                    *)
FindNext ==
    /\ search = "walking"
    /\ finder # Null /\ finder \notin sought
    /\ IF finder \in heap THEN finder' = mNext[finder] ELSE finder' \in Address
    /\ strayed' = (strayed \/ finder' \notin heap \cup {Null})
    /\ UNCHANGED <<listVars, search, sought>>

FindReturns ==
    /\ search \in {"found", "missed"}
    /\ search' = "idle"
    /\ finder' = Null
    /\ sought' = {}
    /\ strayed' = FALSE
    /\ UNCHANGED listVars

Find ==
    \/ \E elements \in SUBSET Element : FindBegin(elements)
    \/ FindEnds \/ FindNext \/ FindReturns

(* What a change of the list beside the search does to it                  *)
Disturbed ==
    /\ sought' = sought \cap heap'
    /\ strayed' = (strayed \/ finder \notin heap' \cup {Null})
    /\ UNCHANGED <<search, finder>>

Beside == ListNext /\ Disturbed

WalkNext == Find \/ Beside

WalkSpec == WalkInit /\ [][WalkNext]_<<listVars, walkVars>>

-----------------------------------------------------------------------------
(* The list, the pass and the search have their types; a search that has   *)
(* not been led astray rests on an element of the list or on end().        *)
WalkTypeOK ==
    /\ ListTypeOK
    /\ search \in {"idle", "walking", "found", "missed"}
    /\ finder \in Address
    /\ sought \subseteq heap
    /\ strayed \in BOOLEAN
    /\ ~strayed => finder \in heap \cup {Null}

(* As long as the last element has not been erased, a search that misses   *)
(* an element which was in the list from beginning to end has rested on    *)
(* one that was erased: neither what is emplaced behind it nor what is     *)
(* erased anywhere else leads it astray.  (Behind an erased last element   *)
(* nothing that is emplaced is found.)                                     *)
FindComplete == search = "missed" => sought = {} \/ strayed \/ lastErased
=============================================================================
