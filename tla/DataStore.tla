----------------------------- MODULE DataStore ------------------------------
(***************************************************************************)
(* Lifetime of the members in the data store: the elements of one of its   *)
(* lists with their use counters, the MemberPtr objects that refer to      *)
(* them, the callers that look members up and request missing ones from    *)
(* the server, and the thread of DataStore::run that erases the elements   *)
(* no one uses.                                                            *)
(*                                                                         *)
(* A slot is a MemberPtr object; its constructors, assignments and its     *)
(* destructor are the actions on it.  A caller is a thread inside the      *)
(* watchlist, the only client of the lookups, which holds                  *)
(* Watchlist::mMembersMutex across the whole call, hence one search at a   *)
(* time.  The list is the one of DoubleLinkedList, pointer by pointer, and *)
(* find walks it as in ListWalk, while the eraser works on it.             *)
(***************************************************************************)
EXTENDS ListWalk

CONSTANTS
    Key,        \* primary keys
    Slot,       \* MemberPtr objects
    Caller,     \* threads that look members up
    Run,        \* the thread of DataStore::run, as the owner of a mutex
    Kind,       \* which list: "node" (mNodes) or "topic" (mTopics)
    AssignOver, \* TRUE: a MemberPtr that refers to an element is assigned to
    MaxCount,   \* bound on the use counters
    MaxLookups  \* bound on the number of lookups

ASSUME OwnerAssumption == Null \notin Caller /\ Run \notin Caller \cup {Null}
ASSUME FiniteAssumption == IsFiniteSet(Slot) /\ IsFiniteSet(Caller) /\ Slot \cap Caller = {}
ASSUME KindAssumption == Kind \in {"node", "topic"}
ASSUME FlagAssumption == AssignOver \in BOOLEAN
ASSUME BoundAssumption == MaxCount \in Nat \ {0} /\ MaxLookups \in Nat

VARIABLES
    keyOf,          \* Data::instance.mPrimaryKey, by element
    useCounter,     \* Data::useCounter, by element
    mpMember,       \* MemberPtr::mpMember, by slot
    dsPc,           \* DataStore::run: where it stands
    callPc,         \* where each caller stands
    callKey,        \* the key it asked for
    callIt,         \* the iterator of the element it has emplaced
    membersMutex,   \* owner of Watchlist::mMembersMutex
    listMutex,      \* owners of mNodesMutex and mTopicsMutex
    pending,        \* attribute requests the server has not answered, by caller
    attrQueue,      \* responses to attribute requests, in the message queue
    lookups,        \* number of lookups made
    reused,         \* history: a lookup has returned an element it has found
    astray          \* history: a search that had been led astray has returned

callVars == <<callPc, callKey, callIt, membersMutex, pending, attrQueue, lookups>>
storeVars == <<keyOf, useCounter, mpMember, dsPc, listMutex, callVars, reused, astray>>
vars == <<listVars, walkVars, storeVars>>

-----------------------------------------------------------------------------
(* Slips: what a bug would make of definitions below.                      *)
MembersMutexIgnored == TRUE
RequestMutexOfNodes == "mNodesMutex"
UncountedElement == 0
IncreasedTwice(n) == n + 2

-----------------------------------------------------------------------------
MembersMutexFree == membersMutex = Null

(* AtomicCounter: its first value, increase and decrease, which stops at   *)
(* zero.                                                                   *)
InitialCount == 1
Increased(n) == n + 1
Decreased(n) == IF n > 0 THEN n - 1 ELSE n

(* The mutex requestNode and requestTopic hold, and the one the eraser     *)
(* holds: requestNode takes the mutex of the topics.                       *)
RequestMutex == "mTopicsMutex"
EraseMutex == IF Kind = "node" THEN "mNodesMutex" ELSE "mTopicsMutex"

Init ==
    /\ WalkInit
    /\ keyOf = [e \in Element |-> Null]
    /\ useCounter = [e \in Element |-> 0]
    /\ mpMember = [s \in Slot |-> Null]
    /\ dsPc = "idle"
    /\ callPc = [c \in Caller |-> "idle"]
    /\ callKey = [c \in Caller |-> Null]
    /\ callIt = [c \in Caller |-> Null]
    /\ membersMutex = Null
    /\ listMutex = [m \in {"mNodesMutex", "mTopicsMutex"} |-> Null]
    /\ pending = {}
    /\ attrQueue = <<>>
    /\ lookups = 0
    /\ reused = FALSE
    /\ astray = FALSE

-----------------------------------------------------------------------------
(* Lookups: getNode, getTopic and their ByName variants.                   *)

(* The call of find or findName                                            *)
Lookup(c, k) ==
    /\ callPc[c] = "idle"
    /\ MembersMutexFree
    /\ lookups < MaxLookups
    /\ FindBegin({e \in heap : keyOf[e] = k})
    /\ membersMutex' = c
    /\ lookups' = lookups + 1
    /\ callKey' = [callKey EXCEPT ![c] = k]
    /\ callPc' = [callPc EXCEPT ![c] = "find"]
    /\ UNCHANGED <<keyOf, useCounter, mpMember, dsPc, listMutex, callIt, pending, attrQueue,
                   reused, astray>>

(* Its loop, which takes no mutex of the data store                        *)
Walking == (FindNext \/ FindEnds) /\ UNCHANGED storeVars

(* it == end()                                                             *)
Miss(c) ==
    /\ callPc[c] = "find"
    /\ search = "missed"
    /\ FindReturns
    /\ astray' = (astray \/ strayed)
    /\ callPc' = [callPc EXCEPT ![c] = "miss"]
    /\ UNCHANGED <<keyOf, useCounter, mpMember, dsPc, listMutex, callKey, callIt,
                   membersMutex, pending, attrQueue, lookups, reused>>

(* return MAKE_MEMBER_PTR(it): the constructor leaves the counter alone.   *)
ReturnHit(c, s) ==
    /\ callPc[c] = "find"
    /\ search = "found"
    /\ FindReturns
    /\ mpMember[s] = Null
    /\ mpMember' = [mpMember EXCEPT ![s] = finder]
    /\ reused' = TRUE
    /\ astray' = (astray \/ strayed)
    /\ callPc' = [callPc EXCEPT ![c] = "idle"]
    /\ membersMutex' = Null
    /\ UNCHANGED <<keyOf, useCounter, dsPc, listMutex, callKey, callIt, pending, attrQueue, lookups>>

(* requestNode, requestTopic: lock, send the request and wait.  Bound: an  *)
(* address is left for the element.                                        *)
Request(c) ==
    /\ callPc[c] = "miss"
    /\ Element \ heap # {}
    /\ listMutex[RequestMutex] = Null
    /\ listMutex' = [listMutex EXCEPT ![RequestMutex] = c]
    /\ callPc' = [callPc EXCEPT ![c] = "request"]
    /\ UNCHANGED <<listVars, walkVars, keyOf, useCounter, mpMember, dsPc, callKey, callIt,
                   membersMutex, pending, attrQueue, lookups, reused, astray>>

(* The response: emplace_back with a counter of one, unlock, send the      *)
(* request for the attribute.                                              *)
Respond(c, e) ==
    /\ callPc[c] = "request"
    /\ EmplaceBack(e)
    /\ Disturbed
    /\ keyOf' = [keyOf EXCEPT ![e] = callKey[c]]
    /\ useCounter' = [useCounter EXCEPT ![e] = InitialCount]
    /\ listMutex' = [listMutex EXCEPT ![RequestMutex] = Null]
    /\ callIt' = [callIt EXCEPT ![c] = e]
    /\ pending' = pending \cup {c}
    /\ callPc' = [callPc EXCEPT ![c] = "attribute"]
    /\ UNCHANGED <<mpMember, dsPc, callKey, membersMutex, attrQueue, lookups, reused, astray>>

(* The server answers the attribute requests in any order.                 *)
Answer(c) ==
    /\ c \in pending
    /\ pending' = pending \ {c}
    /\ attrQueue' = Append(attrQueue, c)
    /\ UNCHANGED <<listVars, walkVars, keyOf, useCounter, mpMember, dsPc, listMutex,
                   callPc, callKey, callIt, membersMutex, lookups, reused, astray>>

(* The first response in the queue is taken for the answer (and asserted   *)
(* to be: RequestIdMatches), then MAKE_MEMBER_PTR(node) is returned.       *)
ReturnRequested(c, s) ==
    /\ callPc[c] = "attribute"
    /\ attrQueue # <<>>
    /\ mpMember[s] = Null
    /\ attrQueue' = Tail(attrQueue)
    /\ mpMember' = [mpMember EXCEPT ![s] = callIt[c]]
    /\ callPc' = [callPc EXCEPT ![c] = "idle"]
    /\ callIt' = [callIt EXCEPT ![c] = Null]
    /\ membersMutex' = Null
    /\ UNCHANGED <<listVars, walkVars, keyOf, useCounter, dsPc, listMutex, callKey, pending,
                   lookups, reused, astray>>

-----------------------------------------------------------------------------
(* MemberPtr.  What happens after a counter of an erased element has been  *)
(* used is undefined and not modelled: slots are used while it is there.   *)

(* The copy constructor, for a new MemberPtr d, and the copy assignment,   *)
(* which does not release what d referred to.                              *)
Copy(d, s) ==
    LET e == mpMember[s]
    IN  /\ mpMember[d] = Null \/ AssignOver
        /\ \/ e = Null /\ UNCHANGED useCounter
           \/ /\ e \in heap
              /\ useCounter[e] < MaxCount
              /\ useCounter' = [useCounter EXCEPT ![e] = Increased(@)]
        /\ mpMember' = [mpMember EXCEPT ![d] = e]
        /\ UNCHANGED <<listVars, walkVars, keyOf, dsPc, listMutex, callVars, reused, astray>>

(* The move constructor and the move assignment: other gives up its        *)
(* element, what d referred to is not released.                            *)
Move(d, s) ==
    /\ mpMember[d] = Null \/ AssignOver
    /\ mpMember' = [mpMember EXCEPT ![d] = mpMember[s], ![s] = Null]
    /\ UNCHANGED <<listVars, walkVars, keyOf, useCounter, dsPc, listMutex, callVars, reused, astray>>

(* The destructor                                                          *)
Destroy(s) ==
    LET e == mpMember[s]
    IN  /\ e \in heap
        /\ useCounter' = [useCounter EXCEPT ![e] = Decreased(@)]
        /\ mpMember' = [mpMember EXCEPT ![s] = Null]
        /\ UNCHANGED <<listVars, walkVars, keyOf, dsPc, listMutex, callVars, reused, astray>>

-----------------------------------------------------------------------------
(* DataStore::run: the pass that erases unused elements.  An iterator that *)
(* rests on freed memory reads any counter there.                          *)

RunBegin ==
    /\ dsPc = "idle"
    /\ Begin
    /\ Disturbed
    /\ dsPc' = "scan"
    /\ UNCHANGED <<keyOf, useCounter, mpMember, listMutex, callVars, reused, astray>>

RunKeep ==
    /\ dsPc = "scan"
    /\ it \in heap => useCounter[it] > 0
    /\ Advance
    /\ Disturbed
    /\ UNCHANGED storeVars

(* nonZero() has returned false; the mutex is taken after that.            *)
RunUnused ==
    /\ dsPc = "scan"
    /\ it # Null
    /\ it \in heap => useCounter[it] = 0
    /\ dsPc' = "unused"
    /\ UNCHANGED <<listVars, walkVars, keyOf, useCounter, mpMember, listMutex, callVars, reused, astray>>

RunLock ==
    /\ dsPc = "unused"
    /\ listMutex[EraseMutex] = Null
    /\ listMutex' = [listMutex EXCEPT ![EraseMutex] = Run]
    /\ dsPc' = "erase"
    /\ UNCHANGED <<listVars, walkVars, keyOf, useCounter, mpMember, callVars, reused, astray>>

RunErase ==
    /\ dsPc = "erase"
    /\ \E i \in DOMAIN list : Erase(i)
    /\ Disturbed
    /\ listMutex' = [listMutex EXCEPT ![EraseMutex] = Null]
    /\ dsPc' = "scan"
    /\ UNCHANGED <<keyOf, useCounter, mpMember, callVars, reused, astray>>

(* An element is deleted once more, which free() answers by ending the     *)
(* program; what the others may still do is of no interest.                *)
RunAborts ==
    /\ dsPc = "erase"
    /\ it \notin heap
    /\ UNCHANGED vars

RunEnd ==
    /\ dsPc = "scan"
    /\ it = Null
    /\ dsPc' = "idle"
    /\ UNCHANGED <<listVars, walkVars, keyOf, useCounter, mpMember, listMutex, callVars, reused, astray>>

-----------------------------------------------------------------------------
CallerStep(c) ==
    \/ \E k \in Key : Lookup(c, k)
    \/ Miss(c)
    \/ \E s \in Slot : ReturnHit(c, s)
    \/ Request(c)
    \/ \E e \in Element : Respond(c, e)
    \/ \E s \in Slot : ReturnRequested(c, s)

SlotStep ==
    \/ \E d, s \in Slot : Copy(d, s)
    \/ \E d, s \in Slot : Move(d, s)
    \/ \E s \in Slot : Destroy(s)

RunStep == RunBegin \/ RunKeep \/ RunUnused \/ RunLock \/ RunErase \/ RunAborts \/ RunEnd

Next ==
    \/ \E c \in Caller : CallerStep(c) \/ Answer(c)
    \/ Walking
    \/ SlotStep
    \/ RunStep

Spec == Init /\ [][Next]_vars

-----------------------------------------------------------------------------
Holders(e) ==
    {s \in Slot : mpMember[s] = e} \cup {c \in Caller : callPc[c] = "attribute" /\ callIt[c] = e}

(* Counters stay in the range of size_t that the floor of decrease keeps;  *)
(* the list, the search and every variable have their types.               *)
TypeOK ==
    /\ WalkTypeOK
    /\ keyOf \in [Element -> Key \cup {Null}]
    /\ useCounter \in [Element -> 0 .. MaxCount]
    /\ mpMember \in [Slot -> Address]
    /\ dsPc \in {"idle", "scan", "unused", "erase"}
    /\ callPc \in [Caller -> {"idle", "find", "miss", "request", "attribute"}]
    /\ callKey \in [Caller -> Key \cup {Null}]
    /\ callIt \in [Caller -> Address]
    /\ membersMutex \in Caller \cup {Null}
    /\ listMutex \in [{"mNodesMutex", "mTopicsMutex"} -> Caller \cup {Run, Null}]
    /\ pending \subseteq Caller
    /\ attrQueue \in Seq(Caller)
    /\ lookups \in 0 .. MaxLookups
    /\ reused \in BOOLEAN /\ astray \in BOOLEAN

(* No MemberPtr refers to an element DataStore::run has erased.            *)
MembersLive == \A s \in Slot : mpMember[s] \in heap \cup {Null}

(* What the counters can be relied on for: no lookup has returned an       *)
(* element it has found, which the counter does not count, and no pass has *)
(* begun after an end of the list was erased, at an address where another  *)
(* element may be by now.                                                  *)
Reliable == ~reused /\ whole

(* As long as the counters are reliable, no MemberPtr and no iterator of a *)
(* caller refers to an element DataStore::run has erased, and the pass     *)
(* rests on none, whichever elements it erases, the ends included.         *)
NoDangling ==
    /\ Reliable => MembersLive /\ \A c \in Caller : callIt[c] \in heap \cup {Null}
    /\ whole => it \in heap \cup {Null}

(* As long as they are reliable, the use counter of an element counts at   *)
(* least the MemberPtr objects that refer to it and the request that is    *)
(* about to return one.                                                    *)
CountCoversHolders ==
    Reliable => \A e \in heap : Cardinality(Holders(e)) <= useCounter[e]

(* The element the pass has found unused stays unused until it is erased,  *)
(* although the test is made before the mutex is taken.                    *)
StaysUnused == Reliable /\ dsPc \in {"unused", "erase"} => Holders(it) = {}

(* A member is in the list once: two callers never both miss in find and   *)
(* request the same key.  This holds as long as find can find it: until    *)
(* the last element is erased, behind which nothing is found any more, or  *)
(* a search is led astray by an element erased under its iterator.         *)
OneElementPerKey ==
    ~lastErased /\ ~astray =>
        \A i, j \in DOMAIN list : keyOf[list[i]] = keyOf[list[j]] => i = j

(* assert(requestId == response.requestID) in requestNode, requestTopic.   *)
RequestIdMatches ==
    \A c \in Caller : callPc[c] = "attribute" /\ attrQueue # <<>> => Head(attrQueue) = c

(* emplace_back of a request and erase of DataStore::run never work on the *)
(* list at the same time.                                                  *)
ListExclusive ==
    \A c \in Caller : ~(callPc[c] = "request" /\ dsPc = "erase")
=============================================================================
